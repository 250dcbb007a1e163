------------------------------ MODULE NodeBoot ------------------------------
(***************************************************************************)
(* How a node boots: the units the node images bring along, vabbe-kmod,    *)
(* vabbe-resolv and vabbe-containerd-store, command by command, and sshd.  *)
(* Any command may fail: "set -e" then ends its script, or "|| true" drops *)
(* the error, and the boot goes on all the same.  A node may lose its      *)
(* power between any two commands; what they wrote to the container's own  *)
(* layer stays, until the container is rebuilt, and the scripts decide by  *)
(* what they find there.                                                   *)
(***************************************************************************)
EXTENDS Naturals, Sequences

CONSTANTS
    Nodes,
    Addresses,
    Pin,          \* the address the file gives a node, or None
    None

\* "vm": a runtime with a kernel of its own, whose build config the host has; "runc": the
\* host's kernel and modules; "runner": a container without sshd.
Kinds == {"vm", "runc", "runner"}

ASSUME BootAssumption ==
    /\ None \notin Addresses \cup Nodes
    /\ Pin \in [Nodes -> Addresses \cup {None}]
    /\ \A m, n \in Nodes : Pin[m] = Pin[n] /\ Pin[m] # None => m = n

VARIABLES kind, node

bootVars == <<kind, node>>

Disk ==
    [dep  : BOOLEAN,                        \* modules.dep is there
     idx  : BOOLEAN,                        \* depmod's indexes: modules.builtin.bin and others
     conf : BOOLEAN,                        \* the kernel's build config
     img  : {"absent", "blank", "ext4"},    \* /var/lib/vabbe-containerd.img
     data : BOOLEAN]                        \* with pulled images in it

Kmod == {"check", "depmod", "index", "copy", "done"}
Store == {"probe", "truncate", "mkfs", "mount", "done"}

Node ==
    [on      : BOOLEAN,
     addr    : Addresses \cup {None},
     kmod    : Kmod,
     resolv  : BOOLEAN,                \* vabbe-resolv has ended
     store   : Store,
     ssh     : BOOLEAN,
     mounted : BOOLEAN,                \* the image, on /var/lib/containerd
     disk    : Disk,
     \* history: a command of the script failed in this boot,
     kmodErr  : BOOLEAN,
     storeErr : BOOLEAN,
     \* and an earlier boot, by that or by a loss of power, left what this one does not redo.
     noMods   : BOOLEAN,
     noStore  : BOOLEAN]

\* A runc node has the host's modules mounted.
FreshDisk(n) ==
    [dep |-> kind[n] = "runc", idx |-> FALSE, conf |-> FALSE, img |-> "absent", data |-> FALSE]

NewNode(n) ==
    [on |-> FALSE, addr |-> None, kmod |-> "check", resolv |-> FALSE,
     store |-> "probe", ssh |-> FALSE, mounted |-> FALSE,
     disk |-> FreshDisk(n), kmodErr |-> FALSE, storeErr |-> FALSE,
     noMods |-> FALSE, noStore |-> FALSE]

\* What is mounted or runs is gone, and at the next start Docker writes resolv.conf anew.
Stopped(r) ==
    [r EXCEPT !.on = FALSE, !.addr = None, !.kmod = "check", !.resolv = FALSE,
              !.store = "probe", !.ssh = FALSE, !.mounted = FALSE,
              !.kmodErr = FALSE, !.storeErr = FALSE]

Free(a) == \A m \in Nodes : node[m].addr # a

Set(n, r) == node' = [node EXCEPT ![n] = r] /\ UNCHANGED kind

\* Its units run.
Booting(n) == node[n].on /\ kind[n] # "runner"

-----------------------------------------------------------------------------
(* vabbe-kmod *)

\* Mutant of KmodCheck: a tree without modules.dep counts as well.
KmodCheckLists(n) ==
    /\ Booting(n) /\ node[n].kmod = "check"
    /\ Set(n, [node[n] EXCEPT !.kmod = "done"])

\* A tree that depmod has been at is left alone.
HasTree(d) == d.dep \/ d.idx

KmodCheck(n) ==
    /\ Booting(n) /\ node[n].kmod = "check"
    /\ Set(n, [node[n] EXCEPT !.kmod = IF HasTree(node[n].disk) THEN "done" ELSE "depmod"])

\* The lists are written, or the script ends, and depmod starts: modules.dep comes
\* first...
KmodDepmod(n) ==
    /\ Booting(n) /\ node[n].kmod = "depmod"
    /\ \/ Set(n, [node[n] EXCEPT !.kmod = "done", !.kmodErr = TRUE])
       \/ \E ok \in BOOLEAN :
             Set(n, [node[n] EXCEPT !.kmod = "index", !.disk.dep = ok, !.kmodErr = ~ok])

\* ... then its indexes.  Whether depmod could write either is not asked...
KmodIndex(n) ==
    /\ Booting(n) /\ node[n].kmod = "index"
    /\ \E ok \in BOOLEAN :
          Set(n, [node[n] EXCEPT !.kmod = "copy", !.disk.idx = ok, !.kmodErr = @ \/ ~ok])

\* ... nor whether the kernel's config was copied.
KmodCopy(n) ==
    /\ Booting(n) /\ node[n].kmod = "copy"
    /\ \E ok \in BOOLEAN :
          Set(n, [node[n] EXCEPT !.kmod = "done", !.disk.conf = ok, !.kmodErr = @ \/ ~ok])

-----------------------------------------------------------------------------
(* vabbe-resolv: the upstream resolvers replace Docker's embedded one.  What waits for *)
(* the unit waits for its end, and not for its success.                                *)

ResolvWrite(n) ==
    /\ Booting(n) /\ ~node[n].resolv
    /\ Set(n, [node[n] EXCEPT !.resolv = TRUE])

-----------------------------------------------------------------------------
(* vabbe-containerd-store: only where /var/lib/containerd is on virtiofs. *)

\* sysinit.target waits for vabbe-kmod and vabbe-resolv, and what has no early unit of
\* its own for sysinit.target.
SysInit(n) == node[n].kmod = "done" /\ node[n].resolv

\* Mutant of StoreProbe: the image is made at every boot.
StoreProbeAnew(n) ==
    /\ Booting(n) /\ SysInit(n) /\ node[n].store = "probe"
    /\ Set(n, [node[n] EXCEPT !.store = IF kind[n] # "vm" THEN "done" ELSE "truncate"])

\* A mount that cannot be looked up passes for a real file system.
StoreProbe(n) ==
    /\ Booting(n) /\ SysInit(n) /\ node[n].store = "probe"
    /\ \/ Set(n, [node[n] EXCEPT !.store = "done", !.storeErr = TRUE])
       \/ Set(n, [node[n] EXCEPT !.store =
                     IF kind[n] # "vm" THEN "done"
                     ELSE IF node[n].disk.img = "absent" THEN "truncate" ELSE "mount"])

\* A truncate that fails may have made the file.
StoreTruncate(n) ==
    /\ Booting(n) /\ node[n].store = "truncate"
    /\ \/ Set(n, [node[n] EXCEPT !.store = "mkfs", !.disk.img = "blank", !.disk.data = FALSE])
       \/ \E img \in {"absent", "blank"} :
             Set(n, [node[n] EXCEPT !.store = "done", !.storeErr = TRUE,
                                    !.disk.img = img, !.disk.data = FALSE])

StoreMkfs(n) ==
    /\ Booting(n) /\ node[n].store = "mkfs"
    /\ \/ Set(n, [node[n] EXCEPT !.store = "mount", !.disk.img = "ext4"])
       \/ Set(n, [node[n] EXCEPT !.store = "done", !.storeErr = TRUE])

\* mkdir, the loop devices and mount.  An image without a file system cannot be mounted.
StoreMount(n) ==
    /\ Booting(n) /\ node[n].store = "mount"
    /\ \E ok \in BOOLEAN :
          Set(n, [node[n] EXCEPT !.store = "done", !.storeErr = @ \/ ~ok,
                                 !.mounted = ok /\ node[n].disk.img = "ext4"])

-----------------------------------------------------------------------------
\* Mutant of SshStart: vabbe-kmod is wanted by multi-user.target.
SshStartEarly(n) ==
    /\ Booting(n) /\ ~node[n].ssh
    /\ node[n].resolv
    /\ Set(n, [node[n] EXCEPT !.ssh = TRUE])

\* sshd comes after sysinit.target, in no order with the store.
SshStart(n) ==
    /\ Booting(n) /\ ~node[n].ssh
    /\ SysInit(n)
    /\ Set(n, [node[n] EXCEPT !.ssh = TRUE])

\* containerd, which starts after the store, unpacks an image.
Pull(n) ==
    /\ Booting(n) /\ node[n].store = "done" /\ node[n].mounted
    /\ ~node[n].disk.data
    /\ Set(n, [node[n] EXCEPT !.disk.data = TRUE])

\* Docker leases the address, a fixed one too, for as long as the container runs.
PowerOn(n) ==
    /\ ~node[n].on
    /\ \E a \in Addresses :
          /\ Free(a)
          /\ Pin[n] # None => a = Pin[n]
          /\ Set(n, [node[n] EXCEPT !.on = TRUE, !.addr = a])

\* docker stop, a reboot from inside, or a crash.  The next boot leaves a tree alone that
\* this one began and did not finish, and an image it made and did not format.
PowerOff(n) ==
    /\ node[n].on
    /\ Set(n, [Stopped(node[n]) EXCEPT
                  !.noMods = \/ @
                             \/ /\ node[n].kmod \in {"index", "copy"} \/ node[n].kmodErr
                                /\ HasTree(node[n].disk),
                  !.noStore = \/ @
                              \/ /\ node[n].store = "mkfs" \/ node[n].storeErr
                                 /\ node[n].disk.img = "blank"])

\* up --recreate, or down and up: a new container.
Rebuild(n) ==
    /\ ~node[n].on
    /\ Set(n, NewNode(n))

BootStep(n) ==
    \/ KmodCheck(n) \/ KmodDepmod(n) \/ KmodIndex(n) \/ KmodCopy(n)
    \/ ResolvWrite(n)
    \/ StoreProbe(n) \/ StoreTruncate(n) \/ StoreMkfs(n) \/ StoreMount(n)
    \/ SshStart(n)

NodeStep(n) == BootStep(n) \/ Pull(n) \/ PowerOn(n) \/ PowerOff(n) \/ Rebuild(n)

BootInit ==
    /\ kind \in [Nodes -> Kinds]
    /\ node = [n \in Nodes |-> NewNode(n)]

-----------------------------------------------------------------------------
\* What a node of that kind is once it has booted, and whether node n has: its scripts
\* have ended.
BootedAs(k, r) ==
    /\ r.on
    /\ k # "runner" => r.ssh /\ r.kmod = "done" /\ r.resolv

Booted(n) == BootedAs(kind[n], node[n])

BootTypeOK ==
    /\ kind \in [Nodes -> Kinds]
    /\ node \in [Nodes -> Node]
    /\ \A m, n \in Nodes : node[m].addr # None /\ node[m].addr = node[n].addr => m = n
    /\ \A n \in Nodes : node[n].addr # None <=> node[n].on

\* What a node pulled is never formatted away: however often it loses its power, the
\* images survive every boot of this container.
StoreKept ==
    [][\A n \in Nodes :
        node[n].disk.data => node'[n].disk.data \/ node'[n].disk = FreshDisk(n)]_bootVars

\* A boot in which no command of the scripts fails has the store mounted when it gets as
\* far as multi-user.target, and the modules known and the kernel's config in place when
\* it gets as far as sshd, whatever earlier boots left half done: one that lost its power,
\* could not mount the image or could not make a tree is made up for.  Two kinds are not:
\* a loss of power or a failure that left an image without a file system, or a tree with
\* modules.dep or depmod's indexes but without the rest.
BootCompletes ==
    \A n \in Nodes : kind[n] = "vm" =>
        /\ node[n].store = "done" =>
              node[n].mounted \/ node[n].storeErr \/ node[n].noStore
        /\ node[n].kmod = "done" =>
              \/ node[n].disk.dep /\ node[n].disk.idx /\ node[n].disk.conf
              \/ node[n].kmodErr \/ node[n].noMods
=============================================================================
