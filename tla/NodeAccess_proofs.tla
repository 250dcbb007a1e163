-------------------------- MODULE NodeAccess_proofs --------------------------
(***************************************************************************)
(* Proofs about NodeBoot and NodeAccess, for any nodes, addresses, pins,   *)
(* timeouts and probes.                                                    *)
(***************************************************************************)
EXTENDS NodeAccess, SequenceTheorems, TLAPS

-----------------------------------------------------------------------------
(* The nodes. *)

\* sshd and the store come after vabbe-kmod and vabbe-resolv.
InOrder(r) ==
    /\ r.ssh => r.on /\ r.kmod = "done" /\ r.resolv
    /\ r.store # "probe" => r.kmod = "done" /\ r.resolv

AllMods(d) == d.dep /\ d.idx /\ d.conf

\* What vabbe-kmod can rely on at each of its lines in a micro-VM: a tree that lacks
\* something is being made, or this boot or an earlier one could not finish it.
ModsSound(k, r) ==
    k = "vm" =>
        /\ r.kmod = "depmod" => ~HasTree(r.disk)
        /\ r.kmod = "index" => r.disk.dep \/ r.kmodErr
        /\ r.kmod = "copy" => (r.disk.dep /\ r.disk.idx) \/ r.kmodErr
        /\ r.kmod = "done" => HasTree(r.disk) \/ r.kmodErr
        /\ HasTree(r.disk) /\ ~AllMods(r.disk) =>
              r.kmod \in {"index", "copy"} \/ r.kmodErr \/ r.noMods

\* The same of vabbe-containerd-store: an image without a file system is being made, or
\* this boot or an earlier one could not finish it.
StoreSound(k, r) ==
    /\ r.disk.data => r.disk.img = "ext4"
    /\ r.mounted => r.disk.img = "ext4"
    /\ r.store = "truncate" => r.disk.img = "absent"
    /\ r.store = "mkfs" => r.disk.img = "blank"
    /\ k = "vm" =>
          /\ r.disk.img = "blank" => r.store = "mkfs" \/ r.storeErr \/ r.noStore
          /\ r.store = "mount" => r.disk.img # "absent"
          /\ r.store = "done" => r.mounted \/ r.storeErr \/ r.noStore

\* What holds of a node of kind k.
BootSound(k, r) == InOrder(r) /\ ModsSound(k, r) /\ StoreSound(k, r)

\* Who has which address.
Addressed ==
    /\ \A m, n \in Nodes : node[m].addr # None /\ node[m].addr = node[n].addr => m = n
    /\ \A n \in Nodes :
          /\ node[n].addr # None <=> node[n].on
          /\ node[n].on /\ Pin[n] # None => node[n].addr = Pin[n]

BootInv ==
    /\ kind \in [Nodes -> Kinds]
    /\ node \in [Nodes -> Node]
    /\ Addressed
    /\ \A n \in Nodes : BootSound(kind[n], node[n])

LEMMA NewNodeSound ==
    ASSUME kind \in [Nodes -> Kinds], NEW n \in Nodes
    PROVE  NewNode(n) \in Node /\ BootSound(kind[n], NewNode(n))
<1>1. FreshDisk(n) \in Disk
  BY DEF FreshDisk, Disk
<1>2. NewNode(n) \in Node
  BY <1>1 DEF NewNode, Node, Kmod, Store
<1>3. kind[n] = "vm" => ~HasTree(FreshDisk(n))
  BY DEF FreshDisk, HasTree
<1>4. FreshDisk(n).img = "absent" /\ FreshDisk(n).data = FALSE
  BY DEF FreshDisk
<1> QED BY <1>2, <1>3, <1>4 DEF NewNode, BootSound, InOrder, ModsSound, StoreSound

LEMMA BootInitInv == BootInit => BootInv
<1> SUFFICES ASSUME BootInit PROVE BootInv
  OBVIOUS
<1>1. /\ kind \in [Nodes -> Kinds]
      /\ \A n \in Nodes : node[n] = NewNode(n)
  BY DEF BootInit
<1>2. \A n \in Nodes : node[n].addr = None /\ ~node[n].on
  <2> TAKE n \in Nodes
  <2>1. node[n] = NewNode(n)
    BY <1>1
  <2>2. NewNode(n).addr = None
    BY DEF NewNode
  <2>3. ~NewNode(n).on
    BY DEF NewNode
  <2> QED BY <2>1, <2>2, <2>3
<1>3. node \in [Nodes -> Node]
  BY <1>1, NewNodeSound DEF BootInit
<1>4. Addressed
  BY <1>2 DEF Addressed
<1>5. \A n \in Nodes : BootSound(kind[n], node[n])
  <2> TAKE n \in Nodes
  <2>1. node[n] = NewNode(n)
    BY <1>1
  <2>2. BootSound(kind[n], NewNode(n))
    BY <1>1, NewNodeSound
  <2> QED BY <2>1, <2>2
<1>6. kind \in [Nodes -> Kinds]
  BY DEF BootInit
<1> QED BY <1>3, <1>4, <1>5, <1>6 DEF BootInv

\* A step of node n to record r.
Moves(n, r) ==
    /\ Set(n, r)
    /\ r \in Node
    /\ BootSound(kind[n], r)

\* A node that keeps its address keeps everybody's.
LEMMA MoveInv ==
    ASSUME BootInv, NEW n \in Nodes, NEW r, Moves(n, r),
           r.addr = node[n].addr /\ r.on = node[n].on
    PROVE  BootInv'
<1>1. /\ kind' = kind /\ node' \in [Nodes -> Node] /\ node'[n] = r
      /\ \A m \in Nodes \ {n} : node'[m] = node[m]
  BY DEF Moves, Set, BootInv
<1>2. \A m \in Nodes : node'[m].addr = node[m].addr /\ node'[m].on = node[m].on
  BY <1>1
<1>3. Addressed'
  BY <1>2 DEF Addressed, BootInv
<1>4. \A m \in Nodes : BootSound(kind'[m], node'[m])
  BY <1>1 DEF BootInv, Moves
<1> QED BY <1>1, <1>3, <1>4 DEF BootInv

\* What a step of a script leaves of its node.
StepKeeps(n) ==
    /\ Moves(n, node'[n])
    /\ node'[n].addr = node[n].addr /\ node'[n].on = node[n].on
    /\ node[n].disk.data => node'[n].disk.data
    /\ node[n].ssh => node'[n].ssh

\* What vabbe-kmod does not touch.
SameButMods(q, r) ==
    /\ r.on = q.on /\ r.addr = q.addr /\ r.resolv = q.resolv /\ r.store = q.store
    /\ r.ssh = q.ssh /\ r.mounted = q.mounted /\ r.storeErr = q.storeErr
    /\ r.noMods = q.noMods /\ r.noStore = q.noStore
    /\ r.disk.img = q.disk.img /\ r.disk.data = q.disk.data

LEMMA KmodOnly ==
    ASSUME BootInv, NEW n \in Nodes, NEW r \in Node, Set(n, r),
           node[n].kmod # "done", SameButMods(node[n], r), ModsSound(kind[n], r)
    PROVE  StepKeeps(n)
<1>1. BootSound(kind[n], node[n])
  BY DEF BootInv
<1>2. InOrder(r) /\ StoreSound(kind[n], r)
  BY <1>1 DEF BootSound, InOrder, StoreSound, SameButMods
<1>3. node'[n] = r
  BY DEF Set, BootInv
<1> QED BY <1>2, <1>3 DEF StepKeeps, Moves, BootSound, SameButMods

\* What vabbe-containerd-store does not touch.
SameButStore(q, r) ==
    /\ r.on = q.on /\ r.addr = q.addr /\ r.resolv = q.resolv /\ r.kmod = q.kmod
    /\ r.ssh = q.ssh /\ r.kmodErr = q.kmodErr
    /\ r.noMods = q.noMods /\ r.noStore = q.noStore
    /\ r.disk.dep = q.disk.dep /\ r.disk.idx = q.disk.idx /\ r.disk.conf = q.disk.conf

LEMMA StoreOnly ==
    ASSUME BootInv, NEW n \in Nodes, NEW r \in Node, Set(n, r),
           node[n].kmod = "done", node[n].resolv,
           SameButStore(node[n], r), StoreSound(kind[n], r),
           node[n].disk.data => r.disk.data
    PROVE  StepKeeps(n)
<1>1. BootSound(kind[n], node[n])
  BY DEF BootInv
<1>2. HasTree(r.disk) = HasTree(node[n].disk) /\ AllMods(r.disk) = AllMods(node[n].disk)
  BY DEF HasTree, AllMods, SameButStore
<1>3. InOrder(r) /\ ModsSound(kind[n], r)
  BY <1>1, <1>2 DEF BootSound, InOrder, ModsSound, SameButStore
<1>4. node'[n] = r
  BY DEF Set, BootInv
<1> QED BY <1>3, <1>4 DEF StepKeeps, Moves, BootSound, SameButStore

\* Each line of vabbe-kmod, whether its command succeeds or not.
LEMMA KmodMoves ==
    ASSUME BootInv, NEW n \in Nodes,
           KmodCheck(n) \/ KmodDepmod(n) \/ KmodIndex(n) \/ KmodCopy(n)
    PROVE  StepKeeps(n)
<1>1. node[n] \in Node /\ node[n].disk \in Disk /\ ModsSound(kind[n], node[n])
  BY DEF BootInv, BootSound, Node
<1>2. CASE KmodCheck(n)
  <2> DEFINE r == [node[n] EXCEPT !.kmod = IF HasTree(node[n].disk) THEN "done" ELSE "depmod"]
  <2>1. Set(n, r) /\ node[n].kmod = "check"
    BY <1>2 DEF KmodCheck
  <2>2. r \in Node /\ r.disk = node[n].disk /\ r.kmodErr = node[n].kmodErr
        /\ r.kmod = (IF HasTree(node[n].disk) THEN "done" ELSE "depmod")
    BY <1>1 DEF Node, Kmod
  <2>3. SameButMods(node[n], r)
    BY <1>1 DEF Node, SameButMods
  <2> HIDE DEF r
  <2>4. ModsSound(kind[n], r)
    BY <1>1, <2>1, <2>2, <2>3 DEF ModsSound, SameButMods
  <2> QED BY <2>1, <2>2, <2>3, <2>4, KmodOnly
<1>3. ASSUME node[n].kmod = "depmod", Set(n, [node[n] EXCEPT !.kmod = "done", !.kmodErr = TRUE])
      PROVE  StepKeeps(n)
  <2> DEFINE r == [node[n] EXCEPT !.kmod = "done", !.kmodErr = TRUE]
  <2>1. Set(n, r)
    BY <1>3
  <2>2. r \in Node /\ r.kmod = "done" /\ r.kmodErr
    BY <1>1 DEF Node, Kmod
  <2>3. SameButMods(node[n], r)
    BY <1>1 DEF Node, SameButMods
  <2> HIDE DEF r
  <2>4. ModsSound(kind[n], r)
    BY <2>2 DEF ModsSound
  <2> QED BY <1>3, <2>1, <2>2, <2>3, <2>4, KmodOnly
<1>4. ASSUME node[n].kmod = "depmod", NEW ok \in BOOLEAN,
             Set(n, [node[n] EXCEPT !.kmod = "index", !.disk.dep = ok, !.kmodErr = ~ok])
      PROVE  StepKeeps(n)
  <2> DEFINE r == [node[n] EXCEPT !.kmod = "index", !.disk.dep = ok, !.kmodErr = ~ok]
  <2>1. Set(n, r)
    BY <1>4
  <2>2. r \in Node /\ r.kmod = "index" /\ r.kmodErr = ~ok
        /\ r.disk = [node[n].disk EXCEPT !.dep = ok]
    BY <1>1 DEF Node, Kmod, Disk
  <2>3. r.disk.dep = ok
    BY <1>1, <2>2 DEF Disk
  <2>4. SameButMods(node[n], r)
    BY <1>1 DEF Node, Disk, SameButMods
  <2> HIDE DEF r
  <2>5. ModsSound(kind[n], r)
    BY <2>2, <2>3 DEF ModsSound
  <2> QED BY <1>4, <2>1, <2>2, <2>4, <2>5, KmodOnly
<1>5. CASE KmodIndex(n)
  <2>1. PICK ok \in BOOLEAN :
           Set(n, [node[n] EXCEPT !.kmod = "copy", !.disk.idx = ok, !.kmodErr = @ \/ ~ok])
    BY <1>5 DEF KmodIndex
  <2> DEFINE r == [node[n] EXCEPT !.kmod = "copy", !.disk.idx = ok, !.kmodErr = @ \/ ~ok]
  <2>2. Set(n, r) /\ node[n].kmod = "index"
    BY <1>5, <2>1 DEF KmodIndex
  <2>3. r \in Node /\ r.kmod = "copy" /\ r.kmodErr = (node[n].kmodErr \/ ~ok)
        /\ r.disk = [node[n].disk EXCEPT !.idx = ok]
    BY <1>1 DEF Node, Kmod, Disk
  <2>4. r.disk.idx = ok /\ r.disk.dep = node[n].disk.dep
    BY <1>1, <2>3 DEF Disk
  <2>5. SameButMods(node[n], r)
    BY <1>1 DEF Node, Disk, SameButMods
  <2> HIDE DEF r
  <2>6. ModsSound(kind[n], r)
    BY <1>1, <2>2, <2>3, <2>4 DEF ModsSound
  <2> QED BY <2>2, <2>3, <2>5, <2>6, KmodOnly
<1>6. CASE KmodCopy(n)
  <2>1. PICK ok \in BOOLEAN :
           Set(n, [node[n] EXCEPT !.kmod = "done", !.disk.conf = ok, !.kmodErr = @ \/ ~ok])
    BY <1>6 DEF KmodCopy
  <2> DEFINE r == [node[n] EXCEPT !.kmod = "done", !.disk.conf = ok, !.kmodErr = @ \/ ~ok]
  <2>2. Set(n, r) /\ node[n].kmod = "copy"
    BY <1>6, <2>1 DEF KmodCopy
  <2>3. r \in Node /\ r.kmod = "done" /\ r.kmodErr = (node[n].kmodErr \/ ~ok)
        /\ r.disk = [node[n].disk EXCEPT !.conf = ok]
    BY <1>1 DEF Node, Kmod, Disk
  <2>4. r.disk.conf = ok /\ r.disk.idx = node[n].disk.idx /\ r.disk.dep = node[n].disk.dep
    BY <1>1, <2>3 DEF Disk
  <2>5. SameButMods(node[n], r)
    BY <1>1 DEF Node, Disk, SameButMods
  <2> HIDE DEF r
  <2>6. ModsSound(kind[n], r)
    BY <1>1, <2>2, <2>3, <2>4 DEF ModsSound, HasTree, AllMods
  <2> QED BY <2>2, <2>3, <2>5, <2>6, KmodOnly
<1> QED BY <1>2, <1>3, <1>4, <1>5, <1>6 DEF KmodDepmod

\* Each line of vabbe-containerd-store, whether its command succeeds or not.  The image
\* is truncated only when there is none, so no images are lost.
LEMMA StoreMoves ==
    ASSUME BootInv, NEW n \in Nodes,
           StoreProbe(n) \/ StoreTruncate(n) \/ StoreMkfs(n) \/ StoreMount(n)
    PROVE  StepKeeps(n)
<1>1. /\ node[n] \in Node /\ node[n].disk \in Disk
      /\ InOrder(node[n]) /\ StoreSound(kind[n], node[n])
  BY DEF BootInv, BootSound, Node
<1>2. node[n].kmod = "done" /\ node[n].resolv
  BY <1>1 DEF StoreProbe, SysInit, StoreTruncate, StoreMkfs, StoreMount, InOrder
<1>3. ASSUME node[n].store = "probe",
             Set(n, [node[n] EXCEPT !.store = "done", !.storeErr = TRUE])
      PROVE  StepKeeps(n)
  <2> DEFINE r == [node[n] EXCEPT !.store = "done", !.storeErr = TRUE]
  <2>1. Set(n, r)
    BY <1>3
  <2>2. r \in Node /\ r.store = "done" /\ r.storeErr
        /\ r.mounted = node[n].mounted
        /\ r.disk = node[n].disk
    BY <1>1 DEF Node, Store, Disk
  <2>3. SameButStore(node[n], r)
    BY <1>1 DEF Node, Disk, SameButStore
  <2> HIDE DEF r
  <2>4. StoreSound(kind[n], r) /\ (node[n].disk.data => r.disk.data)
    BY <1>1, <1>3, <2>2 DEF StoreSound, Disk
  <2> QED BY <1>2, <2>1, <2>2, <2>3, <2>4, StoreOnly
<1>4. ASSUME node[n].store = "probe", NEW st \in {"done", "truncate", "mount"},
             st = IF kind[n] # "vm" THEN "done"
                  ELSE IF node[n].disk.img = "absent" THEN "truncate" ELSE "mount",
             Set(n, [node[n] EXCEPT !.store = st])
      PROVE  StepKeeps(n)
  <2> DEFINE r == [node[n] EXCEPT !.store = st]
  <2>1. Set(n, r)
    BY <1>4
  <2>2. r \in Node /\ r.store = st /\ r.storeErr = node[n].storeErr
        /\ r.mounted = node[n].mounted /\ r.noStore = node[n].noStore
        /\ r.disk = node[n].disk
    BY <1>1 DEF Node, Store, Disk
  <2>3. SameButStore(node[n], r)
    BY <1>1 DEF Node, Disk, SameButStore
  <2> HIDE DEF r
  <2>4. StoreSound(kind[n], r) /\ (node[n].disk.data => r.disk.data)
    BY <1>1, <1>4, <2>2 DEF StoreSound, Disk
  <2> QED BY <1>2, <2>1, <2>2, <2>3, <2>4, StoreOnly
<1>5. ASSUME node[n].store = "truncate",
             Set(n, [node[n] EXCEPT !.store = "mkfs", !.disk.img = "blank", !.disk.data = FALSE])
      PROVE  StepKeeps(n)
  <2> DEFINE r == [node[n] EXCEPT !.store = "mkfs", !.disk.img = "blank", !.disk.data = FALSE]
  <2>1. Set(n, r)
    BY <1>5
  <2>2. r \in Node /\ r.store = "mkfs" /\ r.storeErr = node[n].storeErr
        /\ r.mounted = node[n].mounted /\ r.noStore = node[n].noStore
        /\ r.disk = [node[n].disk EXCEPT !.img = "blank", !.data = FALSE]
    BY <1>1 DEF Node, Store, Disk
  <2>3. SameButStore(node[n], r)
    BY <1>1 DEF Node, Disk, SameButStore
  <2> HIDE DEF r
  <2>4. r.disk.img = "blank" /\ r.disk.data = FALSE
    BY <1>1, <2>2 DEF Disk
  <2>5. StoreSound(kind[n], r) /\ (node[n].disk.data => r.disk.data)
    BY <1>1, <1>5, <2>2, <2>4 DEF StoreSound, Disk
  <2> QED BY <1>2, <2>1, <2>2, <2>3, <2>5, StoreOnly
<1>6. ASSUME node[n].store = "truncate", NEW img \in {"absent", "blank"},
             Set(n, [node[n] EXCEPT !.store = "done", !.storeErr = TRUE,
                                    !.disk.img = img, !.disk.data = FALSE])
      PROVE  StepKeeps(n)
  <2> DEFINE r == [node[n] EXCEPT !.store = "done", !.storeErr = TRUE,
                                    !.disk.img = img, !.disk.data = FALSE]
  <2>1. Set(n, r)
    BY <1>6
  <2>2. r \in Node /\ r.store = "done" /\ r.storeErr
        /\ r.mounted = node[n].mounted /\ r.noStore = node[n].noStore
        /\ r.disk = [node[n].disk EXCEPT !.img = img, !.data = FALSE]
    BY <1>1 DEF Node, Store, Disk
  <2>3. SameButStore(node[n], r)
    BY <1>1 DEF Node, Disk, SameButStore
  <2> HIDE DEF r
  <2>4. r.disk.img = img /\ r.disk.data = FALSE
    BY <1>1, <2>2 DEF Disk
  <2>5. StoreSound(kind[n], r) /\ (node[n].disk.data => r.disk.data)
    BY <1>1, <1>6, <2>2, <2>4 DEF StoreSound, Disk
  <2> QED BY <1>2, <2>1, <2>2, <2>3, <2>5, StoreOnly
<1>7. ASSUME node[n].store = "mkfs",
             Set(n, [node[n] EXCEPT !.store = "mount", !.disk.img = "ext4"])
      PROVE  StepKeeps(n)
  <2> DEFINE r == [node[n] EXCEPT !.store = "mount", !.disk.img = "ext4"]
  <2>1. Set(n, r)
    BY <1>7
  <2>2. r \in Node /\ r.store = "mount" /\ r.storeErr = node[n].storeErr
        /\ r.mounted = node[n].mounted /\ r.noStore = node[n].noStore
        /\ r.disk = [node[n].disk EXCEPT !.img = "ext4"]
    BY <1>1 DEF Node, Store, Disk
  <2>3. SameButStore(node[n], r)
    BY <1>1 DEF Node, Disk, SameButStore
  <2> HIDE DEF r
  <2>4. r.disk.img = "ext4" /\ r.disk.data = node[n].disk.data
    BY <1>1, <2>2 DEF Disk
  <2>5. StoreSound(kind[n], r) /\ (node[n].disk.data => r.disk.data)
    BY <1>1, <1>7, <2>2, <2>4 DEF StoreSound, Disk
  <2> QED BY <1>2, <2>1, <2>2, <2>3, <2>5, StoreOnly
<1>8. ASSUME node[n].store = "mkfs",
             Set(n, [node[n] EXCEPT !.store = "done", !.storeErr = TRUE])
      PROVE  StepKeeps(n)
  <2> DEFINE r == [node[n] EXCEPT !.store = "done", !.storeErr = TRUE]
  <2>1. Set(n, r)
    BY <1>8
  <2>2. r \in Node /\ r.store = "done" /\ r.storeErr
        /\ r.mounted = node[n].mounted /\ r.noStore = node[n].noStore
        /\ r.disk = node[n].disk
    BY <1>1 DEF Node, Store, Disk
  <2>3. SameButStore(node[n], r)
    BY <1>1 DEF Node, Disk, SameButStore
  <2> HIDE DEF r
  <2>4. StoreSound(kind[n], r) /\ (node[n].disk.data => r.disk.data)
    BY <1>1, <1>8, <2>2 DEF StoreSound, Disk
  <2> QED BY <1>2, <2>1, <2>2, <2>3, <2>4, StoreOnly
<1>9. ASSUME node[n].store = "mount", NEW ok \in BOOLEAN,
             Set(n, [node[n] EXCEPT !.store = "done", !.storeErr = @ \/ ~ok,
                                 !.mounted = ok /\ node[n].disk.img = "ext4"])
      PROVE  StepKeeps(n)
  <2> DEFINE r == [node[n] EXCEPT !.store = "done", !.storeErr = @ \/ ~ok,
                                 !.mounted = ok /\ node[n].disk.img = "ext4"]
  <2>1. Set(n, r)
    BY <1>9
  <2>2. r \in Node /\ r.store = "done" /\ r.noStore = node[n].noStore
        /\ r.storeErr = (node[n].storeErr \/ ~ok)
        /\ r.mounted = (ok /\ node[n].disk.img = "ext4")
        /\ r.disk = node[n].disk
    BY <1>1 DEF Node, Store, Disk
  <2>3. SameButStore(node[n], r)
    BY <1>1 DEF Node, Disk, SameButStore
  <2> HIDE DEF r
  <2>4. StoreSound(kind[n], r) /\ (node[n].disk.data => r.disk.data)
    BY <1>1, <1>9, <2>2 DEF StoreSound, Disk
  <2> QED BY <1>2, <2>1, <2>2, <2>3, <2>4, StoreOnly
<1> QED BY <1>3, <1>4, <1>5, <1>6, <1>7, <1>8, <1>9
        DEF StoreProbe, StoreTruncate, StoreMkfs, StoreMount

\* The resolver, sshd and the pulling of images.
LEMMA OtherMoves ==
    ASSUME BootInv, NEW n \in Nodes, ResolvWrite(n) \/ SshStart(n) \/ Pull(n)
    PROVE  StepKeeps(n)
<1>1. node[n] \in Node /\ node[n].disk \in Disk /\ BootSound(kind[n], node[n])
  BY DEF BootInv, Node
<1>2. CASE ResolvWrite(n)
  <2> DEFINE r == [node[n] EXCEPT !.resolv = TRUE]
  <2>1. Set(n, r) /\ ~node[n].resolv
    BY <1>2 DEF ResolvWrite
  <2>2. r \in Node /\ r.resolv /\ r.ssh = node[n].ssh /\ r.disk = node[n].disk
    BY <1>1 DEF Node
  <2>3. /\ r.on = node[n].on /\ r.addr = node[n].addr /\ r.kmod = node[n].kmod
        /\ r.store = node[n].store /\ r.mounted = node[n].mounted
        /\ r.kmodErr = node[n].kmodErr /\ r.storeErr = node[n].storeErr
        /\ r.noMods = node[n].noMods /\ r.noStore = node[n].noStore
    BY <1>1 DEF Node
  <2> HIDE DEF r
  <2>4. InOrder(r) /\ ModsSound(kind[n], r) /\ StoreSound(kind[n], r)
    BY <1>1, <2>1, <2>2, <2>3 DEF BootSound, InOrder, ModsSound, StoreSound
  <2>5. node'[n] = r
    BY <2>1 DEF Set, BootInv
  <2> QED BY <2>1, <2>2, <2>3, <2>4, <2>5 DEF StepKeeps, Moves, BootSound
<1>3. CASE SshStart(n)
  <2> DEFINE r == [node[n] EXCEPT !.ssh = TRUE]
  <2>1. Set(n, r) /\ node[n].kmod = "done" /\ node[n].resolv /\ node[n].on
    BY <1>3 DEF SshStart, SysInit, Booting
  <2>2. r \in Node /\ r.ssh /\ r.resolv = node[n].resolv /\ r.disk = node[n].disk
    BY <1>1 DEF Node
  <2>3. /\ r.on = node[n].on /\ r.addr = node[n].addr /\ r.kmod = node[n].kmod
        /\ r.store = node[n].store /\ r.mounted = node[n].mounted
        /\ r.kmodErr = node[n].kmodErr /\ r.storeErr = node[n].storeErr
        /\ r.noMods = node[n].noMods /\ r.noStore = node[n].noStore
    BY <1>1 DEF Node
  <2> HIDE DEF r
  <2>4. InOrder(r) /\ ModsSound(kind[n], r) /\ StoreSound(kind[n], r)
    BY <1>1, <2>1, <2>2, <2>3 DEF BootSound, InOrder, ModsSound, StoreSound
  <2>5. node'[n] = r
    BY <2>1 DEF Set, BootInv
  <2> QED BY <2>1, <2>2, <2>3, <2>4, <2>5 DEF StepKeeps, Moves, BootSound
<1>4. CASE Pull(n)
  <2> DEFINE r == [node[n] EXCEPT !.disk.data = TRUE]
  <2>1. Set(n, r) /\ node[n].mounted /\ node[n].store = "done"
    BY <1>4 DEF Pull
  <2>2. /\ r \in Node /\ r.disk = [node[n].disk EXCEPT !.data = TRUE]
        /\ r.store = "done" /\ r.mounted
        /\ r.storeErr = node[n].storeErr /\ r.noStore = node[n].noStore
    BY <1>1, <2>1 DEF Node, Disk
  <2>3. r.disk.img = node[n].disk.img /\ r.disk.data
    BY <1>1, <2>2 DEF Disk
  <2>4. SameButStore(node[n], r)
    BY <1>1 DEF Node, Disk, SameButStore
  <2> HIDE DEF r
  <2>5. StoreSound(kind[n], r)
    BY <1>1, <2>1, <2>2, <2>3 DEF BootSound, StoreSound
  <2>6. node[n].kmod = "done" /\ node[n].resolv
    BY <1>1, <2>1 DEF BootSound, InOrder
  <2> QED BY <2>1, <2>2, <2>3, <2>4, <2>5, <2>6, StoreOnly
<1> QED BY <1>2, <1>3, <1>4

\* What a boot leaves half done, by a loss of power or a failure, is on record.
LEMMA PowerOffMoves ==
    ASSUME BootInv, NEW n \in Nodes, PowerOff(n)
    PROVE  /\ Moves(n, node'[n])
           /\ node'[n].addr = None /\ ~node'[n].on
           /\ node'[n].disk = node[n].disk
<1>1. node[n] \in Node /\ node[n].disk \in Disk /\ BootSound(kind[n], node[n])
  BY DEF BootInv, Node
<1> DEFINE q == Stopped(node[n])
           mods == /\ node[n].kmod \in {"index", "copy"} \/ node[n].kmodErr
                   /\ HasTree(node[n].disk)
           store == /\ node[n].store = "mkfs" \/ node[n].storeErr
                    /\ node[n].disk.img = "blank"
           r == [q EXCEPT !.noMods = @ \/ mods, !.noStore = @ \/ store]
<1>2. Set(n, r)
  BY DEF PowerOff
<1>3. q \in Node
  BY <1>1 DEF Stopped, Node, Kmod, Store
<1>4. /\ ~q.on /\ q.addr = None /\ q.kmod = "check" /\ ~q.resolv /\ q.store = "probe"
      /\ ~q.ssh /\ ~q.mounted /\ q.disk = node[n].disk
      /\ q.noMods = node[n].noMods /\ q.noStore = node[n].noStore
  BY <1>1 DEF Stopped, Node
<1> HIDE DEF q
<1>5. mods \in BOOLEAN /\ store \in BOOLEAN
  BY DEF HasTree
<1>6. kind[n] = "vm" /\ HasTree(node[n].disk) /\ ~AllMods(node[n].disk) =>
          mods \/ node[n].noMods
  BY <1>1 DEF BootSound, ModsSound
<1>7. kind[n] = "vm" /\ node[n].disk.img = "blank" => store \/ node[n].noStore
  BY <1>1 DEF BootSound, StoreSound
<1> HIDE DEF mods, store
<1>8. r \in Node
  BY <1>3, <1>5 DEF Node
<1>9. /\ r.on = q.on /\ r.addr = q.addr /\ r.kmod = q.kmod /\ r.resolv = q.resolv
      /\ r.store = q.store /\ r.ssh = q.ssh /\ r.mounted = q.mounted /\ r.disk = q.disk
  BY <1>3 DEF Node
<1>10. r.noMods = (q.noMods \/ mods) /\ r.noStore = (q.noStore \/ store)
  BY <1>3 DEF Node
<1> HIDE DEF r
<1>11. InOrder(r)
  BY <1>4, <1>9 DEF InOrder
<1>12. ModsSound(kind[n], r)
  BY <1>4, <1>6, <1>9, <1>10 DEF ModsSound
<1>13. StoreSound(kind[n], r)
  BY <1>1, <1>4, <1>7, <1>9, <1>10 DEF BootSound, StoreSound
<1>14. node'[n] = r
  BY <1>2 DEF Set, BootInv
<1> QED BY <1>2, <1>4, <1>8, <1>9, <1>11, <1>12, <1>13, <1>14 DEF Moves, BootSound

LEMMA PowerOnMoves ==
    ASSUME BootInv, NEW n \in Nodes, PowerOn(n)
    PROVE  /\ Moves(n, node'[n])
           /\ node'[n].addr \in Addresses /\ Free(node'[n].addr)
           /\ Pin[n] # None => node'[n].addr = Pin[n]
           /\ node'[n].on
           /\ node'[n].disk = node[n].disk
<1>1. node[n] \in Node /\ node[n].disk \in Disk /\ BootSound(kind[n], node[n])
  BY DEF BootInv, Node
<1>2. PICK a \in Addresses :
          /\ Free(a)
          /\ Pin[n] # None => a = Pin[n]
          /\ Set(n, [node[n] EXCEPT !.on = TRUE, !.addr = a])
  BY DEF PowerOn
<1> DEFINE r == [node[n] EXCEPT !.on = TRUE, !.addr = a]
<1>3. Set(n, r)
  BY <1>2
<1>4. r \in Node
  BY <1>1 DEF Node
<1>5. r.on /\ r.addr = a
  BY <1>1 DEF Node
<1>6. /\ r.resolv = node[n].resolv /\ r.store = node[n].store /\ r.ssh = node[n].ssh
      /\ r.mounted = node[n].mounted /\ r.disk = node[n].disk /\ r.kmod = node[n].kmod
      /\ r.noMods = node[n].noMods /\ r.noStore = node[n].noStore
      /\ r.kmodErr = node[n].kmodErr /\ r.storeErr = node[n].storeErr
  BY <1>1 DEF Node
<1> HIDE DEF r
<1>7. BootSound(kind[n], r)
  BY <1>1, <1>4, <1>5, <1>6 DEF BootSound, InOrder, ModsSound, StoreSound
<1>8. node'[n] = r
  BY <1>3 DEF Set, BootInv
<1> QED BY <1>2, <1>3, <1>4, <1>5, <1>6, <1>7, <1>8 DEF Moves

LEMMA RebuildMoves ==
    ASSUME BootInv, NEW n \in Nodes, Rebuild(n)
    PROVE  /\ Moves(n, node'[n])
           /\ node'[n].addr = node[n].addr /\ node'[n].on = node[n].on
           /\ node'[n].disk = FreshDisk(n)
<1>1. Set(n, NewNode(n)) /\ ~node[n].on
  BY DEF Rebuild
<1>2. NewNode(n) \in Node /\ BootSound(kind[n], NewNode(n))
  BY NewNodeSound DEF BootInv
<1>3. node'[n] = NewNode(n)
  BY <1>1 DEF Set, BootInv
<1>4. NewNode(n).addr = None /\ NewNode(n).disk = FreshDisk(n) /\ NewNode(n).on = FALSE
  BY DEF NewNode
<1>5. node[n].addr = None
  BY <1>1 DEF BootInv, Addressed
<1>6. node[n].on = FALSE
  BY <1>1 DEF BootInv, Node
<1> QED BY <1>1, <1>2, <1>3, <1>4, <1>5, <1>6 DEF Moves

\* A step of one node, whichever it is: the others are untouched, and what it pulled is
\* still there unless its container is new.
LEMMA NodeStepSound ==
    ASSUME BootInv, NEW n \in Nodes, NodeStep(n)
    PROVE  /\ BootInv'
           /\ kind' = kind
           /\ \A m \in Nodes \ {n} : node'[m] = node[m]
           /\ node[n].disk.data => node'[n].disk.data \/ node'[n].disk = FreshDisk(n)
           /\ ~PowerOff(n) => /\ node[n].on => node'[n].on /\ node'[n].addr = node[n].addr
                              /\ node[n].ssh => node'[n].ssh
<1>1. ASSUME Moves(n, node'[n])
      PROVE  kind' = kind /\ \A m \in Nodes \ {n} : node'[m] = node[m]
  BY <1>1 DEF Moves, Set, BootInv
<1>2. CASE BootStep(n) \/ Pull(n)
  BY <1>1, <1>2, KmodMoves, StoreMoves, OtherMoves, MoveInv DEF BootStep, StepKeeps
<1>3. CASE Rebuild(n)
  <2>1. ~node[n].on /\ ~node[n].ssh
    BY <1>3 DEF Rebuild, BootInv, BootSound, InOrder
  <2> QED BY <1>1, <1>3, <2>1, RebuildMoves, MoveInv
<1>4. ASSUME Moves(n, node'[n]), Addressed'
      PROVE  BootInv'
  <2>1. node' \in [Nodes -> Node] /\ kind' \in [Nodes -> Kinds]
    BY <1>4 DEF Moves, Set, BootInv
  <2>2. \A m \in Nodes : BootSound(kind'[m], node'[m])
    BY <1>1, <1>4 DEF Moves, BootInv
  <2> QED BY <1>4, <2>1, <2>2 DEF BootInv
<1>5. CASE PowerOff(n)
  <2>1. Moves(n, node'[n]) /\ node'[n].addr = None /\ ~node'[n].on
        /\ node'[n].disk = node[n].disk
    BY <1>5, PowerOffMoves
  <2>2. Addressed'
    BY <1>1, <2>1 DEF Addressed, BootInv
  <2> QED BY <1>1, <1>4, <1>5, <2>1, <2>2
<1>6. CASE PowerOn(n)
  <2>1. /\ Moves(n, node'[n]) /\ node'[n].addr \in Addresses /\ Free(node'[n].addr)
        /\ Pin[n] # None => node'[n].addr = Pin[n]
        /\ node'[n].on /\ node'[n].disk = node[n].disk
    BY <1>6, PowerOnMoves
  <2>4. ~node[n].on /\ ~node[n].ssh
    BY <1>6 DEF PowerOn, BootInv, BootSound, InOrder
  <2>2. node'[n].addr # None
    BY <2>1, BootAssumption
  <2>3. Addressed'
    BY <1>1, <2>1, <2>2 DEF Addressed, BootInv, Free
  <2> QED BY <1>1, <1>4, <2>1, <2>3, <2>4
<1> QED BY <1>2, <1>3, <1>5, <1>6 DEF NodeStep

-----------------------------------------------------------------------------
(* The command. *)

\* Cli, before the bound on the time is known.
AnyCli ==
    [cmd : {"none", "wait", "exec"}, pc : Running \cup {"idle", "ok", "failed", "timeout"},
     at : 1..Len(Order), ip : Addresses \cup {None}, here : BOOLEAN, elapsed : Nat,
     was : BOOLEAN, calm : BOOLEAN, cut : BOOLEAN, other : BOOLEAN]

Typed ==
    /\ cli \in AnyCli
    /\ task \in Task
    /\ task.st = "none" <=> task.on = None

\* c and e are the same command at the same attempt.
Same(c, e) ==
    /\ e.cmd = c.cmd /\ e.calm = c.calm /\ e.cut = c.cut
    /\ e.was = c.was /\ e.other = c.other /\ e.here = c.here

\* What the next node's turn and another attempt amount to.
LEMMA ReadyFacts ==
    ASSUME NEW c \in AnyCli
    PROVE  /\ Ready(c) \in AnyCli /\ Same(c, Ready(c)) /\ Ready(c).elapsed = c.elapsed
           /\ c.at = Len(Order) => Ready(c).pc = "ok" /\ Ready(c).at = c.at
           /\ c.at # Len(Order) => Ready(c).pc = "find" /\ Ready(c).at = c.at + 1
<1>0. Len(Order) \in Nat
  BY LenProperties, AccessAssumption
<1>1. CASE c.at = Len(Order)
  <2>1. Ready(c) = [c EXCEPT !.pc = "ok"]
    BY <1>1 DEF Ready
  <2>2. [c EXCEPT !.pc = "ok"] \in AnyCli
    BY DEF AnyCli
  <2> QED BY <1>1, <2>1, <2>2 DEF AnyCli, Same
<1>2. CASE c.at # Len(Order)
  <2>1. Ready(c) = [c EXCEPT !.pc = "find", !.at = c.at + 1]
    BY <1>2 DEF Ready
  <2>2. c.at + 1 \in 1..Len(Order)
    BY <1>0, <1>2 DEF AnyCli
  <2>3. [c EXCEPT !.pc = "find", !.at = c.at + 1] \in AnyCli
    BY <2>2 DEF AnyCli, Running
  <2> QED BY <1>2, <2>1, <2>3 DEF AnyCli, Same
<1> QED BY <1>1, <1>2

LEMMA NotReadyFacts ==
    ASSUME NEW c \in AnyCli
    PROVE  /\ NotReady(c) \in AnyCli /\ Same(c, NotReady(c)) /\ NotReady(c).at = c.at
           /\ c.elapsed > Timeout =>
                 NotReady(c).pc = "timeout" /\ NotReady(c).elapsed = c.elapsed
           /\ ~(c.elapsed > Timeout) =>
                 NotReady(c).pc = "find" /\ NotReady(c).elapsed = c.elapsed + 1
<1>1. CASE c.elapsed > Timeout
  <2>1. NotReady(c) = [c EXCEPT !.pc = "timeout"]
    BY <1>1 DEF NotReady
  <2> QED BY <1>1, <2>1 DEF AnyCli, Same
<1>2. CASE ~(c.elapsed > Timeout)
  <2>1. NotReady(c) = [c EXCEPT !.pc = "find", !.elapsed = c.elapsed + 1]
    BY <1>2 DEF NotReady
  <2>3. c.elapsed + 1 \in Nat /\ "find" \in Running
    BY DEF AnyCli, Running
  <2>2. [c EXCEPT !.pc = "find", !.elapsed = c.elapsed + 1] \in AnyCli
    BY <2>3 DEF AnyCli
  <2> QED BY <1>2, <2>1, <2>2 DEF AnyCli, Same
<1> QED BY <1>1, <1>2

\* The time a command has taken.
Paced ==
    /\ cli.cmd # "wait" => cli.elapsed = 0
    /\ cli.pc \in Running => cli.elapsed <= Timeout + 1 + (cli.at - 1) * MaxProbe
    /\ cli.elapsed <= WorstCase
    /\ cli.pc = "timeout" => cli.elapsed > Timeout

\* One probe is over after d seconds: e is the command after it.
LEMMA PacedAfter ==
    ASSUME Typed, Paced, cli.pc \in Running, NEW d \in 0..MaxProbe, NEW c \in AnyCli,
           c.at = cli.at, c.elapsed = cli.elapsed + d, c.cmd = "wait",
           cli' \in {Ready(c), NotReady(c)}
    PROVE  Paced'
<1> DEFINE a == cli.at
<1>1. /\ a \in 1..Len(Order) /\ Len(Order) \in Nat /\ MaxProbe \in Nat /\ Timeout \in Nat
      /\ cli.elapsed \in Nat /\ d \in Nat /\ d <= MaxProbe
  BY AccessAssumption, LenProperties DEF Typed, AnyCli
<1>2. (a - 1) * MaxProbe + MaxProbe = a * MaxProbe
  BY <1>1
<1>3. a * MaxProbe <= Len(Order) * MaxProbe
  <2> DEFINE L == Len(Order)
  <2>1. a \in Nat /\ L \in Nat /\ a <= L
    BY <1>1
  <2>2. (L - a) * MaxProbe >= 0
    BY <1>1, <2>1
  <2>3. (L - a) * MaxProbe = L * MaxProbe - a * MaxProbe
    BY <1>1, <2>1
  <2>4. a * MaxProbe \in Nat /\ L * MaxProbe \in Nat
    BY <1>1, <2>1
  <2> QED BY <2>2, <2>3, <2>4
<1>4. a * MaxProbe \in Nat /\ Len(Order) * MaxProbe \in Nat /\ (a - 1) * MaxProbe \in Nat
  BY <1>1
<1>5. cli.elapsed + d <= Timeout + 1 + a * MaxProbe
  <2>1. cli.elapsed <= Timeout + 1 + (a - 1) * MaxProbe
    BY DEF Paced
  <2> DEFINE p == (a - 1) * MaxProbe
             q == a * MaxProbe
  <2>2. p \in Nat /\ q \in Nat /\ p + MaxProbe = q /\ cli.elapsed <= Timeout + 1 + p
    BY <1>2, <1>4, <2>1
  <2> HIDE DEF p, q
  <2>3. cli.elapsed + d <= Timeout + 1 + q
    BY <1>1, <2>2
  <2> QED BY <2>3 DEF q
<1>6. CASE cli' = Ready(c)
  <2>1. cli'.elapsed = cli.elapsed + d /\ cli'.cmd = "wait" /\ cli'.pc \in {"ok", "find"}
        /\ (cli'.pc = "find" => cli'.at = a + 1)
    BY <1>6, ReadyFacts DEF Same
  <2>2. (a + 1) - 1 = a
    BY <1>1
  <2>3. cli'.pc \in Running => cli'.elapsed <= Timeout + 1 + (cli'.at - 1) * MaxProbe
    BY <1>5, <2>1, <2>2 DEF Running
  <2>4. cli'.elapsed <= WorstCase
    BY <1>1, <1>3, <1>4, <1>5, <2>1 DEF WorstCase
  <2> QED BY <2>1, <2>3, <2>4 DEF Paced
<1>7. CASE cli' = NotReady(c)
  <2>1. cli'.at = a /\ cli'.cmd = "wait"
    BY <1>7, NotReadyFacts DEF Same
  <2>2. CASE cli.elapsed + d > Timeout
    <3>1. cli'.pc = "timeout" /\ cli'.elapsed = cli.elapsed + d
      BY <1>7, <2>2, NotReadyFacts
    <3>2. cli'.elapsed <= WorstCase
      BY <1>1, <1>3, <1>4, <1>5, <3>1 DEF WorstCase
    <3> QED BY <2>1, <2>2, <3>1, <3>2 DEF Paced, Running
  <2>3. CASE ~(cli.elapsed + d > Timeout)
    <3>1. cli'.pc = "find" /\ cli'.elapsed = cli.elapsed + d + 1
      BY <1>7, <2>3, NotReadyFacts
    <3>2. cli'.elapsed <= Timeout + 1
      BY <1>1, <2>3, <3>1
    <3>3. cli'.elapsed \in Nat
      BY <1>1, <3>1
    <3>4. cli'.elapsed <= Timeout + 1 + (a - 1) * MaxProbe
      BY <1>1, <1>4, <3>2, <3>3
    <3>5. cli'.elapsed <= WorstCase
      BY <1>1, <1>4, <3>2, <3>3 DEF WorstCase
    <3> QED BY <2>1, <3>1, <3>4, <3>5 DEF Paced
  <2> QED BY <2>2, <2>3
<1> QED BY <1>6, <1>7

\* The nodes before the one it asks, as long as nothing stopped and no stream was cut.
Earlier ==
    cli.cmd = "wait" /\ cli.calm /\ ~cli.cut =>
        \A i \in 1..Len(Order) : i < cli.at \/ cli.pc = "ok" => Booted(Order[i])

\* A probe has noticed if its node is booted.
Noticed ==
    cli.cmd = "wait" /\ cli.pc \in Running \ {"find"} /\ Booted(Target) => cli.was

\* What each call of a probe or an exec can rely on.
Asked ==
    /\ cli.pc = "idle" => cli.cmd = "none"
    /\ cli.pc \in {"ip", "dial", "ssh"} => kind[Target] = "vm"
    /\ cli.pc \in {"create", "attach", "stream", "inspect"} => kind[Target] # "vm"
    /\ cli.pc = "dial" => cli.ip # None
    /\ cli.pc \in {"stream", "inspect", "ssh"} => task.st # "none"
    /\ cli.pc \in {"stream", "inspect"} => task.on = Target
    /\ cli.pc = "inspect" => task.st = "ended" \/ cli.cut
    /\ cli.pc = "ssh" => cli.cmd = "exec" /\ (task.on # Target => cli.other)

AskedOnce ==
    cli.cmd = "wait" =>
        /\ cli.pc \in {"create", "attach", "stream", "inspect"} => kind[Target] = "runc"
        /\ cli.pc = "ip" /\ cli.calm => node[Target].on
        /\ cli.pc = "dial" /\ cli.calm => node[Target].addr = cli.ip
        /\ cli.pc \in {"stream", "inspect"} /\ task.st = "ended" /\ task.code = 0 =>
              cli.was /\ (cli.calm => node[Target].ssh)

AccessInv ==
    BootInv /\ Typed /\ Paced /\ Earlier /\ Noticed /\ Asked /\ AskedOnce /\ ExecTrue

\* What ReadyMeansBooted says of a step.
Heard ==
    \A i \in 1..Len(Order) :
        /\ cli.cmd = "wait" /\ cli.at = i /\ cli.pc \in Running
        /\ cli'.pc = "ok" \/ cli'.at > i
        => \/ cli'.was
           \/ kind[Order[i]] = "runc" /\ cli'.cut
           \/ kind[Order[i]] = "vm" /\ cli'.other

LEMMA TargetNode ==
    ASSUME Typed
    PROVE  cli.at \in 1..Len(Order) /\ Target \in Nodes
<1>1. cli.at \in 1..Len(Order)
  BY DEF Typed, AnyCli
<1> QED BY <1>1, AccessAssumption DEF Target

\* A node whose sshd runs has booted.
LEMMA SshBooted ==
    ASSUME BootInv, NEW n \in Nodes, node[n].ssh
    PROVE  Booted(n)
BY DEF BootInv, BootSound, InOrder, Booted, BootedAs

\* One probe of "up --wait" is answered.
Probed ==
    /\ cli.cmd = "wait" /\ cli.pc \in Running
    /\ task' = NoTask
    /\ UNCHANGED bootVars
    /\ \E c \in AnyCli : \E d \in 0..MaxProbe :
          /\ c.cmd = "wait" /\ c.at = cli.at /\ c.elapsed = cli.elapsed + d
          /\ c.calm = cli.calm /\ c.cut = cli.cut
          /\ \/ cli' = NotReady(c)
             \/ /\ cli' = Ready(c)
                /\ cli.calm /\ ~cli.cut => Booted(Target)
                /\ c.was \/ (kind[Target] = "runc" /\ c.cut) \/ (kind[Target] = "vm" /\ c.other)

LEMMA NoTaskTyped == NoTask \in Task /\ NoTask.st = "none" /\ NoTask.on = None
BY DEF NoTask, Task

LEMMA ProbedInv ==
    ASSUME AccessInv, Probed
    PROVE  AccessInv' /\ Heard
<1>1. PICK c \in AnyCli, d \in 0..MaxProbe :
          /\ c.cmd = "wait" /\ c.at = cli.at /\ c.elapsed = cli.elapsed + d
          /\ c.calm = cli.calm /\ c.cut = cli.cut
          /\ \/ cli' = NotReady(c)
             \/ /\ cli' = Ready(c)
                /\ cli.calm /\ ~cli.cut => Booted(Target)
                /\ c.was \/ (kind[Target] = "runc" /\ c.cut) \/ (kind[Target] = "vm" /\ c.other)
  BY DEF Probed
<1>2. kind' = kind /\ node' = node /\ cli.cmd = "wait" /\ cli.pc \in Running /\ task' = NoTask
  BY DEF Probed, bootVars
<1>3. Typed /\ Paced /\ BootInv /\ Earlier
  BY DEF AccessInv
<1>4. BootInv'
  BY <1>2, <1>3 DEF BootInv, Addressed
<1>5. Paced'
  BY <1>1, <1>2, <1>3, PacedAfter
<1>6. cli' \in AnyCli /\ cli'.cmd = "wait" /\ cli'.pc \in {"find", "ok", "timeout"}
      /\ cli'.calm = cli.calm /\ cli'.cut = cli.cut
  BY <1>1, ReadyFacts, NotReadyFacts DEF Same
<1>7. Typed'
  BY <1>2, <1>6, NoTaskTyped DEF Typed
<1>8. Noticed' /\ Asked' /\ AskedOnce' /\ ExecTrue'
  <2>1. cli'.cmd # "exec"
    BY <1>6
  <2>2. cli'.pc \notin {"ip", "dial", "create", "attach", "stream", "inspect", "ssh", "idle"}
    BY <1>6
  <2>3. Noticed'
    BY <1>6 DEF Noticed, Running
  <2>4. Asked'
    BY <2>2 DEF Asked
  <2>5. AskedOnce'
    BY <2>2 DEF AskedOnce
  <2>6. ExecTrue'
    BY <2>1 DEF ExecTrue
  <2> QED BY <2>3, <2>4, <2>5, <2>6
<1>9. \A n \in Nodes : Booted(n)' <=> Booted(n)
  BY <1>2 DEF Booted
<1>10. cli.at \in 1..Len(Order) /\ Len(Order) \in Nat
  BY <1>3, TargetNode, AccessAssumption, LenProperties
<1>11. \A i \in 1..Len(Order) : Order[i] \in Nodes
  BY AccessAssumption
<1>12. CASE cli' = NotReady(c)
  <2>1. cli'.at = cli.at /\ cli'.pc # "ok"
    BY <1>1, <1>12, NotReadyFacts
  <2>2. Earlier'
    BY <1>2, <1>3, <1>6, <1>9, <1>11, <2>1 DEF Earlier
  <2>3. Heard
    BY <1>10, <2>1 DEF Heard
  <2> QED BY <1>4, <1>5, <1>7, <1>8, <2>2, <2>3 DEF AccessInv
<1>13. CASE cli' # NotReady(c)
  <2>1. cli' = Ready(c) /\ (cli.calm /\ ~cli.cut => Booted(Target))
    BY <1>1, <1>13
  <2>2. cli'.was = c.was /\ cli'.other = c.other /\ cli'.cut = c.cut
    BY <2>1, ReadyFacts DEF Same
  <2>3. \/ cli.at = Len(Order) /\ cli'.at = cli.at
        \/ cli.at # Len(Order) /\ cli'.pc = "find" /\ cli'.at = cli.at + 1
    BY <1>1, <2>1, ReadyFacts
  <2>4. \A i \in 1..Len(Order) : i < cli'.at \/ cli'.pc = "ok" => i < cli.at \/ i = cli.at
    BY <1>10, <2>3
  <2>5. Earlier'
    BY <1>2, <1>3, <1>6, <1>9, <1>11, <2>1, <2>4 DEF Earlier, Target
  <2>6. Heard
    <3>1. c.was \/ (kind[Target] = "runc" /\ c.cut) \/ (kind[Target] = "vm" /\ c.other)
      BY <1>1, <1>13
    <3> QED BY <2>2, <3>1 DEF Heard, Target
  <2> QED BY <1>4, <1>5, <1>7, <1>8, <2>5, <2>6 DEF AccessInv
<1> QED BY <1>12, <1>13

\* The answer of Reachable.
LEMMA AnswerProbes ==
    ASSUME Typed, cli.cmd = "wait", cli.pc \in Running, Nodewise,
           NEW yes \in BOOLEAN, Answer(yes),
           yes => /\ cli.calm /\ ~cli.cut => Booted(Target)
                  /\ cli.was \/ (kind[Target] = "runc" /\ cli.cut)
    PROVE  Probed
<1>1. PICK d \in 0..MaxProbe :
          /\ cli' = LET c == [cli EXCEPT !.elapsed = @ + d, !.ip = None]
                    IN  IF yes THEN Ready(c) ELSE NotReady(c)
          /\ task' = NoTask
  BY DEF Answer
<1> DEFINE c == [cli EXCEPT !.elapsed = @ + d, !.ip = None]
<1>2. cli \in AnyCli /\ d \in Nat
  BY AccessAssumption DEF Typed
<1>3. cli.elapsed + d \in Nat
  BY <1>2 DEF AnyCli
<1>4. c \in AnyCli
  BY <1>2, <1>3 DEF AnyCli
<1>5. /\ c.cmd = "wait" /\ c.at = cli.at /\ c.elapsed = cli.elapsed + d
      /\ c.calm = cli.calm /\ c.cut = cli.cut /\ c.was = cli.was
  BY <1>2 DEF AnyCli
<1>6. cli' = IF yes THEN Ready(c) ELSE NotReady(c)
  BY <1>1
<1> HIDE DEF c
<1>7. CASE yes
  BY <1>1, <1>4, <1>5, <1>6, <1>7 DEF Probed, Nodewise
<1>8. CASE ~yes
  BY <1>1, <1>4, <1>5, <1>6, <1>8 DEF Probed, Nodewise
<1> QED BY <1>7, <1>8

\* The command goes on to another of its calls.
LEMMA GotoFacts ==
    ASSUME Typed, NEW pc \in Running \cup {"idle", "ok", "failed", "timeout"},
           cli' = [cli EXCEPT !.pc = pc]
    PROVE  /\ cli' \in AnyCli /\ Same(cli, cli') /\ cli'.pc = pc
           /\ cli'.at = cli.at /\ cli'.elapsed = cli.elapsed /\ cli'.ip = cli.ip
BY DEF Typed, AnyCli, Same

\* It goes on, and the parts of the invariant that only look at how far it has come hold.
LEMMA GoesOn ==
    ASSUME AccessInv, cli.pc \in Running \cup {"idle"},
           cli' \in AnyCli, cli'.cmd = cli.cmd, cli'.at = cli.at, cli'.elapsed = cli.elapsed,
           cli'.calm = cli.calm, cli.cut => cli'.cut,
           cli.cmd = "wait" => cli'.pc \in Running,
           cli'.pc \in Running => cli.pc \in Running,
           cli'.pc # "timeout", Nodewise
    PROVE  BootInv' /\ Paced' /\ Earlier' /\ Heard
<1>1. kind' = kind /\ node' = node
  BY DEF Nodewise, bootVars
<1>2. BootInv'
  BY <1>1 DEF AccessInv, BootInv, Addressed
<1>3. Paced'
  BY DEF AccessInv, Paced
<1>4. \A n \in Nodes : Booted(n)' <=> Booted(n)
  BY <1>1 DEF Booted
<1>5. \A i \in 1..Len(Order) : Order[i] \in Nodes
  BY AccessAssumption
<1>6. Earlier'
  <2>1. Earlier /\ cli \in AnyCli
    BY DEF AccessInv, Typed
  <2>2. cli'.pc = "ok" => cli.cmd # "wait"
    BY DEF Running
  <2> QED BY <1>4, <1>5, <2>1, <2>2 DEF Earlier, AnyCli
<1>7. Heard
  <2>1. cli.at \in Nat
    BY AccessAssumption DEF AccessInv, Typed, AnyCli
  <2>2. cli'.pc = "ok" => cli.cmd # "wait"
    BY DEF Running
  <2> QED BY <2>1, <2>2 DEF Heard
<1> QED BY <1>2, <1>3, <1>6, <1>7

\* A call that fails.
LEMMA RefusedInv ==
    ASSUME AccessInv, cli.pc \in Running, Refused, Nodewise
    PROVE  AccessInv' /\ Heard
<1>0. Typed
  BY DEF AccessInv
<1>1. CASE cli.cmd = "wait"
  <2>1. Answer(FALSE)
    BY <1>1 DEF Refused
  <2>2. Probed
    BY <1>0, <1>1, <2>1, AnswerProbes
  <2> QED BY <2>2, ProbedInv
<1>2. CASE cli.cmd # "wait"
  <2>1. cli' = [cli EXCEPT !.pc = "failed"] /\ task' = task
    BY <1>2 DEF Refused, Goto
  <2>2. cli' \in AnyCli /\ Same(cli, cli') /\ cli'.pc = "failed"
        /\ cli'.at = cli.at /\ cli'.elapsed = cli.elapsed
    BY <1>0, <2>1, GotoFacts
  <2>3. BootInv' /\ Paced' /\ Earlier' /\ Heard
    BY <1>2, <2>2, GoesOn DEF Same, Running
  <2>4. Typed'
    BY <1>0, <2>1, <2>2 DEF Typed
  <2>5. Noticed' /\ AskedOnce'
    BY <1>2, <2>2 DEF Noticed, AskedOnce, Same
  <2>6. Asked'
    BY <2>2 DEF Asked
  <2>7. ExecTrue'
    BY <2>2 DEF ExecTrue
  <2> QED BY <2>3, <2>4, <2>5, <2>6, <2>7 DEF AccessInv
<1> QED BY <1>1, <1>2

\* A command starts.
LEMMA StartInv ==
    ASSUME AccessInv, NEW cmd \in {"wait", "exec"}, Start(cmd)
    PROVE  AccessInv' /\ Heard
<1>1. PICK i \in 1..Len(Order) :
          /\ cmd = "wait" => i = 1
          /\ cli' = [cli EXCEPT !.cmd = cmd, !.pc = "find", !.at = i]
  BY DEF Start
<1>2. cli.pc = "idle" /\ task' = task /\ kind' = kind /\ node' = node /\ cli \in AnyCli
  BY DEF Start, Nodewise, bootVars, AccessInv, Typed
<1>3. cli' \in AnyCli
  BY <1>1, <1>2 DEF AnyCli, Running
<1>4. /\ cli'.cmd = cmd /\ cli'.pc = "find" /\ cli'.at = i /\ cli'.elapsed = cli.elapsed
  BY <1>1, <1>2 DEF AnyCli
<1>5. BootInv'
  BY <1>2 DEF AccessInv, BootInv, Addressed
<1>6. Typed'
  BY <1>2, <1>3 DEF AccessInv, Typed
<1>7. Paced'
  <2>1. cli.elapsed = 0
    BY <1>2 DEF AccessInv, Paced, Asked
  <2>2. Timeout \in Nat /\ MaxProbe \in Nat /\ i - 1 \in Nat /\ Len(Order) \in Nat
    BY AccessAssumption, LenProperties
  <2>3. (i - 1) * MaxProbe \in Nat /\ Len(Order) * MaxProbe \in Nat
    BY <2>2
  <2>4. 0 <= Timeout + 1 + (i - 1) * MaxProbe
    BY <2>2, <2>3
  <2>5. 0 <= WorstCase
    BY <2>2, <2>3 DEF WorstCase
  <2> QED BY <1>4, <2>1, <2>4, <2>5 DEF Paced
<1>8. Earlier'
  BY <1>1, <1>4 DEF Earlier
<1>9. Noticed' /\ Asked' /\ AskedOnce'
  BY <1>4 DEF Noticed, Asked, AskedOnce
<1>10. ExecTrue'
  BY <1>4 DEF ExecTrue
<1>11. Heard
  BY <1>2 DEF Heard, Running
<1> QED BY <1>5, <1>6, <1>7, <1>8, <1>9, <1>10, <1>11 DEF AccessInv

LEMMA ProbeInv ==
    ASSUME AccessInv, Probe
    PROVE  AccessInv' /\ Heard
<1> DEFINE c == [cli EXCEPT !.was = Booted(Target), !.here = TRUE]
<1>1. Typed /\ BootInv /\ Target \in Nodes /\ cli \in AnyCli
  BY TargetNode DEF AccessInv, Typed
<1>2. Booted(Target) \in BOOLEAN
  BY <1>1 DEF Booted, BootedAs, BootInv, Node
<1>3. c \in AnyCli
  BY <1>1, <1>2 DEF AnyCli
<1>4. /\ c.cmd = cli.cmd /\ c.at = cli.at /\ c.elapsed = cli.elapsed /\ c.calm = cli.calm
      /\ c.cut = cli.cut /\ c.pc = cli.pc
  BY <1>1 DEF AnyCli
<1>5. c.was <=> Booted(Target)
  BY <1>1, <1>2 DEF AnyCli
<1>6. cli.pc = "find" /\ cli.cmd = "wait" /\ Nodewise /\ cli.pc \in Running
  BY DEF Probe, Running
<1>7. CASE kind[Target] = "runner" \/ (kind[Target] = "vm" /\ ~node[Target].on)
  <2>1. PICK d \in 0..MaxProbe :
          /\ cli' = IF node[Target].on
                    THEN Ready([c EXCEPT !.elapsed = @ + d])
                    ELSE NotReady([c EXCEPT !.elapsed = @ + d])
          /\ task' = NoTask
    BY <1>7 DEF Probe
  <2> DEFINE e == [c EXCEPT !.elapsed = @ + d]
  <2> HIDE DEF c
  <2>9. c.elapsed \in Nat /\ d \in Nat
    BY <1>3, AccessAssumption DEF AnyCli
  <2>2. c.elapsed + d \in Nat
    BY <2>9
  <2>3. e \in AnyCli
    BY <1>3, <2>2 DEF AnyCli
  <2>4. /\ e.cmd = c.cmd /\ e.at = c.at /\ e.elapsed = c.elapsed + d /\ e.calm = c.calm
        /\ e.cut = c.cut /\ e.was = c.was
    BY <1>3 DEF AnyCli
  <2>5. cli' = IF node[Target].on THEN Ready(e) ELSE NotReady(e)
    BY <2>1
  <2>6. node[Target].on => Booted(Target)
    BY <1>7 DEF Booted, BootedAs
  <2> HIDE DEF e
  <2>7. CASE node[Target].on
    BY <1>4, <1>5, <1>6, <2>1, <2>3, <2>4, <2>5, <2>6, <2>7, ProbedInv DEF Probed, Nodewise
  <2>8. CASE ~node[Target].on
    BY <1>4, <1>6, <2>1, <2>3, <2>4, <2>5, <2>8, ProbedInv DEF Probed, Nodewise
  <2> QED BY <2>7, <2>8
<1>8. CASE ~(kind[Target] = "runner" \/ (kind[Target] = "vm" /\ ~node[Target].on))
  <2> DEFINE pc == IF kind[Target] = "vm" THEN "ip" ELSE "create"
  <2>1. cli' = [c EXCEPT !.pc = pc] /\ task' = task
    BY <1>8 DEF Probe
  <2>2. pc \in {"ip", "create"}
    OBVIOUS
  <2> HIDE DEF c
  <2>3. cli' \in AnyCli
    BY <1>3, <2>1, <2>2 DEF AnyCli, Running
  <2>4. /\ cli'.cmd = c.cmd /\ cli'.at = c.at /\ cli'.elapsed = c.elapsed
        /\ cli'.calm = c.calm /\ cli'.cut = c.cut /\ cli'.pc = pc
    BY <1>3, <2>1 DEF AnyCli
  <2>5. cli'.was = c.was
    BY <1>3, <2>1 DEF AnyCli
  <2>6. BootInv' /\ Paced' /\ Earlier' /\ Heard
    BY <1>4, <1>6, <2>2, <2>3, <2>4, GoesOn DEF Running
  <2>7. kind' = kind /\ node' = node /\ Target' = Target
    BY <1>4, <1>6, <2>4 DEF Nodewise, bootVars, Target
  <2>8. Typed'
    BY <1>1, <2>1, <2>3 DEF Typed
  <2>9. Noticed'
    BY <1>5, <2>5, <2>7 DEF Noticed, Booted
  <2>10. Asked'
    BY <2>2, <2>4, <2>7 DEF Asked
  <2>11. AskedOnce'
    <3>1. kind[Target] \in Kinds
      BY <1>1 DEF BootInv
    <3>2. pc = "ip" => node[Target].on
      BY <1>8
    <3>3. pc = "create" => kind[Target] = "runc"
      BY <1>8, <3>1 DEF Kinds
    <3> QED BY <2>2, <2>4, <2>7, <3>2, <3>3 DEF AskedOnce
  <2>12. ExecTrue'
    BY <1>4, <1>6, <2>4 DEF ExecTrue
  <2> QED BY <2>6, <2>8, <2>9, <2>10, <2>11, <2>12 DEF AccessInv
<1> QED BY <1>7, <1>8

LEMMA FindForExecInv ==
    ASSUME AccessInv, FindForExec
    PROVE  AccessInv' /\ Heard
<1> DEFINE pc == IF kind[Target] = "vm" THEN "ip" ELSE "create"
<1>1. /\ cli.pc = "find" /\ cli.cmd = "exec" /\ task' = task /\ kind' = kind /\ node' = node
      /\ cli' = [cli EXCEPT !.pc = pc, !.here = TRUE] /\ Nodewise
  BY DEF FindForExec, Nodewise, bootVars
<1>2. Typed /\ cli \in AnyCli /\ pc \in {"ip", "create"}
  BY DEF AccessInv, Typed
<1>3. cli' \in AnyCli
  BY <1>1, <1>2 DEF AnyCli, Running
<1>4. /\ cli'.cmd = cli.cmd /\ cli'.at = cli.at /\ cli'.elapsed = cli.elapsed /\ cli'.pc = pc
      /\ cli'.calm = cli.calm /\ cli'.cut = cli.cut
  BY <1>1, <1>2 DEF AnyCli
<1>5. BootInv' /\ Paced' /\ Earlier' /\ Heard
  BY <1>1, <1>2, <1>3, <1>4, GoesOn DEF Running
<1>6. Typed'
  BY <1>1, <1>2, <1>3 DEF Typed
<1>7. Noticed' /\ AskedOnce'
  BY <1>1, <1>4 DEF Noticed, AskedOnce
<1>8. Asked'
  BY <1>1, <1>2, <1>4 DEF Asked, Target
<1>9. ExecTrue'
  BY <1>2, <1>4 DEF ExecTrue
<1> QED BY <1>5, <1>6, <1>7, <1>8, <1>9 DEF AccessInv

\* The address it finds is the node's own, if it runs.
LEMMA LookUpIPInv ==
    ASSUME AccessInv, LookUpIP
    PROVE  AccessInv' /\ Heard
<1> DEFINE ip == IF Pin[Target] # None THEN Pin[Target] ELSE node[Target].addr
<1>1. /\ cli.pc = "ip" /\ cli.pc \in Running /\ Nodewise /\ kind' = kind /\ node' = node
      /\ IF ip = None THEN Refused
         ELSE cli' = [cli EXCEPT !.pc = "dial", !.ip = ip] /\ UNCHANGED task
  BY DEF LookUpIP, Nodewise, bootVars, Running
<1>2. Typed /\ cli \in AnyCli /\ Target \in Nodes /\ BootInv
  BY TargetNode DEF AccessInv, Typed
<1>3. CASE ip = None
  BY <1>1, <1>3, RefusedInv
<1>4. CASE ip # None
  <2>1. ip \in Addresses \cup {None}
    BY <1>2, BootAssumption DEF BootInv, Node
  <2>2. node[Target].on => node[Target].addr = ip
    BY <1>2 DEF BootInv, Addressed
  <2> HIDE DEF ip
  <2>3. cli' = [cli EXCEPT !.pc = "dial", !.ip = ip] /\ task' = task
    BY <1>1, <1>4
  <2>4. cli' \in AnyCli
    BY <1>2, <2>1, <2>3 DEF AnyCli, Running
  <2>5. /\ cli'.cmd = cli.cmd /\ cli'.at = cli.at /\ cli'.elapsed = cli.elapsed
        /\ cli'.pc = "dial" /\ cli'.ip = ip
        /\ cli'.calm = cli.calm /\ cli'.cut = cli.cut /\ cli'.was = cli.was
    BY <1>2, <2>3 DEF AnyCli
  <2>6. BootInv' /\ Paced' /\ Earlier' /\ Heard
    BY <1>1, <2>4, <2>5, GoesOn DEF Running
  <2>7. Typed'
    BY <1>2, <2>3, <2>4 DEF Typed
  <2>8. Target' = Target
    BY <2>5 DEF Target
  <2>9. Noticed'
    BY <1>1, <2>5, <2>8 DEF AccessInv, Noticed, Booted, Running
  <2>10. Asked'
    BY <1>1, <1>4, <2>5, <2>8 DEF AccessInv, Asked
  <2>11. AskedOnce'
    BY <1>1, <2>2, <2>5, <2>8 DEF AccessInv, AskedOnce
  <2>12. ExecTrue'
    BY <2>5 DEF ExecTrue
  <2> QED BY <2>6, <2>7, <2>9, <2>10, <2>11, <2>12 DEF AccessInv
<1> QED BY <1>3, <1>4

\* As long as nothing stops, only the node itself has its address.
LEMMA DialInv ==
    ASSUME AccessInv, Dial
    PROVE  AccessInv' /\ Heard
<1>1. /\ cli.pc = "dial" /\ cli.cmd = "wait" /\ cli.pc \in Running /\ Nodewise /\ task' = NoTask
  BY DEF Dial, Running
<1>2. Typed /\ cli \in AnyCli /\ Target \in Nodes /\ BootInv /\ cli.ip # None
  BY <1>1, TargetNode DEF AccessInv, Typed, Asked
<1>3. PICK d \in 0..MaxProbe :
          cli' = LET c == [cli EXCEPT !.elapsed = @ + d, !.ip = None,
                                     !.other = @ \/ Listening \notin {{}, {Target}}]
                 IN  IF Listening # {} THEN Ready(c) ELSE NotReady(c)
  BY DEF Dial
<1> DEFINE c == [cli EXCEPT !.elapsed = @ + d, !.ip = None,
                           !.other = @ \/ Listening \notin {{}, {Target}}]
<1>4. cli.elapsed \in Nat /\ d \in Nat
  BY <1>2, AccessAssumption DEF AnyCli
<1>5. cli.elapsed + d \in Nat
  BY <1>4
<1>6. c \in AnyCli
  BY <1>2, <1>5 DEF AnyCli
<1>7. /\ c.cmd = cli.cmd /\ c.at = cli.at /\ c.elapsed = cli.elapsed + d
      /\ c.calm = cli.calm /\ c.cut = cli.cut /\ c.was = cli.was
  BY <1>2 DEF AnyCli
<1>8. c.other <=> (cli.other \/ Listening \notin {{}, {Target}})
  BY <1>2 DEF AnyCli
<1>9. cli' = IF Listening # {} THEN Ready(c) ELSE NotReady(c)
  BY <1>3
<1> HIDE DEF c
<1>10. CASE Listening = {}
  BY <1>1, <1>6, <1>7, <1>9, <1>10, ProbedInv DEF Probed, Nodewise
<1>11. CASE Listening # {}
  <2>1. cli' = Ready(c)
    BY <1>9, <1>11
  <2>2. cli.calm => Booted(Target)
    <3> SUFFICES ASSUME cli.calm PROVE Booted(Target)
      OBVIOUS
    <3>1. node[Target].addr = cli.ip
      BY <1>1 DEF AccessInv, AskedOnce
    <3>2. PICK m \in Nodes : node[m].addr = cli.ip /\ node[m].ssh
      BY <1>11 DEF Listening
    <3>3. m = Target
      BY <1>2, <3>1, <3>2 DEF BootInv, Addressed
    <3> QED BY <1>2, <3>2, <3>3, SshBooted
  <2>3. c.was \/ (kind[Target] = "vm" /\ c.other)
    <3>1. CASE Target \in Listening
      <4>1. Booted(Target)
        BY <1>2, <3>1, SshBooted DEF Listening
      <4>2. cli.was
        BY <1>1, <4>1 DEF AccessInv, Noticed
      <4> QED BY <1>7, <4>2
    <3>2. CASE Target \notin Listening
      <4>1. Listening \notin {{}, {Target}}
        BY <1>11, <3>2
      <4>2. kind[Target] = "vm"
        BY <1>1 DEF AccessInv, Asked
      <4> QED BY <1>8, <4>1, <4>2
    <3> QED BY <3>1, <3>2
  <2>4. c.was \/ (kind[Target] = "runc" /\ c.cut) \/ (kind[Target] = "vm" /\ c.other)
    BY <2>3
  <2>5. Probed
    BY <1>1, <1>6, <1>7, <2>1, <2>2, <2>4 DEF Probed, Nodewise
  <2> QED BY <2>5, ProbedInv
<1> QED BY <1>10, <1>11

\* ssh reaches whoever has the address.
LEMMA SshConnectInv ==
    ASSUME AccessInv, SshConnect
    PROVE  AccessInv' /\ Heard
<1>1. /\ cli.pc = "dial" /\ cli.cmd = "exec" /\ cli.pc \in Running /\ Nodewise
      /\ kind' = kind /\ node' = node
  BY DEF SshConnect, Running, Nodewise, bootVars
<1>2. Typed /\ cli \in AnyCli /\ Target \in Nodes /\ kind[Target] = "vm"
  BY <1>1, TargetNode DEF AccessInv, Typed, Asked
<1>3. CASE Listening = {}
  <2>1. Refused
    BY <1>1, <1>3 DEF SshConnect, Refused
  <2> QED BY <1>1, <2>1, RefusedInv
<1>4. CASE Listening # {}
  <2>1. PICK m \in Listening :
          /\ cli' = [cli EXCEPT !.pc = "ssh", !.ip = None, !.other = m # Target]
          /\ task' = [NoTask EXCEPT !.st = "running", !.on = m]
    BY <1>4 DEF SshConnect
  <2>2. m \in Nodes
    BY DEF Listening
  <2>3. cli' \in AnyCli
    BY <1>2, <2>1 DEF AnyCli, Running
  <2>4. /\ cli'.cmd = cli.cmd /\ cli'.at = cli.at /\ cli'.elapsed = cli.elapsed
        /\ cli'.pc = "ssh" /\ cli'.calm = cli.calm /\ cli'.cut = cli.cut
    BY <1>2, <2>1 DEF AnyCli
  <2>5. cli'.other <=> m # Target
    BY <1>2, <2>1 DEF AnyCli
  <2>6. task' \in Task /\ task'.st = "running" /\ task'.on = m
    BY <2>1, <2>2 DEF NoTask, Task
  <2>7. BootInv' /\ Paced' /\ Earlier' /\ Heard
    BY <1>1, <2>3, <2>4, GoesOn DEF Running
  <2>8. Typed'
    BY <2>2, <2>3, <2>6, BootAssumption DEF Typed
  <2>9. Noticed' /\ AskedOnce'
    BY <1>1, <2>4 DEF Noticed, AskedOnce
  <2>10. Asked'
    BY <1>1, <1>2, <2>4, <2>5, <2>6 DEF Asked, Target
  <2>11. ExecTrue'
    BY <2>4 DEF ExecTrue
  <2> QED BY <2>7, <2>8, <2>9, <2>10, <2>11 DEF AccessInv
<1> QED BY <1>3, <1>4

LEMMA SshEndsInv ==
    ASSUME AccessInv, SshEnds
    PROVE  AccessInv' /\ Heard
<1>1. PICK pc \in {"ok", "failed"} :
          /\ cli' = [cli EXCEPT !.pc = pc] /\ task' = task
          /\ pc = "ok" => task.st = "ended" /\ task.code = 0
  BY DEF SshEnds, Goto
<1>2. /\ cli.pc = "ssh" /\ cli.pc \in Running /\ Nodewise /\ kind' = kind /\ node' = node
      /\ cli.cmd = "exec" /\ kind[Target] = "vm" /\ (task.on # Target => cli.other) /\ Typed
  BY DEF SshEnds, Running, Nodewise, bootVars, AccessInv, Asked
<1>3. /\ cli' \in AnyCli /\ Same(cli, cli') /\ cli'.pc = pc
      /\ cli'.at = cli.at /\ cli'.elapsed = cli.elapsed
  BY <1>1, <1>2, GotoFacts
<1>4. BootInv' /\ Paced' /\ Earlier' /\ Heard
  BY <1>2, <1>3, GoesOn DEF Same, Running
<1>5. Typed'
  BY <1>1, <1>2, <1>3 DEF Typed
<1>6. Noticed' /\ AskedOnce'
  BY <1>2, <1>3 DEF Noticed, AskedOnce, Same
<1>7. Asked'
  BY <1>3 DEF Asked
<1>8. ExecTrue'
  BY <1>1, <1>2, <1>3 DEF ExecTrue, Same, Target
<1> QED BY <1>4, <1>5, <1>6, <1>7, <1>8 DEF AccessInv

LEMMA ExecCreateInv ==
    ASSUME AccessInv, ExecCreate
    PROVE  AccessInv' /\ Heard
<1>1. cli.pc = "create" /\ cli.pc \in Running /\ Nodewise /\ kind' = kind /\ node' = node /\ Typed
  BY DEF ExecCreate, Running, Nodewise, bootVars, AccessInv
<1>2. CASE ~(cli.here /\ node[Target].on)
  BY <1>1, <1>2, RefusedInv DEF ExecCreate
<1>3. CASE cli.here /\ node[Target].on
  <2>1. cli' = [cli EXCEPT !.pc = "attach"] /\ task' = task
    BY <1>3 DEF ExecCreate, Goto
  <2>2. /\ cli' \in AnyCli /\ Same(cli, cli') /\ cli'.pc = "attach"
        /\ cli'.at = cli.at /\ cli'.elapsed = cli.elapsed
    BY <1>1, <2>1, GotoFacts DEF Running
  <2>3. BootInv' /\ Paced' /\ Earlier' /\ Heard
    BY <1>1, <2>2, GoesOn DEF Same, Running
  <2>4. Typed'
    BY <1>1, <2>1, <2>2 DEF Typed
  <2>5. Noticed'
    BY <1>1, <2>2 DEF AccessInv, Noticed, Same, Target, Booted, Running
  <2>6. Asked' /\ AskedOnce'
    BY <1>1, <2>2 DEF AccessInv, Asked, AskedOnce, Same, Target
  <2>7. ExecTrue'
    BY <2>2 DEF ExecTrue
  <2> QED BY <2>3, <2>4, <2>5, <2>6, <2>7 DEF AccessInv
<1> QED BY <1>2, <1>3

LEMMA ExecAttachInv ==
    ASSUME AccessInv, ExecAttach
    PROVE  AccessInv' /\ Heard
<1>1. /\ cli.pc = "attach" /\ cli.pc \in Running /\ Nodewise /\ kind' = kind /\ node' = node
      /\ Typed /\ Target \in Nodes
  BY TargetNode DEF ExecAttach, Running, Nodewise, bootVars, AccessInv
<1>2. CASE ~(cli.here /\ node[Target].on)
  BY <1>1, <1>2, RefusedInv DEF ExecAttach
<1>3. CASE cli.here /\ node[Target].on
  <2>1. cli' = [cli EXCEPT !.pc = "stream"] /\ task' = [NoTask EXCEPT !.st = "running", !.on = Target]
    BY <1>3 DEF ExecAttach
  <2>2. /\ cli' \in AnyCli /\ Same(cli, cli') /\ cli'.pc = "stream"
        /\ cli'.at = cli.at /\ cli'.elapsed = cli.elapsed
    BY <1>1, <2>1, GotoFacts DEF Running
  <2>3. BootInv' /\ Paced' /\ Earlier' /\ Heard
    BY <1>1, <2>2, GoesOn DEF Same, Running
  <2>4. task' \in Task /\ task'.st = "running" /\ task'.on = Target
    BY <1>1, <2>1 DEF NoTask, Task
  <2>5. Typed'
    BY <1>1, <2>2, <2>4, BootAssumption DEF Typed
  <2>6. Noticed'
    BY <1>1, <2>2 DEF AccessInv, Noticed, Same, Target, Booted, Running
  <2>7. Asked' /\ AskedOnce'
    BY <1>1, <2>2, <2>4 DEF AccessInv, Asked, AskedOnce, Same, Target
  <2>8. ExecTrue'
    BY <2>2 DEF ExecTrue
  <2> QED BY <2>3, <2>5, <2>6, <2>7, <2>8 DEF AccessInv
<1> QED BY <1>2, <1>3

LEMMA StreamInv ==
    ASSUME AccessInv, StreamEnds \/ StreamCut
    PROVE  AccessInv' /\ Heard
<1>1. /\ cli.pc = "stream" /\ cli.pc \in Running /\ Nodewise /\ kind' = kind /\ node' = node
      /\ task' = task /\ Typed /\ cli \in AnyCli
  BY DEF StreamEnds, StreamCut, Goto, Running, Nodewise, bootVars, AccessInv, Typed
<1>2. /\ cli' \in AnyCli /\ cli'.pc = "inspect" /\ cli'.at = cli.at /\ cli'.cmd = cli.cmd
      /\ cli'.elapsed = cli.elapsed /\ cli'.calm = cli.calm /\ cli'.was = cli.was
      /\ cli'.ip = cli.ip
  BY <1>1 DEF StreamEnds, StreamCut, Goto, AnyCli, Running
<1>3. (cli.cut => cli'.cut) /\ (task.st = "ended" \/ cli'.cut)
  BY <1>1 DEF StreamEnds, StreamCut, Goto, AnyCli
<1>4. BootInv' /\ Paced' /\ Earlier' /\ Heard
  BY <1>1, <1>2, <1>3, GoesOn DEF Running
<1>5. Typed'
  BY <1>1, <1>2 DEF Typed
<1>6. Noticed'
  BY <1>1, <1>2 DEF AccessInv, Noticed, Target, Booted, Running
<1>7. Asked' /\ AskedOnce'
  BY <1>1, <1>2, <1>3 DEF AccessInv, Asked, AskedOnce, Target
<1>8. ExecTrue'
  BY <1>2 DEF ExecTrue
<1> QED BY <1>4, <1>5, <1>6, <1>7, <1>8 DEF AccessInv

\* The code says what the process said, unless it still runs.
LEMMA ExecInspectInv ==
    ASSUME AccessInv, ExecInspect
    PROVE  AccessInv' /\ Heard
<1> DEFINE yes == Status(cli.here, IF task.st = "ended" THEN task.code ELSE 0)
<1>1. /\ cli.pc = "inspect" /\ cli.pc \in Running /\ Nodewise /\ kind' = kind /\ node' = node
      /\ Typed /\ Target \in Nodes /\ BootInv
  BY TargetNode DEF ExecInspect, Running, Nodewise, bootVars, AccessInv
<1>2. /\ task.st = "ended" \/ cli.cut
      /\ task.on = Target /\ kind[Target] # "vm"
  BY <1>1 DEF AccessInv, Asked
<1>3. yes \in BOOLEAN /\ (yes /\ task.st = "ended" => task.code = 0)
  BY DEF Status
<1>4. IF cli.cmd = "wait" THEN Answer(yes) ELSE Goto(IF yes THEN "ok" ELSE "failed")
  BY DEF ExecInspect
<1> HIDE DEF yes
<1>5. CASE cli.cmd = "wait"
  <2>1. yes /\ cli.calm /\ ~cli.cut => Booted(Target)
    BY <1>1, <1>2, <1>3, <1>5, SshBooted DEF AccessInv, AskedOnce
  <2>2. yes => cli.was \/ (kind[Target] = "runc" /\ cli.cut)
    BY <1>1, <1>2, <1>3, <1>5 DEF AccessInv, AskedOnce
  <2>3. Probed
    BY <1>1, <1>3, <1>4, <1>5, <2>1, <2>2, AnswerProbes
  <2> QED BY <2>3, ProbedInv
<1>6. CASE cli.cmd # "wait"
  <2>1. PICK pc \in {"ok", "failed"} :
          /\ cli' = [cli EXCEPT !.pc = pc] /\ task' = task
          /\ pc = "ok" => yes
    BY <1>4, <1>6 DEF Goto
  <2>2. /\ cli' \in AnyCli /\ Same(cli, cli') /\ cli'.pc = pc
        /\ cli'.at = cli.at /\ cli'.elapsed = cli.elapsed
    BY <1>1, <2>1, GotoFacts
  <2>3. BootInv' /\ Paced' /\ Earlier' /\ Heard
    BY <1>1, <1>6, <2>2, GoesOn DEF Same, Running
  <2>4. Typed'
    BY <1>1, <2>1, <2>2 DEF Typed
  <2>5. Noticed' /\ AskedOnce'
    BY <1>6, <2>2 DEF Noticed, AskedOnce, Same
  <2>6. Asked'
    BY <2>2 DEF Asked
  <2>7. ExecTrue'
    BY <1>1, <1>2, <1>3, <2>1, <2>2 DEF ExecTrue, Same, Target
  <2> QED BY <2>3, <2>4, <2>5, <2>6, <2>7 DEF AccessInv
<1> QED BY <1>5, <1>6

LEMMA CliStepInv ==
    ASSUME AccessInv, CliStep
    PROVE  AccessInv' /\ Heard
BY ProbeInv, FindForExecInv, LookUpIPInv, DialInv, SshConnectInv, SshEndsInv, ExecCreateInv,
   ExecAttachInv, StreamInv, ExecInspectInv, RefusedInv DEF CliStep, CallFails

\* A step outside the command does not answer for it.
LEMMA NotHeard ==
    ASSUME Typed, cli'.pc = cli.pc, cli'.at = cli.at
    PROVE  Heard
<1>1. cli.at \in Nat
  BY AccessAssumption DEF Typed, AnyCli
<1> QED BY <1>1 DEF Heard, Running

\* A process ends with its code.
LEMMA TaskEndsInv ==
    ASSUME AccessInv, TaskEnds
    PROVE  AccessInv' /\ Heard
<1>1. PICK code \in {0, 1} :
          /\ cli.cmd = "wait" => (code = 0 <=> node[task.on].ssh)
          /\ task' = [task EXCEPT !.st = "ended", !.code = code]
  BY DEF TaskEnds
<1>2. /\ task.st = "running" /\ cli' = cli /\ kind' = kind /\ node' = node
      /\ Typed /\ BootInv /\ Target \in Nodes
  BY TargetNode DEF TaskEnds, Nodewise, bootVars, AccessInv
<1>3. task' \in Task /\ task'.st = "ended" /\ task'.on = task.on /\ task'.code = code
  BY <1>1, <1>2 DEF Typed, Task
<1>4. Typed'
  BY <1>2, <1>3 DEF Typed
<1>5. BootInv' /\ Paced' /\ Earlier' /\ Noticed'
  <2>1. BootInv'
    BY <1>2 DEF BootInv, Addressed
  <2>2. Paced'
    BY <1>2 DEF AccessInv, Paced
  <2>3. Earlier'
    BY <1>2 DEF AccessInv, Earlier, Booted
  <2>4. Noticed'
    BY <1>2 DEF AccessInv, Noticed, Booted, Target
  <2> QED BY <2>1, <2>2, <2>3, <2>4
<1>6. Asked'
  BY <1>2, <1>3 DEF AccessInv, Asked, Target
<1>7. AskedOnce'
  <2> SUFFICES ASSUME cli.cmd = "wait" PROVE AskedOnce'
    BY <1>2 DEF AskedOnce
  <2>1. cli.pc \in {"stream", "inspect"} /\ code = 0 => node[Target].ssh
    BY <1>1 DEF AccessInv, Asked
  <2>2. cli.pc \in {"stream", "inspect"} /\ code = 0 => cli.was
    BY <1>2, <2>1, SshBooted DEF AccessInv, Noticed, Running
  <2> QED BY <1>2, <1>3, <2>1, <2>2 DEF AccessInv, AskedOnce, Target
<1>8. ExecTrue'
  BY <1>2, <1>3 DEF AccessInv, ExecTrue, Target
<1>9. Heard
  BY <1>2, NotHeard
<1> QED BY <1>4, <1>5, <1>6, <1>7, <1>8, <1>9 DEF AccessInv

\* A node boots, stops or is rebuilt under the command's feet.
LEMMA NodeMovesInv ==
    ASSUME AccessInv, NEW n \in Nodes, NodeMoves(n)
    PROVE  AccessInv' /\ Heard
<1> DEFINE h == cli.here /\ ~(n = Target /\ Rebuild(n))
           w == cli.was \/ (cli.pc \in Running /\ cli.cmd = "wait"
                            /\ BootedAs(kind[Target], node'[Target]))
           k == cli.calm /\ ~(cli.pc # "idle" /\ PowerOff(n))
<1>1. Typed /\ BootInv /\ Target \in Nodes /\ NodeStep(n) /\ cli \in AnyCli
  BY TargetNode DEF NodeMoves, AccessInv, Typed
<1>2. /\ BootInv' /\ kind' = kind
      /\ \A m \in Nodes \ {n} : node'[m] = node[m]
      /\ ~PowerOff(n) => /\ node[n].on => node'[n].on /\ node'[n].addr = node[n].addr
                         /\ node[n].ssh => node'[n].ssh
  BY <1>1, NodeStepSound
<1>3. cli' = [cli EXCEPT !.here = h, !.was = w, !.calm = k]
  BY DEF NodeMoves
<1>4. h \in BOOLEAN /\ w \in BOOLEAN /\ k \in BOOLEAN
  OBVIOUS
<1>5. /\ k => cli.calm /\ (cli.pc = "idle" \/ ~PowerOff(n))
      /\ cli.was => w
      /\ cli.pc \in Running /\ cli.cmd = "wait" /\ BootedAs(kind[Target], node'[Target]) => w
  OBVIOUS
<1> HIDE DEF h, w, k
<1>6. cli' \in AnyCli
  BY <1>1, <1>3, <1>4 DEF AnyCli
<1>7. /\ cli'.cmd = cli.cmd /\ cli'.pc = cli.pc /\ cli'.at = cli.at /\ cli'.ip = cli.ip
      /\ cli'.elapsed = cli.elapsed /\ cli'.cut = cli.cut /\ cli'.other = cli.other
      /\ cli'.was = w /\ cli'.calm = k
  BY <1>1, <1>3 DEF AnyCli
<1>8. /\ task' \in Task /\ task'.on = task.on
      /\ task' = task \/ (task.st = "running" /\ task'.st = "ended" /\ task'.code = 137)
  BY <1>1 DEF NodeMoves, Typed, Task
<1>9. Typed'
  <2>1. task'.st = "none" <=> task.st = "none"
    BY <1>8
  <2> QED BY <1>1, <1>6, <1>8, <2>1 DEF Typed
<1>10. Paced'
  BY <1>7 DEF AccessInv, Paced
<1>11. Target' = Target
  BY <1>7 DEF Target
<1>12. \A m \in Nodes : k /\ cli.pc # "idle" =>
          /\ node[m].on => node'[m].on /\ node'[m].addr = node[m].addr
          /\ node[m].ssh => node'[m].ssh
  BY <1>2, <1>5
<1>13. \A m \in Nodes : k /\ cli.pc # "idle" /\ Booted(m) => Booted(m)'
  <2> TAKE m \in Nodes
  <2> HAVE k /\ cli.pc # "idle" /\ Booted(m)
  <2>1. node[m].on /\ (kind[m] # "runner" => node[m].ssh)
    BY DEF Booted, BootedAs
  <2>2. node'[m].on /\ (kind[m] # "runner" => node'[m].ssh)
    BY <1>12, <2>1
  <2>3. node'[m].ssh => node'[m].kmod = "done" /\ node'[m].resolv
    BY <1>2 DEF BootInv, BootSound, InOrder
  <2> QED BY <1>2, <2>2, <2>3 DEF Booted, BootedAs
<1>14. \A i \in 1..Len(Order) : Order[i] \in Nodes
  BY AccessAssumption
<1>15. Earlier'
  <2>1. cli.cmd = "wait" => cli.pc # "idle"
    BY DEF AccessInv, Asked
  <2> SUFFICES ASSUME cli.cmd = "wait", k, ~cli.cut, NEW i \in 1..Len(Order),
                      i < cli.at \/ cli.pc = "ok"
               PROVE  Booted(Order[i])'
    BY <1>7 DEF Earlier
  <2>2. Booted(Order[i])
    BY <1>5 DEF AccessInv, Earlier
  <2> QED BY <1>13, <1>14, <2>1, <2>2
<1>16. Noticed'
  BY <1>2, <1>5, <1>7, <1>11 DEF Noticed, Booted
<1>17. Asked'
  <2>1. /\ task.st # "none" => task'.st # "none"
        /\ task.st = "ended" => task'.st = "ended"
    BY <1>8
  <2> QED BY <1>2, <1>7, <1>8, <1>11, <2>1 DEF AccessInv, Asked
<1>18. AskedOnce'
  <2> SUFFICES ASSUME cli.cmd = "wait" PROVE AskedOnce'
    BY <1>7 DEF AskedOnce
  <2>1. cli.pc # "idle"
    BY DEF AccessInv, Asked
  <2>2. cli.pc = "ip" /\ k => node'[Target].on
    BY <1>1, <1>5, <1>12, <2>1 DEF AccessInv, AskedOnce
  <2>3. cli.pc = "dial" /\ k => node'[Target].addr = cli.ip
    <3> HAVE cli.pc = "dial" /\ k
    <3>1. node[Target].addr = cli.ip /\ cli.ip # None
      BY <1>5 DEF AccessInv, AskedOnce, Asked
    <3>2. node[Target].on
      BY <1>1, <3>1 DEF BootInv, Addressed
    <3> QED BY <1>1, <1>12, <2>1, <3>1, <3>2
  <2>4. cli.pc \in {"stream", "inspect"} /\ task'.st = "ended" /\ task'.code = 0 =>
            w /\ (k => node'[Target].ssh)
    <3> HAVE cli.pc \in {"stream", "inspect"} /\ task'.st = "ended" /\ task'.code = 0
    <3>1. task' = task
      BY <1>8
    <3>2. cli.was /\ (cli.calm => node[Target].ssh)
      BY <3>1 DEF AccessInv, AskedOnce
    <3> QED BY <1>1, <1>5, <1>12, <2>1, <3>2
  <2> QED BY <1>2, <1>7, <1>11, <2>2, <2>3, <2>4 DEF AccessInv, AskedOnce
<1>19. ExecTrue'
  BY <1>2, <1>7, <1>8, <1>11 DEF AccessInv, ExecTrue
<1>20. Heard
  BY <1>1, <1>7, NotHeard
<1> QED BY <1>2, <1>9, <1>10, <1>15, <1>16, <1>17, <1>18, <1>19, <1>20 DEF AccessInv

LEMMA InitInv == Init => AccessInv
<1> SUFFICES ASSUME Init PROVE AccessInv
  OBVIOUS
<1>1. cli = NoCli /\ task = NoTask /\ BootInv
  BY BootInitInv DEF Init
<1>2. 1 \in 1..Len(Order) /\ Len(Order) \in Nat /\ Timeout \in Nat /\ MaxProbe \in Nat
  BY AccessAssumption, LenProperties
<1>3. NoCli \in AnyCli
  BY <1>2 DEF NoCli, AnyCli
<1>4. cli.cmd = "none" /\ cli.pc = "idle" /\ cli.elapsed = 0
  BY <1>1 DEF NoCli
<1>5. Typed
  BY <1>1, <1>3, NoTaskTyped DEF Typed
<1>6. Paced
  <2>1. Len(Order) * MaxProbe \in Nat
    BY <1>2
  <2> QED BY <1>2, <1>4, <2>1 DEF Paced, Running, WorstCase
<1>7. Earlier /\ Noticed /\ AskedOnce /\ ExecTrue
  BY <1>4 DEF Earlier, Noticed, AskedOnce, ExecTrue
<1>8. Asked
  BY <1>4 DEF Asked
<1> QED BY <1>1, <1>5, <1>6, <1>7, <1>8 DEF AccessInv

\* Every step keeps the invariant, and no probe is answered wrongly by it.
LEMMA NextInv ==
    ASSUME AccessInv, [Next]_vars
    PROVE  AccessInv' /\ [Heard]_vars
<1>1. CASE Next
  <2>1. CASE Start("wait") \/ Start("exec")
    BY <2>1, StartInv
  <2>2. CASE CliStep
    BY <2>2, CliStepInv
  <2>3. CASE TaskEnds
    BY <2>3, TaskEndsInv
  <2>4. CASE \E n \in Nodes : NodeMoves(n)
    BY <2>4, NodeMovesInv
  <2> QED BY <1>1, <2>1, <2>2, <2>3, <2>4 DEF Next
<1>2. CASE UNCHANGED vars
  <2>1. kind' = kind /\ node' = node /\ cli' = cli /\ task' = task
    BY <1>2 DEF vars
  <2>2. BootInv'
    BY <2>1 DEF AccessInv, BootInv, Addressed
  <2>3. Typed' /\ Paced'
    BY <2>1 DEF AccessInv, Typed, Paced
  <2>4. Earlier'
    BY <2>1 DEF AccessInv, Earlier, Booted
  <2>5. Noticed'
    BY <2>1 DEF AccessInv, Noticed, Booted, Target
  <2>6. Asked' /\ AskedOnce' /\ ExecTrue'
    BY <2>1 DEF AccessInv, Asked, AskedOnce, ExecTrue, Target
  <2> QED BY <1>2, <2>2, <2>3, <2>4, <2>5, <2>6 DEF AccessInv
<1> QED BY <1>1, <1>2

\* The inductive invariant of the nodes and the command.
THEOREM Invariance == Spec => []AccessInv
<1>1. Init => AccessInv
  BY InitInv
<1>2. AccessInv /\ [Next]_vars => AccessInv'
  BY NextInv
<1> QED BY <1>1, <1>2, PTL DEF Spec

\* Every variable has its type, addresses are unique and the time is bounded.
THEOREM TypeCorrect == Spec => []TypeOK
<1>1. AccessInv => TypeOK
  <2> SUFFICES ASSUME AccessInv PROVE TypeOK
    OBVIOUS
  <2>1. BootTypeOK
    BY DEF AccessInv, BootInv, Addressed, BootTypeOK
  <2>2. cli \in Cli
    <3>1. cli \in AnyCli /\ cli.elapsed <= WorstCase
      BY DEF AccessInv, Typed, Paced
    <3>2. WorstCase \in Nat
      BY AccessAssumption, LenProperties DEF WorstCase
    <3>3. cli.elapsed \in 0..WorstCase
      BY <3>1, <3>2 DEF AnyCli
    <3> QED BY <3>1, <3>3 DEF AnyCli, Cli
  <2> QED BY <2>1, <2>2 DEF AccessInv, Typed, TypeOK
<1> QED BY <1>1, Invariance, PTL

\* Over any number of boots, losses of power and commands of the scripts that fail, only a
\* failure in the boot itself, an image left without a file system and a tree left
\* unfinished keep a boot from completing.
THEOREM BootsComplete == Spec => []BootCompletes
<1>1. AccessInv => BootCompletes
  BY DEF AccessInv, BootInv, BootSound, ModsSound, StoreSound, HasTree, AllMods, BootCompletes
<1> QED BY <1>1, Invariance, PTL

\* What a node pulled is never formatted away, over any number of boots.
THEOREM ImagesKept == Spec => StoreKept
<1> DEFINE Kept == \A n \in Nodes :
        node[n].disk.data => node'[n].disk.data \/ node'[n].disk = FreshDisk(n)
<1>1. AccessInv /\ [Next]_vars => [Kept]_bootVars
  <2> SUFFICES ASSUME AccessInv, Next, bootVars' # bootVars PROVE Kept
    BY DEF vars, bootVars
  <2>1. PICK n \in Nodes : NodeMoves(n)
    BY DEF Next, Start, CliStep, TaskEnds, Nodewise, Probe, FindForExec, LookUpIP, Dial,
           SshConnect, SshEnds, ExecCreate, ExecAttach, StreamEnds, StreamCut, ExecInspect,
           CallFails
  <2>2. NodeStep(n) /\ BootInv
    BY <2>1 DEF NodeMoves, AccessInv
  <2> QED BY <2>2, NodeStepSound
<1> QED BY <1>1, Invariance, PTL DEF Spec, StoreKept

\* A probe of "up --wait" calls a node ready only if it had booted, or its stream was cut,
\* or another node had its address.
THEOREM ReadySound == Spec => ReadyMeansBooted
<1>1. AccessInv /\ [Next]_vars => [Heard]_vars
  BY NextInv
<1> QED BY <1>1, Invariance, PTL DEF Spec, ReadyMeansBooted, Heard

\* When "up --wait" succeeds and nothing stopped, all nodes are booted at once.
THEOREM ReadyTogether == Spec => []AllReady
<1>1. AccessInv => AllReady
  <2> SUFFICES ASSUME AccessInv, cli.cmd = "wait", cli.pc = "ok", cli.calm, ~cli.cut,
                      NEW n \in Nodes
               PROVE  Booted(n)
    BY DEF AllReady
  <2>1. PICK i \in 1..Len(Order) : n = Order[i]
    BY AccessAssumption
  <2> QED BY <2>1 DEF AccessInv, Earlier
<1> QED BY <1>1, Invariance, PTL

\* "up --wait" outlasts its timeout by a second and one probe for each node at most.
THEOREM WaitIsBounded == Spec => []WaitBounded
<1>1. AccessInv => WaitBounded
  BY DEF AccessInv, Paced, WaitBounded
<1> QED BY <1>1, Invariance, PTL

\* "exec" succeeds only with a command that did, in the node it names, but for a cut stream
\* and an address that changed hands.
THEOREM ExecSound == Spec => []ExecTrue
<1>1. AccessInv => ExecTrue
  BY DEF AccessInv
<1> QED BY <1>1, Invariance, PTL
=============================================================================
