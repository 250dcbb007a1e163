------------------------------- MODULE LabKeys -------------------------------
(***************************************************************************)
(* The lab's SSH key pair: EnsureKeypair, called by vabbe up before its    *)
(* nodes, and RegenerateKeypair, which is vabbe keygen, one system call at *)
(* a time, run by any number of terminals on one lab.                      *)
(*                                                                         *)
(* A node bind-mounts both files when it starts.  A mount holds the file   *)
(* (the inode), not its path: it does not follow a file that is removed    *)
(* and written anew, it does follow one that is rewritten in place, and a  *)
(* path that is missing when the node starts becomes a directory.          *)
(***************************************************************************)
EXTENDS Naturals, FiniteSets

CONSTANTS
    Procs,     \* terminals
    Killable,  \* those whose commands may be cut short
    Nodes,     \* the lab's nodes
    Removable, \* the files the user may remove
    Keys,      \* key pairs
    Inodes,
    None

Files == {"priv", "pub"}       \* id_ed25519 and id_ed25519.pub

ASSUME KeysAssumption ==
    /\ None \notin Procs \cup Keys \cup Inodes \cup {"dir"}
    /\ "dir" \notin Inodes
    /\ Keys \cap {"empty", "free", "none"} = {}
    /\ Killable \subseteq Procs
    /\ Removable \subseteq Files

VARIABLES
    dir,       \* the lab's directory under .vabbe exists
    entry,     \* what each file name in it refers to
    data,      \* the content of each inode
    node,      \* the lab's nodes and the files they hold mounted
    proc,      \* the command each terminal runs
    clean,     \* history: the command that has run alone since it started
    had,       \* history: and it found both files when it did
    torn,      \* history: commands overlapped, or one was cut short or disturbed
               \* with both files there, or a file became a directory; and no
               \* undisturbed keygen came since
    renewed    \* history: the pair may have changed since a node was started

files == <<dir, entry, data>>
vars == <<dir, entry, data, node, proc, clean, had, torn, renewed>>

Entry == Inodes \cup {"dir", None}
NoFiles == [f \in Files |-> None]

Node == [state : {"absent", "stopped", "running"}, sees : [Files -> Entry]]

KeyPcs == {"statPriv", "statPub", "mkdir", "openPriv", "writePriv", "openPub", "writePub"}
RemovePcs == {"list", "unlink", "rmdir"}

Command ==
    [pc   : {"idle", "nodes"} \cup KeyPcs \cup RemovePcs,
     cmd  : {"up", "keygen"},
     key  : Keys \cup {None},        \* the pair it has generated
     fd   : Inodes \cup {None},      \* the file it is writing
     todo : SUBSET Files,            \* the files it has listed for removal
     failed : BOOLEAN]               \* it has exited with an error

Idle == [pc |-> "idle", cmd |-> "up", key |-> None, fd |-> None, todo |-> {},
         failed |-> FALSE]

AllIdle == \A p \in Procs : proc[p].pc = "idle"

Present(f) == entry[f] # None
AllPresent == \A f \in Files : Present(f)

Content(e) == IF e \in Inodes THEN data[e] ELSE "none"

\* These two entries are the halves of one key pair.
Pair(priv, pub) == Content(priv) \in Keys /\ Content(priv) = Content(pub)

-----------------------------------------------------------------------------
(* The file system. *)

InUse(i) ==
    \/ \E f \in Files : entry[f] = i \/ \E n \in Nodes : node[n].sees[f] = i
    \/ \E p \in Procs : proc[p].fd = i

FreeInodes == {i \in Inodes : ~InUse(i)}

\* The contents are d; a file nothing refers to any more is gone.
Store(d) == data' = [i \in Inodes |-> IF InUse(i)' THEN d[i] ELSE "free"]

\* Keys are random: a new one is nowhere yet.
NewKeys == {k \in Keys : /\ \A i \in Inodes : data[i] # k
                         /\ \A p \in Procs : proc[p].key # k}

\* Which key or inode it is does not matter.
Some(S) == CHOOSE x \in S : TRUE

Goto(p, pc) == proc' = [proc EXCEPT ![p].pc = pc]

Done(p) == proc' = [proc EXCEPT ![p] = Idle]
Fail(p) == proc' = [proc EXCEPT ![p] = [Idle EXCEPT !.failed = TRUE]]

\* keygen is done once the pair is written; up goes on with its nodes.
KeysDone(p) == IF proc[p].cmd = "up" THEN Goto(p, "nodes") ELSE Done(p)

-----------------------------------------------------------------------------
(* EnsureKeypair. *)

StartUp(p) ==
    /\ proc[p].pc = "idle"
    /\ proc' = [proc EXCEPT ![p] = [Idle EXCEPT !.pc = "statPriv"]]
    /\ UNCHANGED <<dir, entry, data, node>>

StatPriv(p) ==
    /\ proc[p].pc = "statPriv"
    /\ Goto(p, IF Present("priv") THEN "statPub" ELSE "mkdir")
    /\ UNCHANGED <<dir, entry, data, node>>

\* Mutant of StatPub: only the missing half is written.
StatPubHalf(p) ==
    /\ proc[p].pc = "statPub"
    /\ IF Present("pub")
         THEN KeysDone(p)
         ELSE /\ NewKeys # {}
              /\ proc' = [proc EXCEPT ![p].pc = "openPub", ![p].key = Some(NewKeys)]
    /\ UNCHANGED <<dir, entry, data, node>>

\* Mutant of StatPub: an existing pair is written anew.
StatPubAgain(p) ==
    /\ proc[p].pc = "statPub"
    /\ Goto(p, "mkdir")
    /\ UNCHANGED <<dir, entry, data, node>>

StatPub(p) ==
    /\ proc[p].pc = "statPub"
    /\ IF Present("pub") THEN KeysDone(p) ELSE Goto(p, "mkdir")
    /\ UNCHANGED <<dir, entry, data, node>>

\* MkdirAll, and the key is generated.
Mkdir(p) ==
    /\ proc[p].pc = "mkdir"
    /\ dir' = TRUE
    /\ NewKeys # {}
    /\ proc' = [proc EXCEPT ![p].pc = "openPriv", ![p].key = Some(NewKeys)]
    /\ UNCHANGED <<entry, data, node>>

\* WriteFile opens (create, truncate)...
Open(p, f, pc) ==
    /\ \/ /\ dir /\ entry[f] = None
          /\ FreeInodes # {}
          /\ LET i == Some(FreeInodes) IN
             /\ entry' = [entry EXCEPT ![f] = i]
             /\ data' = [data EXCEPT ![i] = "empty"]
             /\ proc' = [proc EXCEPT ![p].pc = pc, ![p].fd = i]
       \/ /\ entry[f] \in Inodes
          /\ data' = [data EXCEPT ![entry[f]] = "empty"]
          /\ proc' = [proc EXCEPT ![p].pc = pc, ![p].fd = entry[f]]
          /\ UNCHANGED entry
       \/ /\ ~dir \/ entry[f] = "dir"
          /\ Fail(p)
          /\ UNCHANGED <<entry, data>>
    /\ UNCHANGED <<dir, node>>

\* ... writes and closes.
Fill(p) ==
    /\ UNCHANGED <<dir, entry, node>>
    /\ Store([data EXCEPT ![proc[p].fd] = proc[p].key])

OpenPriv(p) == proc[p].pc = "openPriv" /\ Open(p, "priv", "writePriv")

WritePriv(p) ==
    /\ proc[p].pc = "writePriv"
    /\ proc' = [proc EXCEPT ![p].pc = "openPub", ![p].fd = None]
    /\ Fill(p)

OpenPub(p) == proc[p].pc = "openPub" /\ Open(p, "pub", "writePub")

WritePub(p) ==
    /\ proc[p].pc = "writePub"
    /\ IF proc[p].cmd = "up"
         THEN proc' = [proc EXCEPT ![p].pc = "nodes", ![p].fd = None, ![p].key = None]
         ELSE Done(p)
    /\ Fill(p)

-----------------------------------------------------------------------------
(* RegenerateKeypair: RemoveAll, then EnsureKeypair. *)

\* Mutant of StartKeygen: nothing is removed first.
StartKeygenKeep(p) ==
    /\ proc[p].pc = "idle"
    /\ proc' = [proc EXCEPT ![p] = [Idle EXCEPT !.pc = "mkdir", !.cmd = "keygen"]]
    /\ UNCHANGED <<dir, entry, data, node>>

StartKeygen(p) ==
    /\ proc[p].pc = "idle"
    /\ proc' = [proc EXCEPT ![p] = [Idle EXCEPT !.pc = "list", !.cmd = "keygen"]]
    /\ UNCHANGED <<dir, entry, data, node>>

ListDir(p) ==
    /\ proc[p].pc = "list"
    /\ proc' = [proc EXCEPT ![p].pc = IF dir THEN "unlink" ELSE "statPriv",
                            ![p].todo = {f \in Files : Present(f)}]
    /\ UNCHANGED <<dir, entry, data, node>>

\* In the order the directory lists them; one that is gone already is skipped.
Unlink(p) ==
    /\ proc[p].pc = "unlink"
    /\ \/ \E f \in proc[p].todo :
             /\ entry' = [entry EXCEPT ![f] = None]
             /\ proc' = [proc EXCEPT ![p].todo = @ \ {f}]
       \/ proc[p].todo = {} /\ Goto(p, "rmdir") /\ UNCHANGED entry
    /\ UNCHANGED <<dir, node>>
    /\ Store(data)

\* Mutant of Rmdir: the directory goes with whatever is in it.
RmdirFull(p) ==
    /\ proc[p].pc = "rmdir"
    /\ dir' = FALSE
    /\ Goto(p, "statPriv")
    /\ UNCHANGED <<entry, data, node>>

\* Fails when someone has written into the directory meanwhile.
Rmdir(p) ==
    /\ proc[p].pc = "rmdir"
    /\ IF \E f \in Files : Present(f)
         THEN Fail(p) /\ UNCHANGED dir
         ELSE dir' = FALSE /\ Goto(p, "statPriv")
    /\ UNCHANGED <<entry, data, node>>

-----------------------------------------------------------------------------
(* Nodes. *)

\* Docker makes a directory of a missing path; it runs the node, or refuses to
\* mount a directory where the node has a file.
Bind(n) ==
    /\ node[n].state # "running"
    /\ dir' = TRUE
    /\ entry' = [f \in Files |-> IF Present(f) THEN entry[f] ELSE "dir"]

Mounts(n) == node' = [node EXCEPT ![n] = [state |-> "running", sees |-> entry']]

Refused == (\E f \in Files : entry'[f] = "dir") /\ UNCHANGED node

\* up starts, in their order, the nodes that do not run.
UpNode(p) ==
    /\ proc[p].pc = "nodes"
    /\ \/ \E n \in Nodes :
             /\ Bind(n)
             /\ \/ Mounts(n) /\ UNCHANGED proc
                \/ Refused /\ Fail(p)
       \/ /\ \A n \in Nodes : node[n].state = "running"
          /\ Done(p)
          /\ UNCHANGED <<dir, entry, node>>
    /\ UNCHANGED data

\* docker start, or the restart policy.
NodeStarts(n) ==
    /\ node[n].state = "stopped"
    /\ Bind(n)
    /\ Mounts(n) \/ Refused
    /\ UNCHANGED <<data, proc>>

NodeStops(n) ==
    /\ node[n].state = "running"
    /\ node' = [node EXCEPT ![n] = [state |-> "stopped", sees |-> NoFiles]]
    /\ UNCHANGED <<dir, entry, proc>>
    /\ Store(data)

\* The user removes a file.
UserRemoves(f) ==
    /\ Present(f)
    /\ entry' = [entry EXCEPT ![f] = None]
    /\ UNCHANGED <<dir, node, proc>>
    /\ Store(data)

Killed(p) ==
    /\ proc[p].pc # "idle"
    /\ Fail(p)
    /\ UNCHANGED <<dir, entry, node>>
    /\ Store(data)

-----------------------------------------------------------------------------
EnsureStep(p) ==
    \/ StatPriv(p) \/ StatPub(p) \/ Mkdir(p) \/ OpenPriv(p) \/ WritePriv(p)
    \/ OpenPub(p) \/ WritePub(p)

RemoveStep(p) == ListDir(p) \/ Unlink(p) \/ Rmdir(p)

\* All nodes are started anew from here on.
NoneRuns == \A n \in Nodes : node[n].state # "running"
Forget == AllIdle' /\ NoneRuns'

Spoilt == \E f \in Files : entry'[f] = "dir"

Begin(p) ==
    /\ StartUp(p) \/ StartKeygen(p)
    /\ clean' = IF AllIdle THEN p ELSE None
    /\ had' = (AllIdle /\ AllPresent)
    /\ torn' = (torn \/ ~AllIdle)
    /\ renewed' = (renewed \/ proc'[p].cmd = "keygen" \/ ~AllIdle)

Continue(p) ==
    LET done == proc'[p].pc = "idle"
        repaired == clean = p /\ proc[p].cmd = "keygen" /\ done /\ ~proc'[p].failed
    IN
    /\ EnsureStep(p) \/ RemoveStep(p) \/ UpNode(p)
    /\ clean' = IF clean = p /\ ~done THEN p ELSE None
    /\ had' = (had /\ clean' # None)
    /\ torn' = (~repaired /\ (torn \/ (proc'[p].failed /\ AllPresent') \/ Spoilt))
    /\ renewed' = ((renewed \/ torn' \/ proc[p].pc = "mkdir") /\ ~Forget)

Others ==
    /\ \/ \E n \in Nodes : NodeStarts(n) \/ NodeStops(n)
       \/ \E f \in Removable : UserRemoves(f)
       \/ \E p \in Killable : Killed(p)
    /\ clean' = None
    /\ had' = FALSE
    /\ torn' = (torn \/ (~AllIdle /\ AllPresent') \/ Spoilt)
    /\ renewed' = ((renewed \/ torn' \/ entry' # entry) /\ ~Forget)

Init ==
    /\ dir = FALSE
    /\ entry = NoFiles
    /\ data = [i \in Inodes |-> "free"]
    /\ node = [n \in Nodes |-> [state |-> "absent", sees |-> NoFiles]]
    /\ proc = [p \in Procs |-> Idle]
    /\ clean = None
    /\ had = FALSE
    /\ torn = FALSE
    /\ renewed = FALSE

Next == (\E p \in Procs : Begin(p) \/ Continue(p)) \/ Others

Spec == Init /\ [][Next]_vars

-----------------------------------------------------------------------------
(* Properties. *)

TypeOK ==
    /\ dir \in BOOLEAN
    /\ entry \in [Files -> Entry]
    /\ data \in [Inodes -> Keys \cup {"empty", "free"}]
    /\ node \in [Nodes -> Node]
    /\ proc \in [Procs -> Command]
    /\ clean \in Procs \cup {None}
    /\ had \in BOOLEAN
    /\ torn \in BOOLEAN
    /\ renewed \in BOOLEAN
    /\ ~dir => entry = NoFiles
    /\ \A i \in Inodes : InUse(i) <=> data[i] # "free"

\* As long as commands run one after the other, two files in the lab's directory
\* are the two halves of one key pair, even where one file was removed or a killed
\* command left one of them out: the next up writes both anew.  After a race, and
\* after a kill that leaves both files there, they are again once a keygen ran
\* undisturbed.
PairMatches ==
    (AllIdle /\ ~torn /\ AllPresent) => Pair(entry["priv"], entry["pub"])

\* A keygen that ran undisturbed and exits with success leaves a pair that no
\* node has: running nodes go on with the files they started with.
KeygenRenews ==
    [][\A p \in Procs :
        clean = p /\ proc[p].cmd = "keygen" /\ proc'[p] = Idle
        => /\ Pair(entry["priv"], entry["pub"])'
           /\ \A n \in Nodes, f \in Files :
                 Content(node[n].sees[f])' # Content(entry["priv"])']_vars

\* No step of an undisturbed up touches the key files when both were there.
UpKeepsKeys ==
    [][\A p \in Procs :
        (clean = p /\ proc'[p] # proc[p] /\ proc[p].cmd = "up" /\ had)
            => UNCHANGED files]_vars

\* The nodes that run can log in to each other.
Peers ==
    \A m, n \in Nodes :
        (node[m].state = "running" /\ node[n].state = "running") =>
            Pair(node[m].sees["priv"], node[n].sees["pub"])

\* Once the nodes have been stopped all together after the pair changed, those
\* that run reach each other, whatever was started, stopped and brought up since.
PeersAfterRestart == (AllIdle /\ ~torn /\ ~renewed) => Peers

=============================================================================
