---------------------------- MODULE LabKeys_proofs ----------------------------
(***************************************************************************)
(* Proofs about LabKeys, for any number of terminals, nodes, key pairs and *)
(* inodes.                                                                 *)
(***************************************************************************)
EXTENDS LabKeys, TLAPS

\* A command has a key from mkdir on and a file open while it writes.
Holds(p) ==
    /\ proc[p].fd # None <=> proc[p].pc \in {"writePriv", "writePub"}
    /\ proc[p].pc \in {"openPriv", "writePriv", "openPub", "writePub"} => proc[p].key \in Keys
    /\ proc[p].pc = "nodes" => proc[p].cmd = "up"
    /\ proc[p].pc \in RemovePcs => proc[p].cmd = "keygen"

\* Two names are never one file, and only a running node has files mounted.
Separate ==
    /\ entry["priv"] \in Inodes => entry["priv"] # entry["pub"]
    /\ \A n \in Nodes : node[n].state # "running" => node[n].sees = NoFiles

Sound == TypeOK /\ Separate /\ \A p \in Procs : Holds(p)

Only(p) == \A q \in Procs \ {p} : proc[q].pc = "idle"

\* clean and had say what they mean.
Alone ==
    /\ \A p \in Procs : clean = p => proc[p].pc # "idle" /\ Only(p)
    /\ had => clean # None

\* What a command that writes the files knows of them, if it was alone.
Writes(p) ==
    /\ proc[p].pc = "writePriv" => entry["priv"] \in {None, proc[p].fd}
    /\ proc[p].pc \in {"openPub", "writePub"} /\ entry["priv"] # None =>
          Content(entry["priv"]) = proc[p].key
    /\ proc[p].pc = "writePub" =>
          entry["pub"] \in {None, proc[p].fd} /\ entry["priv"] # proc[p].fd

Matched == AllPresent => Pair(entry["priv"], entry["pub"])

\* As long as nothing is torn.
Whole ==
    /\ \A p, q \in Procs : proc[p].pc # "idle" /\ proc[q].pc # "idle" => p = q
    /\ \A f \in Files : entry[f] # "dir"
    /\ AllIdle => Matched
    /\ \A p \in Procs :
          /\ Writes(p)
          /\ proc[p].pc \in {"statPriv", "statPub", "nodes"} \cup RemovePcs => Matched
          /\ proc[p].pc \in {"mkdir", "openPriv"} => ~AllPresent

\* What an undisturbed keygen knows: the old files are gone, and nobody else has the new.
Renews(p) ==
    /\ proc[p].pc = "unlink" => \A f \in Files : Present(f) => f \in proc[p].todo
    /\ proc[p].pc \in {"rmdir", "statPriv", "mkdir", "openPriv"} => entry = NoFiles
    /\ proc[p].pc \notin {"statPub", "nodes"}
    /\ proc[p].pc \in {"writePriv", "openPub"} => entry["pub"] = None
    /\ proc[p].pc \in {"writePriv", "openPub", "writePub"} =>
          entry["priv"] # None /\ \A n \in Nodes, f \in Files : node[n].sees[f] # entry["priv"]
    /\ proc[p].pc = "writePub" =>
          entry["pub"] # None /\ \A n \in Nodes, f \in Files : node[n].sees[f] # entry["pub"]
    /\ proc[p].pc \in {"openPriv", "writePriv"} => \A i \in Inodes : data[i] # proc[p].key
    /\ proc[p].pc \in {"openPub", "writePub"} =>
          \A i \in Inodes : data[i] = proc[p].key => i = entry["priv"]
    /\ Writes(p)

Renewing == \A p \in Procs : clean = p /\ proc[p].cmd = "keygen" => Renews(p)

\* An undisturbed up that found both files.
Keeping ==
    \A p \in Procs : clean = p /\ proc[p].cmd = "up" /\ had =>
        AllPresent /\ proc[p].pc \in {"statPriv", "statPub", "nodes"}

\* Whoever may change the files has said so.
Told ==
    \A p \in Procs :
        \/ proc[p].cmd = "keygen" /\ proc[p].pc # "idle"
        \/ proc[p].pc \in {"openPriv", "writePriv", "openPub", "writePub"}
        => renewed

\* Otherwise the nodes have what is in the directory.
Current ==
    ~torn /\ ~renewed =>
        \A n \in Nodes : node[n].state = "running" => node[n].sees = entry /\ AllPresent

WholeInv == ~torn => Whole

IInv == Sound /\ Alone /\ WholeInv /\ Renewing /\ Keeping /\ Told /\ Current

-----------------------------------------------------------------------------
(* What the commands do to their own state. *)

\* p goes on with these, and nobody else does anything.
Becomes(p, pc, cmd, key, fd, todo) ==
    /\ proc' \in [Procs -> Command]
    /\ proc'[p].pc = pc
    /\ proc'[p].cmd = cmd
    /\ proc'[p].key = key
    /\ proc'[p].fd = fd
    /\ proc'[p].todo = todo
    /\ \A q \in Procs : q # p => proc'[q] = proc[q]

\* A command's record, spelled out.
LEMMA CommandFields ==
    ASSUME NEW c \in Command
    PROVE  /\ c = [pc |-> c.pc, cmd |-> c.cmd, key |-> c.key, fd |-> c.fd,
                    todo |-> c.todo, failed |-> c.failed]
           /\ c.pc \in {"idle", "nodes"} \cup KeyPcs \cup RemovePcs
           /\ c.cmd \in {"up", "keygen"}
           /\ c.key \in Keys \cup {None}
           /\ c.fd \in Inodes \cup {None}
           /\ c.todo \in SUBSET Files
           /\ c.failed \in BOOLEAN
    BY DEF Command

LEMMA GotoBecomes ==
    ASSUME proc \in [Procs -> Command], NEW p \in Procs,
           NEW pc \in {"idle", "nodes"} \cup KeyPcs \cup RemovePcs,
           Goto(p, pc)
    PROVE  Becomes(p, pc, proc[p].cmd, proc[p].key, proc[p].fd, proc[p].todo)
           /\ proc'[p].failed = proc[p].failed
    BY SMT DEF Becomes, Goto, Command

LEMMA DoneBecomes ==
    ASSUME proc \in [Procs -> Command], NEW p \in Procs, Done(p)
    PROVE  Becomes(p, "idle", "up", None, None, {}) /\ proc'[p].failed = FALSE
    BY SMT DEF Becomes, Done, Idle, Command

LEMMA IdleCommand ==
    /\ Idle \in Command
    /\ Idle.pc = "idle" /\ Idle.cmd = "up" /\ Idle.key = None /\ Idle.fd = None
    /\ Idle.todo = {} /\ Idle.failed = FALSE
    BY DEF Idle, Command

LEMMA FailBecomes ==
    ASSUME proc \in [Procs -> Command], NEW p \in Procs, Fail(p)
    PROVE  Becomes(p, "idle", "up", None, None, {}) /\ proc'[p].failed = TRUE
<1> DEFINE c == [Idle EXCEPT !.failed = TRUE]
<1>1. /\ c \in Command
      /\ c.pc = "idle" /\ c.cmd = "up" /\ c.key = None /\ c.fd = None
      /\ c.todo = {} /\ c.failed = TRUE
    BY DEF Idle, Command
<1>2. proc' = [proc EXCEPT ![p] = c]
    BY DEF Fail
<1> HIDE DEF c
<1>3. QED
    BY <1>1, <1>2 DEF Becomes

LEMMA StartUpBecomes ==
    ASSUME proc \in [Procs -> Command], NEW p \in Procs, StartUp(p)
    PROVE  Becomes(p, "statPriv", "up", None, None, {})
<1> DEFINE c == [Idle EXCEPT !.pc = "statPriv"]
<1>1. /\ c \in Command
      /\ c.pc = "statPriv" /\ c.cmd = "up" /\ c.key = None /\ c.fd = None
      /\ c.todo = {}
    BY DEF Idle, Command, KeyPcs
<1>2. proc' = [proc EXCEPT ![p] = c]
    BY DEF StartUp
<1> HIDE DEF c
<1>3. QED
    BY <1>1, <1>2 DEF Becomes

LEMMA StartKeygenBecomes ==
    ASSUME proc \in [Procs -> Command], NEW p \in Procs, StartKeygen(p)
    PROVE  Becomes(p, "list", "keygen", None, None, {})
<1> DEFINE c == [Idle EXCEPT !.pc = "list", !.cmd = "keygen"]
<1>1. /\ c \in Command
      /\ c.pc = "list" /\ c.cmd = "keygen" /\ c.key = None /\ c.fd = None
      /\ c.todo = {}
    BY DEF Idle, Command, RemovePcs
<1>2. proc' = [proc EXCEPT ![p] = c]
    BY DEF StartKeygen
<1> HIDE DEF c
<1>3. QED
    BY <1>1, <1>2 DEF Becomes

LEMMA SomeIn ==
    ASSUME NEW S, S # {}
    PROVE  Some(S) \in S
    BY DEF Some

-----------------------------------------------------------------------------
(* Sound: types, and an inode has contents as long as something refers to it. *)

\* Sound without the history variables.
Core ==
    /\ dir \in BOOLEAN
    /\ entry \in [Files -> Entry]
    /\ data \in [Inodes -> Keys \cup {"empty", "free"}]
    /\ node \in [Nodes -> Node]
    /\ proc \in [Procs -> Command]
    /\ ~dir => entry = NoFiles
    /\ \A i \in Inodes : InUse(i) <=> data[i] # "free"
    /\ Separate
    /\ \A p \in Procs : Holds(p)

Ghosts == clean \in Procs \cup {None} /\ had \in BOOLEAN /\ torn \in BOOLEAN /\ renewed \in BOOLEAN

LEMMA SoundParts == Sound <=> Core /\ Ghosts
    BY DEF Sound, TypeOK, Core, Ghosts

LEMMA EntryFields ==
    ASSUME entry \in [Files -> Entry]
    PROVE  /\ entry["priv"] \in Entry /\ entry["pub"] \in Entry
           /\ \A f \in Files : entry[f] \in Entry
    BY DEF Files

LEMMA NodeFields ==
    ASSUME NEW m \in Node
    PROVE  /\ m.state \in {"absent", "stopped", "running"}
           /\ m.sees \in [Files -> Entry]
    BY DEF Node

\* What every command's own step leaves alone of the others.
LEMMA OthersHold ==
    ASSUME Core, NEW p \in Procs, NEW pc, NEW cmd, NEW key, NEW fd, NEW todo,
           Becomes(p, pc, cmd, key, fd, todo), Holds(p)'
    PROVE  \A q \in Procs : Holds(q)'
    BY DEF Becomes, Core, Holds

\* A step that changes no file.
LEMMA Quiet ==
    ASSUME Core, NEW p \in Procs, NEW pc, NEW cmd, NEW key, NEW fd, NEW todo,
           Becomes(p, pc, cmd, key, fd, todo), Holds(p)', fd = proc[p].fd,
           UNCHANGED <<entry, data, node>>, dir' \in BOOLEAN, ~dir' => entry = NoFiles
    PROVE  Core'
<1>1. \A i \in Inodes : InUse(i)' <=> InUse(i)
  <2>1. \A q \in Procs : proc'[q].fd = proc[q].fd
      BY DEF Becomes
  <2>2. QED
      BY <2>1 DEF InUse
<1>2. Separate'
    BY DEF Core, Separate
<1>3. \A q \in Procs : Holds(q)'
    BY OthersHold
<1>4. QED
    BY <1>1, <1>2, <1>3 DEF Core, Becomes

\* A step that only lets go of files.
LEMMA Shrinks ==
    ASSUME Core, Store(data), UNCHANGED dir,
           entry' \in [Files -> Entry], \A f \in Files : entry'[f] \in {entry[f], None},
           node' \in [Nodes -> Node],
           \A n \in Nodes : node'[n] = node[n] \/ (node'[n].state = "stopped" /\ node'[n].sees = NoFiles),
           proc' \in [Procs -> Command], \A q \in Procs : proc'[q].fd \in {proc[q].fd, None},
           \A q \in Procs : Holds(q)'
    PROVE  Core'
<1>1. \A i \in Inodes : InUse(i)' => InUse(i)
    BY KeysAssumption DEF InUse, NoFiles
<1>2. \A i \in Inodes : data'[i] = IF InUse(i)' THEN data[i] ELSE "free"
    BY DEF Store
<1>3. data' \in [Inodes -> Keys \cup {"empty", "free"}]
    BY <1>2 DEF Store, Core
<1>4. \A i \in Inodes : InUse(i)' <=> data'[i] # "free"
    BY <1>1, <1>2 DEF Core
<1>5. Separate'
  <2>1. entry'["priv"] \in Inodes => entry'["priv"] # entry'["pub"]
      BY KeysAssumption DEF Core, Separate, Files
  <2>2. \A n \in Nodes : node'[n].state # "running" => node'[n].sees = NoFiles
      BY DEF Core, Separate
  <2>3. QED
      BY <2>1, <2>2 DEF Separate, NoFiles
<1>6. ~dir' => entry' = NoFiles
  <2>1. SUFFICES ASSUME ~dir PROVE entry' = NoFiles
      OBVIOUS
  <2>2. \A f \in Files : entry'[f] = None
      BY <2>1 DEF Core, NoFiles
  <2>3. QED
      BY <2>2 DEF NoFiles
<1>7. QED
    BY <1>3, <1>4, <1>5, <1>6 DEF Core

\* A node starts: only directories are made, no inode gets a new user.
LEMMA Binds ==
    ASSUME Core, NEW n \in Nodes, Bind(n), Mounts(n) \/ UNCHANGED node, UNCHANGED data,
           proc' \in [Procs -> Command], \A q \in Procs : proc'[q].fd = proc[q].fd,
           \A q \in Procs : Holds(q)'
    PROVE  /\ Core'
           /\ \A f \in Files : entry'[f] = IF Present(f) THEN entry[f] ELSE "dir"
<1>1. entry' \in [Files -> Entry]
      /\ \A f \in Files : entry'[f] = IF Present(f) THEN entry[f] ELSE "dir"
    BY DEF Bind, Core, Entry
<1>2. \A f \in Files, i \in Inodes : entry'[f] = i <=> entry[f] = i
    BY <1>1, KeysAssumption DEF Present
<1>3. node' \in [Nodes -> Node]
      /\ \A m \in Nodes :
            \/ node'[m] = node[m]
            \/ m = n /\ node'[m].state = "running" /\ node'[m].sees = entry'
  <2>1. CASE UNCHANGED node
      BY <2>1 DEF Core
  <2>2. CASE Mounts(n)
    <3> DEFINE c == [state |-> "running", sees |-> entry']
    <3>1. c \in Node /\ c.state = "running" /\ c.sees = entry'
        BY <1>1 DEF Node
    <3>2. node' = [node EXCEPT ![n] = c]
        BY <2>2 DEF Mounts
    <3> HIDE DEF c
    <3>3. QED
        BY <3>1, <3>2 DEF Core
  <2>3. QED
      BY <2>1, <2>2
<1>4. \A m \in Nodes : m = n => node[m].sees = NoFiles
    BY DEF Core, Separate, Bind
<1>5. \A i \in Inodes : InUse(i)' <=> InUse(i)
  <2> SUFFICES ASSUME NEW i \in Inodes PROVE InUse(i)' <=> InUse(i)
      OBVIOUS
  <2>1. \A m \in Nodes, f \in Files : node[m].sees[f] = i => node'[m].sees[f] = i
      BY <1>3, <1>4, KeysAssumption DEF NoFiles
  <2>2. \A m \in Nodes, f \in Files :
            node'[m].sees[f] = i => node[m].sees[f] = i \/ entry[f] = i
      BY <1>2, <1>3
  <2>3. QED
      BY <1>2, <2>1, <2>2 DEF InUse
<1>6. Separate'
  <2>1. entry'["priv"] \in Inodes => entry'["priv"] # entry'["pub"]
      BY <1>2 DEF Core, Separate, Files
  <2>2. \A m \in Nodes : node'[m].state # "running" => node'[m].sees = NoFiles
      BY <1>3 DEF Core, Separate
  <2>3. QED
      BY <2>1, <2>2 DEF Separate, NoFiles
<1>7. QED
    BY <1>1, <1>3, <1>5, <1>6 DEF Core, Bind

\* A command writes its key into the file it has open, and closes it.
LEMMA Fills ==
    ASSUME Core, NEW p \in Procs, Fill(p), proc[p].pc \in {"writePriv", "writePub"},
           NEW pc, NEW cmd, NEW key, NEW todo,
           Becomes(p, pc, cmd, key, None, todo), Holds(p)'
    PROVE  /\ Core'
           /\ proc[p].fd \in Inodes
           /\ \A i \in Inodes :
                 data'[i] = IF ~InUse(i)' THEN "free"
                            ELSE IF i = proc[p].fd THEN proc[p].key ELSE data[i]
<1>1. proc[p].fd \in Inodes /\ proc[p].key \in Keys
    BY DEF Core, Holds, Command
<1>2. \A i \in Inodes : InUse(i)' => InUse(i)
    BY KeysAssumption DEF InUse, Becomes, Fill
<1>3. \A i \in Inodes :
         data'[i] = IF ~InUse(i)' THEN "free"
                    ELSE IF i = proc[p].fd THEN proc[p].key ELSE data[i]
    BY DEF Store, Fill, Core
<1>4. data' \in [Inodes -> Keys \cup {"empty", "free"}]
  <2>1. data' = [i \in Inodes |-> data'[i]]
      BY DEF Store, Fill
  <2>2. \A i \in Inodes : data'[i] \in Keys \cup {"empty", "free"}
      BY <1>1, <1>3 DEF Core
  <2>3. QED
      BY <2>1, <2>2
<1>5. \A i \in Inodes : InUse(i)' <=> data'[i] # "free"
    BY <1>1, <1>2, <1>3, KeysAssumption DEF Core
<1>6. Separate'
    BY DEF Core, Separate, Fill, NoFiles
<1>7. \A q \in Procs : Holds(q)'
    BY OthersHold
<1>8. QED
    BY <1>1, <1>3, <1>4, <1>5, <1>6, <1>7 DEF Core, Fill, Becomes

-----------------------------------------------------------------------------
(* The steps, one by one. *)

LEMMA BeginStep ==
    ASSUME Core, NEW p \in Procs, StartUp(p) \/ StartKeygen(p)
    PROVE  /\ Core'
           /\ proc[p].pc = "idle"
           /\ UNCHANGED <<dir, entry, data, node>>
           /\ \/ Becomes(p, "statPriv", "up", None, None, {})
              \/ Becomes(p, "list", "keygen", None, None, {})
<1>1. proc \in [Procs -> Command] /\ proc[p].fd = None
  <2>1. proc[p].pc = "idle"
      BY DEF StartUp, StartKeygen
  <2>2. QED
      BY <2>1 DEF Core, Holds
<1>2. CASE StartUp(p)
  <2>1. Becomes(p, "statPriv", "up", None, None, {})
      BY <1>1, <1>2, StartUpBecomes
  <2>2. Holds(p)'
      BY <2>1 DEF Becomes, Holds, RemovePcs
  <2>3. QED
      BY <1>1, <1>2, <2>1, <2>2, Quiet DEF StartUp, Core
<1>3. CASE StartKeygen(p)
  <2>1. Becomes(p, "list", "keygen", None, None, {})
      BY <1>1, <1>3, StartKeygenBecomes
  <2>2. Holds(p)'
      BY <2>1 DEF Becomes, Holds, RemovePcs
  <2>3. QED
      BY <1>1, <1>3, <2>1, <2>2, Quiet DEF StartKeygen, Core
<1>4. QED
    BY <1>2, <1>3

\* The steps that only look at the files and go on.
LEMMA GotoStep ==
    ASSUME Core, NEW p \in Procs, NEW pc \in {"statPriv", "statPub", "mkdir", "nodes"}, Goto(p, pc),
           proc[p].pc \notin {"writePriv", "writePub"}, pc = "nodes" => proc[p].cmd = "up",
           UNCHANGED <<entry, data, node>>, dir' \in BOOLEAN, ~dir' => entry = NoFiles
    PROVE  Core' /\ Becomes(p, pc, proc[p].cmd, proc[p].key, None, proc[p].todo)
<1>1. proc[p].fd = None
    BY DEF Core, Holds
<1>2. Becomes(p, pc, proc[p].cmd, proc[p].key, None, proc[p].todo)
    BY <1>1, GotoBecomes DEF Core, KeyPcs
<1>3. Holds(p)'
    BY <1>2 DEF Becomes, Holds, RemovePcs
<1>4. QED
    BY <1>1, <1>2, <1>3, Quiet

\* A command without a file open ends.
LEMMA EndStep ==
    ASSUME Core, NEW p \in Procs, Done(p) \/ Fail(p), proc[p].pc \notin {"writePriv", "writePub"},
           UNCHANGED <<entry, data, node>>, dir' \in BOOLEAN, ~dir' => entry = NoFiles
    PROVE  Core' /\ Becomes(p, "idle", "up", None, None, {})
<1>1. proc[p].fd = None
    BY DEF Core, Holds
<1>2. Becomes(p, "idle", "up", None, None, {})
    BY DoneBecomes, FailBecomes DEF Core
<1>3. Holds(p)'
    BY <1>2 DEF Becomes, Holds, RemovePcs
<1>4. QED
    BY <1>1, <1>2, <1>3, Quiet

LEMMA StatPrivStep ==
    ASSUME Core, NEW p \in Procs, StatPriv(p)
    PROVE  /\ Core'
           /\ Becomes(p, IF Present("priv") THEN "statPub" ELSE "mkdir",
                      proc[p].cmd, proc[p].key, None, proc[p].todo)
<1>1. /\ proc[p].pc = "statPriv"
      /\ Goto(p, IF Present("priv") THEN "statPub" ELSE "mkdir")
      /\ UNCHANGED <<dir, entry, data, node>>
    BY DEF StatPriv
<1>2. dir' \in BOOLEAN /\ (~dir' => entry = NoFiles)
    BY <1>1 DEF Core
<1>3. CASE Present("priv")
    BY <1>1, <1>2, <1>3, GotoStep
<1>4. CASE ~Present("priv")
    BY <1>1, <1>2, <1>4, GotoStep
<1>5. QED
    BY <1>3, <1>4

LEMMA StatPubStep ==
    ASSUME Core, NEW p \in Procs, StatPub(p)
    PROVE  /\ Core'
           /\ \/ ~Present("pub") /\ Becomes(p, "mkdir", proc[p].cmd, proc[p].key, None, proc[p].todo)
              \/ Present("pub") /\ proc[p].cmd = "up" /\ Becomes(p, "nodes", "up", proc[p].key, None, proc[p].todo)
              \/ Present("pub") /\ proc[p].cmd # "up" /\ Becomes(p, "idle", "up", None, None, {})
<1>1. proc[p].pc = "statPub" /\ UNCHANGED <<dir, entry, data, node>>
    BY DEF StatPub
<1>2. dir' \in BOOLEAN /\ (~dir' => entry = NoFiles)
    BY <1>1 DEF Core
<1>3. CASE ~Present("pub")
  <2>1. Goto(p, "mkdir")
      BY <1>3 DEF StatPub
  <2>2. QED
      BY <1>1, <1>2, <1>3, <2>1, GotoStep
<1>4. CASE Present("pub") /\ proc[p].cmd = "up"
  <2>1. Goto(p, "nodes")
      BY <1>4 DEF StatPub, KeysDone
  <2>2. Core' /\ Becomes(p, "nodes", proc[p].cmd, proc[p].key, None, proc[p].todo)
      BY <1>1, <1>2, <1>4, <2>1, GotoStep
  <2>3. QED
      BY <1>4, <2>2
<1>5. CASE Present("pub") /\ proc[p].cmd # "up"
  <2>1. Done(p)
      BY <1>5 DEF StatPub, KeysDone
  <2>2. QED
      BY <1>1, <1>2, <1>5, <2>1, EndStep
<1>6. QED
    BY <1>3, <1>4, <1>5

LEMMA MkdirStep ==
    ASSUME Core, NEW p \in Procs, Mkdir(p)
    PROVE  /\ Core'
           /\ UNCHANGED <<entry, data, node>>
           /\ \E key \in NewKeys : Becomes(p, "openPriv", proc[p].cmd, key, None, proc[p].todo)
<1> DEFINE key == Some(NewKeys)
<1>1. key \in NewKeys /\ key \in Keys
    BY SomeIn DEF Mkdir, NewKeys
<1> HIDE DEF key
<1>2. proc' = [proc EXCEPT ![p].pc = "openPriv", ![p].key = key]
    BY DEF Mkdir, key
<1>3. proc[p].pc = "mkdir" /\ proc[p].fd = None
    BY DEF Mkdir, Core, Holds
<1>4. Becomes(p, "openPriv", proc[p].cmd, key, None, proc[p].todo)
  <2> DEFINE c == [proc[p] EXCEPT !.pc = "openPriv", !.key = key]
  <2>1. proc[p] \in Command /\ proc \in [Procs -> Command]
      BY DEF Core
  <2>2. /\ c \in Command
        /\ c.pc = "openPriv" /\ c.cmd = proc[p].cmd /\ c.key = key
        /\ c.fd = proc[p].fd /\ c.todo = proc[p].todo
      BY <1>1, <2>1 DEF Command, KeyPcs
  <2>3. proc' = [proc EXCEPT ![p] = c]
      BY <1>2, <2>1
  <2> HIDE DEF c
  <2>4. QED
      BY <1>3, <2>1, <2>2, <2>3 DEF Becomes
<1>5. Holds(p)'
    BY <1>1, <1>4 DEF Becomes, Holds, RemovePcs
<1>6. QED
    BY <1>1, <1>3, <1>4, <1>5, Quiet DEF Mkdir

\* p opens f and gets inode i: the file's, or a new one.
Opens(p, f, pc, i) ==
    /\ entry[f] = i \/ (entry[f] = None /\ ~InUse(i))
    /\ entry' \in [Files -> Entry]
    /\ entry'[f] = i
    /\ \A g \in Files : g # f => entry'[g] = entry[g]
    /\ data' \in [Inodes -> Keys \cup {"empty", "free"}]
    /\ data'[i] = "empty"
    /\ \A j \in Inodes : j # i => data'[j] = data[j]
    /\ UNCHANGED <<dir, node>>
    /\ Becomes(p, pc, proc[p].cmd, proc[p].key, i, proc[p].todo)

LEMMA OpensCore ==
    ASSUME Core, NEW p \in Procs, NEW f \in Files, NEW pc \in {"writePriv", "writePub"},
           proc[p].pc \in {"openPriv", "openPub"}, NEW i \in Inodes, Opens(p, f, pc, i), dir
    PROVE  Core'
<1>1. proc[p].fd = None /\ proc[p].key \in Keys
    BY DEF Core, Holds
<1>2. Holds(p)'
    BY <1>1, KeysAssumption DEF Opens, Becomes, Holds, RemovePcs
<1>3. \A q \in Procs : Holds(q)'
    BY <1>2, OthersHold DEF Opens
<1>4. \A j \in Inodes : InUse(j)' <=> InUse(j) \/ j = i
  <2> SUFFICES ASSUME NEW j \in Inodes PROVE InUse(j)' <=> InUse(j) \/ j = i
      OBVIOUS
  <2>1. (\E g \in Files : entry'[g] = j) <=> (\E g \in Files : entry[g] = j) \/ j = i
      BY KeysAssumption DEF Opens
  <2>2. (\E q \in Procs : proc'[q].fd = j) <=> (\E q \in Procs : proc[q].fd = j) \/ j = i
      BY <1>1, KeysAssumption DEF Opens, Becomes
  <2>3. node' = node
      BY DEF Opens
  <2>4. QED
      BY <2>1, <2>2, <2>3 DEF InUse
<1>5. \A j \in Inodes : InUse(j)' <=> data'[j] # "free"
    BY <1>4 DEF Opens, Core
<1>6. Separate'
  <2>1. entry'["priv"] \in Inodes => entry'["priv"] # entry'["pub"]
      BY DEF Core, Separate, Opens, InUse, Files
  <2>2. \A n \in Nodes : node'[n].state # "running" => node'[n].sees = NoFiles
      BY DEF Core, Separate, Opens
  <2>3. QED
      BY <2>1, <2>2 DEF Separate, NoFiles
<1>7. QED
    BY <1>3, <1>5, <1>6 DEF Core, Opens, Becomes

LEMMA OpenStep ==
    ASSUME Core, NEW p \in Procs, NEW f \in Files, NEW pc \in {"writePriv", "writePub"},
           proc[p].pc \in {"openPriv", "openPub"}, Open(p, f, pc)
    PROVE  /\ Core'
           /\ UNCHANGED <<dir, node>>
           /\ \/ \E i \in Inodes : Opens(p, f, pc, i)
              \/ /\ ~dir \/ entry[f] = "dir"
                 /\ Becomes(p, "idle", "up", None, None, {}) /\ proc'[p].failed
                 /\ UNCHANGED <<entry, data>>
<1>1. UNCHANGED <<dir, node>>
    BY DEF Open
<1>2. CASE /\ dir /\ entry[f] = None
           /\ FreeInodes # {}
           /\ LET i == Some(FreeInodes) IN
              /\ entry' = [entry EXCEPT ![f] = i]
              /\ data' = [data EXCEPT ![i] = "empty"]
              /\ proc' = [proc EXCEPT ![p].pc = pc, ![p].fd = i]
  <2> DEFINE i == Some(FreeInodes)
  <2>1. i \in Inodes /\ ~InUse(i)
      BY <1>2, SomeIn DEF FreeInodes
  <2> HIDE DEF i
  <2>2. /\ entry' = [entry EXCEPT ![f] = i]
        /\ data' = [data EXCEPT ![i] = "empty"]
        /\ proc' = [proc EXCEPT ![p].pc = pc, ![p].fd = i]
      BY <1>2 DEF i
  <2>3. Becomes(p, pc, proc[p].cmd, proc[p].key, i, proc[p].todo)
      BY <2>1, <2>2 DEF Becomes, Core, Command, KeyPcs
  <2>4. Opens(p, f, pc, i)
      BY <1>1, <1>2, <2>1, <2>2, <2>3 DEF Opens, Core, Entry
  <2>5. QED
      BY <1>1, <1>2, <2>1, <2>4, OpensCore
<1>3. CASE /\ entry[f] \in Inodes
           /\ data' = [data EXCEPT ![entry[f]] = "empty"]
           /\ proc' = [proc EXCEPT ![p].pc = pc, ![p].fd = entry[f]]
           /\ UNCHANGED entry
  <2> DEFINE i == entry[f]
  <2>1. Becomes(p, pc, proc[p].cmd, proc[p].key, i, proc[p].todo)
      BY <1>3 DEF Becomes, Core, Command, KeyPcs
  <2>2. Opens(p, f, pc, i)
      BY <1>1, <1>3, <2>1 DEF Opens, Core
  <2>3. dir
      BY <1>3, KeysAssumption DEF Core, NoFiles
  <2>4. QED
      BY <1>1, <1>3, <2>2, <2>3, OpensCore
<1>4. CASE (~dir \/ entry[f] = "dir") /\ Fail(p) /\ UNCHANGED <<entry, data>>
  <2>1. dir' \in BOOLEAN /\ (~dir' => entry = NoFiles)
      BY <1>1 DEF Core
  <2>2. Core' /\ Becomes(p, "idle", "up", None, None, {})
      BY <1>1, <1>4, <2>1, EndStep
  <2>3. QED
      BY <1>1, <1>4, <2>2, FailBecomes DEF Core
<1>5. QED
    BY <1>2, <1>3, <1>4 DEF Open

\* i, which p has open, has its key; a file that nothing refers to any more is gone.
Filled(p) ==
    /\ proc[p].fd \in Inodes
    /\ \A i \in Inodes :
          data'[i] = IF ~InUse(i)' THEN "free"
                     ELSE IF i = proc[p].fd THEN proc[p].key ELSE data[i]
    /\ UNCHANGED <<dir, entry, node>>

LEMMA WritePrivStep ==
    ASSUME Core, NEW p \in Procs, WritePriv(p)
    PROVE  /\ Core'
           /\ Filled(p)
           /\ Becomes(p, "openPub", proc[p].cmd, proc[p].key, None, proc[p].todo)
<1> DEFINE c == [proc[p] EXCEPT !.pc = "openPub", !.fd = None]
<1>1. proc[p] \in Command /\ proc \in [Procs -> Command]
      /\ proc[p].pc = "writePriv" /\ proc[p].key \in Keys
    BY DEF Core, Holds, WritePriv
<1>2. /\ c \in Command
      /\ c.pc = "openPub" /\ c.cmd = proc[p].cmd /\ c.key = proc[p].key
      /\ c.fd = None /\ c.todo = proc[p].todo
    BY <1>1 DEF Command, KeyPcs
<1>3. proc' = [proc EXCEPT ![p] = c]
    BY <1>1 DEF WritePriv
<1> HIDE DEF c
<1>4. Becomes(p, "openPub", proc[p].cmd, proc[p].key, None, proc[p].todo)
    BY <1>1, <1>2, <1>3 DEF Becomes
<1>5. Holds(p)'
    BY <1>1, <1>4 DEF Becomes, Holds, RemovePcs
<1>6. Fill(p)
    BY DEF WritePriv
<1>7. QED
    BY <1>1, <1>4, <1>5, <1>6, Fills DEF Filled, Fill

LEMMA WritePubStep ==
    ASSUME Core, NEW p \in Procs, WritePub(p)
    PROVE  /\ Core'
           /\ Filled(p)
           /\ \/ proc[p].cmd = "up" /\ Becomes(p, "nodes", "up", None, None, proc[p].todo)
              \/ proc[p].cmd # "up" /\ Becomes(p, "idle", "up", None, None, {})
<1>1. proc[p] \in Command /\ proc \in [Procs -> Command]
      /\ proc[p].pc = "writePub" /\ proc[p].key \in Keys
    BY DEF Core, Holds, WritePub
<1>2. Fill(p)
    BY DEF WritePub
<1>3. CASE proc[p].cmd = "up"
  <2> DEFINE c == [proc[p] EXCEPT !.pc = "nodes", !.fd = None, !.key = None]
  <2>1. /\ c \in Command
        /\ c.pc = "nodes" /\ c.cmd = "up" /\ c.key = None
        /\ c.fd = None /\ c.todo = proc[p].todo
      BY <1>1, <1>3 DEF Command
  <2>2. proc' = [proc EXCEPT ![p] = c]
      BY <1>1, <1>3 DEF WritePub
  <2> HIDE DEF c
  <2>3. Becomes(p, "nodes", "up", None, None, proc[p].todo)
      BY <1>1, <2>1, <2>2 DEF Becomes
  <2>4. Holds(p)'
      BY <1>1, <2>3 DEF Becomes, Holds, RemovePcs
  <2>5. QED
      BY <1>1, <1>2, <1>3, <2>3, <2>4, Fills DEF Filled, Fill
<1>4. CASE proc[p].cmd # "up"
  <2>1. Becomes(p, "idle", "up", None, None, {})
      BY <1>1, <1>4, DoneBecomes DEF WritePub
  <2>2. Holds(p)'
      BY <1>1, <2>1 DEF Becomes, Holds, RemovePcs
  <2>3. QED
      BY <1>1, <1>2, <1>4, <2>1, <2>2, Fills DEF Filled, Fill
<1>5. QED
    BY <1>3, <1>4

LEMMA ListDirStep ==
    ASSUME Core, NEW p \in Procs, ListDir(p)
    PROVE  /\ Core'
           /\ UNCHANGED <<dir, entry, data, node>>
           /\ Becomes(p, IF dir THEN "unlink" ELSE "statPriv", proc[p].cmd, proc[p].key, None,
                      {f \in Files : Present(f)})
<1> DEFINE c == [proc[p] EXCEPT !.pc = IF dir THEN "unlink" ELSE "statPriv",
                                !.todo = {f \in Files : Present(f)}]
<1>1. proc[p] \in Command /\ proc \in [Procs -> Command] /\ dir \in BOOLEAN
      /\ proc[p].pc = "list" /\ proc[p].fd = None /\ proc[p].cmd = "keygen"
    BY DEF Core, Holds, ListDir, RemovePcs
<1>2. /\ c \in Command
      /\ c.pc = IF dir THEN "unlink" ELSE "statPriv"
      /\ c.cmd = proc[p].cmd /\ c.key = proc[p].key
      /\ c.fd = None /\ c.todo = {f \in Files : Present(f)}
    BY <1>1 DEF Command, KeyPcs, RemovePcs
<1>3. proc' = [proc EXCEPT ![p] = c]
    BY <1>1 DEF ListDir
<1> HIDE DEF c
<1>4. Becomes(p, IF dir THEN "unlink" ELSE "statPriv", proc[p].cmd, proc[p].key, None,
              {f \in Files : Present(f)})
    BY <1>1, <1>2, <1>3 DEF Becomes
<1>5. Holds(p)'
    BY <1>1, <1>4 DEF Becomes, Holds, RemovePcs
<1>6. QED
    BY <1>1, <1>4, <1>5, Quiet DEF ListDir, Core

LEMMA UnlinkStep ==
    ASSUME Core, NEW p \in Procs, Unlink(p)
    PROVE  /\ Core'
           /\ UNCHANGED <<dir, node>>
           /\ \A i \in Inodes : data'[i] = IF InUse(i)' THEN data[i] ELSE "free"
           /\ \/ \E f \in proc[p].todo :
                    /\ entry'[f] = None
                    /\ \A g \in Files : g # f => entry'[g] = entry[g]
                    /\ Becomes(p, "unlink", proc[p].cmd, proc[p].key, None, proc[p].todo \ {f})
              \/ /\ proc[p].todo = {}
                 /\ UNCHANGED entry
                 /\ Becomes(p, "rmdir", proc[p].cmd, proc[p].key, None, proc[p].todo)
<1>1. proc[p] \in Command /\ proc \in [Procs -> Command]
      /\ proc[p].pc = "unlink" /\ proc[p].fd = None /\ proc[p].cmd = "keygen"
      /\ proc[p].todo \subseteq Files
    BY DEF Core, Holds, Unlink, RemovePcs, Command
<1>2. Store(data) /\ UNCHANGED <<dir, node>>
    BY DEF Unlink
<1>3. ASSUME NEW f \in proc[p].todo,
             entry' = [entry EXCEPT ![f] = None],
             proc' = [proc EXCEPT ![p].todo = @ \ {f}]
      PROVE  /\ Core'
             /\ entry'[f] = None
             /\ \A g \in Files : g # f => entry'[g] = entry[g]
             /\ Becomes(p, "unlink", proc[p].cmd, proc[p].key, None, proc[p].todo \ {f})
  <2>1. f \in Files /\ entry' \in [Files -> Entry] /\ entry'[f] = None
        /\ \A g \in Files : g # f => entry'[g] = entry[g]
      BY <1>1, <1>3 DEF Core, Entry
  <2> DEFINE c == [proc[p] EXCEPT !.todo = proc[p].todo \ {f}]
  <2>2. /\ c \in Command
        /\ c.pc = "unlink" /\ c.cmd = proc[p].cmd /\ c.key = proc[p].key
        /\ c.fd = None /\ c.todo = proc[p].todo \ {f}
      BY <1>1 DEF Command
  <2>3. proc' = [proc EXCEPT ![p] = c]
      BY <1>1, <1>3
  <2> HIDE DEF c
  <2>4. Becomes(p, "unlink", proc[p].cmd, proc[p].key, None, proc[p].todo \ {f})
      BY <1>1, <2>2, <2>3 DEF Becomes
  <2>5. Holds(p)'
      BY <1>1, <2>4 DEF Becomes, Holds, RemovePcs
  <2>6. \A q \in Procs : Holds(q)'
      BY <2>4, <2>5, OthersHold
  <2>7. \A q \in Procs : proc'[q].fd \in {proc[q].fd, None}
      BY <2>4 DEF Becomes
  <2>8. Core'
      BY <1>2, <2>1, <2>4, <2>6, <2>7, Shrinks DEF Core, Becomes
  <2>9. QED
      BY <2>1, <2>4, <2>8
<1>4. CASE proc[p].todo = {} /\ Goto(p, "rmdir") /\ UNCHANGED entry
  <2>1. Becomes(p, "rmdir", proc[p].cmd, proc[p].key, None, proc[p].todo)
      BY <1>1, <1>4, GotoBecomes DEF RemovePcs
  <2>2. Holds(p)'
      BY <1>1, <2>1 DEF Becomes, Holds, RemovePcs
  <2>3. \A q \in Procs : Holds(q)'
      BY <2>1, <2>2, OthersHold
  <2>4. \A q \in Procs : proc'[q].fd \in {proc[q].fd, None}
      BY <2>1 DEF Becomes
  <2>5. Core'
      BY <1>2, <1>4, <2>1, <2>3, <2>4, Shrinks DEF Core, Becomes
  <2>6. QED
      BY <1>2, <1>4, <2>1, <2>5 DEF Store
<1>5. CASE \E f \in proc[p].todo :
             /\ entry' = [entry EXCEPT ![f] = None]
             /\ proc' = [proc EXCEPT ![p].todo = @ \ {f}]
    BY <1>2, <1>3, <1>5 DEF Store
<1>6. QED
    BY <1>4, <1>5 DEF Unlink

LEMMA RmdirStep ==
    ASSUME Core, NEW p \in Procs, Rmdir(p)
    PROVE  /\ Core'
           /\ UNCHANGED <<entry, data, node>>
           /\ \/ (\E f \in Files : Present(f)) /\ Becomes(p, "idle", "up", None, None, {})
                 /\ proc'[p].failed
              \/ (\A f \in Files : ~Present(f))
                 /\ Becomes(p, "statPriv", proc[p].cmd, proc[p].key, None, proc[p].todo)
<1>1. proc[p].pc = "rmdir" /\ UNCHANGED <<entry, data, node>> /\ proc \in [Procs -> Command]
    BY DEF Rmdir, Core
<1>2. CASE \E f \in Files : Present(f)
  <2>1. Fail(p) /\ UNCHANGED dir
      BY <1>2 DEF Rmdir
  <2>2. Core' /\ Becomes(p, "idle", "up", None, None, {})
      BY <1>1, <2>1, EndStep DEF Core
  <2>3. QED
      BY <1>1, <1>2, <2>1, <2>2, FailBecomes
<1>3. CASE \A f \in Files : ~Present(f)
  <2>1. dir' = FALSE /\ Goto(p, "statPriv")
      BY <1>3 DEF Rmdir
  <2>2. entry = NoFiles
      BY <1>3 DEF Core, NoFiles, Present
  <2>3. QED
      BY <1>1, <1>3, <2>1, <2>2, GotoStep
<1>4. QED
    BY <1>2, <1>3

\* A node mounts what the directory then has, or is refused.
Bound ==
    /\ UNCHANGED data
    /\ \A f \in Files : entry'[f] = IF Present(f) THEN entry[f] ELSE "dir"
    /\ \E n \in Nodes :
          \/ /\ \A m \in Nodes : m # n => node'[m] = node[m]
             /\ node'[n].state = "running" /\ node'[n].sees = entry'
          \/ UNCHANGED node /\ \E f \in Files : entry'[f] = "dir"

LEMMA BoundAt ==
    ASSUME Core, NEW n \in Nodes, Bind(n), Mounts(n) \/ Refused, UNCHANGED data,
           \A f \in Files : entry'[f] = IF Present(f) THEN entry[f] ELSE "dir"
    PROVE  Bound
<1>1. CASE Mounts(n)
  <2> DEFINE c == [state |-> "running", sees |-> entry']
  <2>1. c.state = "running" /\ c.sees = entry' /\ node' = [node EXCEPT ![n] = c]
      BY <1>1 DEF Mounts
  <2> HIDE DEF c
  <2>2. /\ \A m \in Nodes : m # n => node'[m] = node[m]
        /\ node'[n].state = "running" /\ node'[n].sees = entry'
      BY <2>1 DEF Core
  <2>3. QED
      BY <2>2 DEF Bound
<1>2. CASE Refused
    BY <1>2 DEF Bound, Refused
<1>3. QED
    BY <1>1, <1>2

LEMMA UpNodeStep ==
    ASSUME Core, NEW p \in Procs, UpNode(p)
    PROVE  /\ Core'
           /\ proc[p].pc = "nodes" /\ proc[p].cmd = "up"
           /\ UNCHANGED data
           /\ \/ Bound /\ UNCHANGED proc /\ (\E n \in Nodes : node[n].state # "running")
              \/ Bound /\ Becomes(p, "idle", "up", None, None, {}) /\ proc'[p].failed
                 /\ \E f \in Files : entry'[f] = "dir"
              \/ UNCHANGED files /\ UNCHANGED node /\ Becomes(p, "idle", "up", None, None, {})
<1>1. proc[p].pc = "nodes" /\ proc[p].cmd = "up" /\ UNCHANGED data /\ proc \in [Procs -> Command]
      /\ proc[p].fd = None /\ \A q \in Procs : Holds(q)
    BY DEF UpNode, Core, Holds
<1>2. CASE \E n \in Nodes : Bind(n) /\ ((Mounts(n) /\ UNCHANGED proc) \/ (Refused /\ Fail(p)))
  <2>1. PICK n \in Nodes : Bind(n) /\ ((Mounts(n) /\ UNCHANGED proc) \/ (Refused /\ Fail(p)))
      BY <1>2
  <2>2. CASE Mounts(n) /\ UNCHANGED proc
    <3>1. \A q \in Procs : proc'[q].fd = proc[q].fd /\ Holds(q)'
        BY <1>1, <2>2 DEF Holds
    <3>2. Core' /\ \A f \in Files : entry'[f] = IF Present(f) THEN entry[f] ELSE "dir"
        BY <1>1, <2>1, <2>2, <3>1, Binds
    <3>3. Bound /\ node[n].state # "running"
        BY <1>1, <2>1, <2>2, <3>2, BoundAt DEF Bind
    <3>4. QED
        BY <1>1, <2>2, <3>2, <3>3
  <2>3. CASE Refused /\ Fail(p)
    <3>1. Becomes(p, "idle", "up", None, None, {}) /\ proc'[p].failed
        BY <1>1, <2>3, FailBecomes
    <3>2. Holds(p)'
        BY <1>1, <3>1 DEF Becomes, Holds, RemovePcs
    <3>3. \A q \in Procs : Holds(q)'
        BY <3>1, <3>2, OthersHold
    <3>4. \A q \in Procs : proc'[q].fd = proc[q].fd
        BY <1>1, <3>1 DEF Becomes
    <3>5. Core' /\ \A f \in Files : entry'[f] = IF Present(f) THEN entry[f] ELSE "dir"
        BY <1>1, <2>1, <2>3, <3>1, <3>3, <3>4, Binds DEF Refused, Becomes
    <3>6. Bound
        BY <1>1, <2>1, <2>3, <3>5, BoundAt
    <3>7. QED
        BY <1>1, <2>3, <3>1, <3>5, <3>6 DEF Refused
  <2>4. QED
      BY <2>1, <2>2, <2>3
<1>3. CASE Done(p) /\ UNCHANGED <<dir, entry, node>>
    BY <1>1, <1>3, EndStep DEF files, Core
<1>4. QED
    BY <1>2, <1>3 DEF UpNode

\* The steps nobody of the terminals takes, and a kill: they bind, or let go.
Frees ==
    /\ UNCHANGED dir
    /\ \A i \in Inodes : data'[i] = IF InUse(i)' THEN data[i] ELSE "free"
    /\ \A f \in Files : entry'[f] \in {entry[f], None}
    /\ \A n \in Nodes : node'[n] = node[n] \/ node'[n].state = "stopped"
    /\ \/ UNCHANGED proc
       \/ UNCHANGED <<entry, node>>
          /\ \E p \in Procs : Becomes(p, "idle", "up", None, None, {})

LEMMA NodeStartsStep ==
    ASSUME Core, NEW n \in Nodes, NodeStarts(n)
    PROVE  Core' /\ UNCHANGED proc /\ Bound
<1>1. Bind(n) /\ (Mounts(n) \/ Refused) /\ UNCHANGED <<data, proc>> /\ proc' \in [Procs -> Command]
    BY DEF NodeStarts, Core
<1>2. \A q \in Procs : proc'[q].fd = proc[q].fd /\ Holds(q)'
    BY <1>1 DEF Holds, Core
<1>3. Core' /\ \A f \in Files : entry'[f] = IF Present(f) THEN entry[f] ELSE "dir"
    BY <1>1, <1>2, Binds DEF Refused
<1>4. QED
    BY <1>1, <1>3, BoundAt

LEMMA NodeStopsStep ==
    ASSUME Core, NEW n \in Nodes, NodeStops(n)
    PROVE  Core' /\ UNCHANGED <<entry, proc>> /\ Frees
<1> DEFINE c == [state |-> "stopped", sees |-> NoFiles]
<1>1. c \in Node /\ c.state = "stopped" /\ c.sees = NoFiles
    BY DEF Node, NoFiles, Entry
<1>2. node' = [node EXCEPT ![n] = c] /\ UNCHANGED <<dir, entry, proc>> /\ Store(data)
    BY DEF NodeStops
<1> HIDE DEF c
<1>3. node' \in [Nodes -> Node]
      /\ \A m \in Nodes : node'[m] = node[m] \/ (node'[m].state = "stopped" /\ node'[m].sees = NoFiles)
    BY <1>1, <1>2 DEF Core
<1>4. \A q \in Procs : Holds(q)'
    BY <1>2 DEF Core, Holds
<1>5. Core'
    BY <1>2, <1>3, <1>4, Shrinks DEF Core
<1>6. QED
    BY <1>2, <1>3, <1>5 DEF Frees, Store

LEMMA UserRemovesStep ==
    ASSUME Core, NEW f \in Removable, UserRemoves(f)
    PROVE  Core' /\ UNCHANGED <<node, proc>> /\ Frees
<1>1. f \in Files /\ entry' = [entry EXCEPT ![f] = None] /\ UNCHANGED <<dir, node, proc>> /\ Store(data)
    BY KeysAssumption DEF UserRemoves
<1>2. entry' \in [Files -> Entry] /\ \A g \in Files : entry'[g] \in {entry[g], None}
    BY <1>1 DEF Core, Entry
<1>3. \A q \in Procs : Holds(q)'
    BY <1>1 DEF Core, Holds
<1>4. Core'
    BY <1>1, <1>2, <1>3, Shrinks DEF Core
<1>5. QED
    BY <1>1, <1>2, <1>4 DEF Frees, Store

LEMMA KilledStep ==
    ASSUME Core, NEW p \in Killable, Killed(p)
    PROVE  /\ Core' /\ Frees
           /\ UNCHANGED <<dir, entry, node>>
           /\ p \in Procs /\ proc[p].pc # "idle"
           /\ Becomes(p, "idle", "up", None, None, {})
<1>1. p \in Procs /\ Fail(p) /\ UNCHANGED <<dir, entry, node>> /\ Store(data) /\ proc[p].pc # "idle"
    BY KeysAssumption DEF Killed
<1>2. Becomes(p, "idle", "up", None, None, {})
    BY <1>1, FailBecomes DEF Core
<1>3. Holds(p)'
    BY <1>1, <1>2 DEF Becomes, Holds, RemovePcs
<1>4. \A q \in Procs : Holds(q)'
    BY <1>1, <1>2, <1>3, OthersHold
<1>5. \A q \in Procs : proc'[q].fd \in {proc[q].fd, None}
    BY <1>2 DEF Becomes
<1>6. Core'
    BY <1>1, <1>2, <1>4, <1>5, Shrinks DEF Core, Becomes
<1>7. QED
    BY <1>1, <1>2, <1>6 DEF Frees, Store

-----------------------------------------------------------------------------
LEMMA InitSound == Init => Sound
<1> SUFFICES ASSUME Init PROVE Sound
    OBVIOUS
<1>1. entry \in [Files -> Entry] /\ node \in [Nodes -> Node] /\ proc \in [Procs -> Command]
      /\ data \in [Inodes -> Keys \cup {"empty", "free"}]
    BY IdleCommand DEF Init, NoFiles, Entry, Node
<1>2. \A f \in Files : entry[f] = None
    BY DEF Init, NoFiles
<1>3. \A n \in Nodes : node[n].sees = NoFiles /\ \A f \in Files : node[n].sees[f] = None
    BY DEF Init, NoFiles
<1>4. \A p \in Procs : proc[p].fd = None /\ proc[p].pc = "idle"
    BY IdleCommand DEF Init
<1>5. \A i \in Inodes : ~InUse(i) /\ data[i] = "free"
    BY <1>2, <1>3, <1>4, KeysAssumption DEF InUse, Init
<1>6. Separate
    BY <1>2, <1>3, KeysAssumption DEF Separate, Files
<1>7. \A p \in Procs : Holds(p)
    BY <1>4 DEF Holds, RemovePcs
<1>8. QED
    BY <1>1, <1>5, <1>6, <1>7, SoundParts DEF Core, Ghosts, Init

LEMMA CoreStep == Core /\ Next => Core'
<1> SUFFICES ASSUME Core, Next PROVE Core'
    OBVIOUS
<1>1. CASE \E p \in Procs : Begin(p)
    BY <1>1, BeginStep DEF Begin
<1>2. CASE \E p \in Procs : Continue(p)
  <2>1. PICK p \in Procs : EnsureStep(p) \/ RemoveStep(p) \/ UpNode(p)
      BY <1>2 DEF Continue
  <2>2. CASE EnsureStep(p)
    <3>1. CASE OpenPriv(p)
        BY <3>1, OpenStep DEF OpenPriv, Files
    <3>2. CASE OpenPub(p)
        BY <3>2, OpenStep DEF OpenPub, Files
    <3>3. QED
        BY <2>2, <3>1, <3>2, StatPrivStep, StatPubStep, MkdirStep, WritePrivStep, WritePubStep
           DEF EnsureStep
  <2>3. CASE RemoveStep(p)
      BY <2>3, ListDirStep, UnlinkStep, RmdirStep DEF RemoveStep
  <2>4. QED
      BY <2>1, <2>2, <2>3, UpNodeStep
<1>3. CASE Others
    BY <1>3, NodeStartsStep, NodeStopsStep, UserRemovesStep, KilledStep DEF Others
<1>4. QED
    BY <1>1, <1>2, <1>3 DEF Next

LEMMA GhostsStep == Core /\ Ghosts /\ Next => Ghosts'
<1> SUFFICES ASSUME Core, Ghosts, Next PROVE Ghosts'
    OBVIOUS
<1>1. CASE \E p \in Procs : Begin(p)
    BY <1>1 DEF Begin, Ghosts
<1>2. CASE \E p \in Procs : Continue(p)
    BY <1>2 DEF Continue, Ghosts
<1>3. CASE Others
    BY <1>3 DEF Others, Ghosts
<1>4. QED
    BY <1>1, <1>2, <1>3 DEF Next

LEMMA SoundStep == Sound /\ [Next]_vars => Sound'
<1> SUFFICES ASSUME Sound, [Next]_vars PROVE Sound'
    OBVIOUS
<1>1. CASE Next
  <2>1. Core' /\ Ghosts'
      BY <1>1, CoreStep, GhostsStep, SoundParts
  <2>2. QED
      BY <2>1 DEF Sound, TypeOK, Core, Ghosts
<1>2. CASE UNCHANGED vars
    BY <1>2 DEF vars, Sound, TypeOK, Separate, Holds, InUse
<1>3. QED
    BY <1>1, <1>2

-----------------------------------------------------------------------------
(* Who runs: Alone, Told, and an up that found both files. *)

\* Where a command may go on from here.
Moves(p) ==
    LET pc == proc[p].pc
        next == proc'[p].pc
    IN  /\ next \in {"statPriv"} => pc \in {"list", "rmdir"}
        /\ next \in {"statPub"} => pc = "statPriv"
        /\ next = "mkdir" => pc \in {"statPriv", "statPub"}
        /\ next = "openPriv" => pc = "mkdir"
        /\ next = "writePriv" => pc = "openPriv"
        /\ next = "openPub" => pc = "writePriv"
        /\ next = "writePub" => pc = "openPub"
        /\ next = "nodes" => pc \in {"statPub", "writePub", "nodes"}
        /\ next # "list"
        /\ next = "unlink" => pc \in {"list", "unlink"}
        /\ next = "rmdir" => pc = "unlink"

\* A command's own step: it goes on from where it was, and nobody else does anything.
LEMMA ContinueFrame ==
    ASSUME Core, NEW p \in Procs, EnsureStep(p) \/ RemoveStep(p) \/ UpNode(p)
    PROVE  /\ proc[p].pc # "idle"
           /\ \A q \in Procs : q # p => proc'[q] = proc[q]
           /\ proc'[p].pc # "idle" => proc'[p].cmd = proc[p].cmd /\ Moves(p)
<1>1. CASE StatPriv(p)
    BY <1>1, StatPrivStep DEF StatPriv, Becomes, Moves
<1>2. CASE StatPub(p)
    BY <1>2, StatPubStep DEF StatPub, Becomes, Moves
<1>3. CASE Mkdir(p)
    BY <1>3, MkdirStep DEF Mkdir, Becomes, Moves
<1>4. CASE OpenPriv(p)
    BY <1>4, OpenStep DEF OpenPriv, Opens, Files, Becomes, Moves
<1>5. CASE WritePriv(p)
    BY <1>5, WritePrivStep DEF WritePriv, Becomes, Moves
<1>6. CASE OpenPub(p)
    BY <1>6, OpenStep DEF OpenPub, Opens, Files, Becomes, Moves
<1>7. CASE WritePub(p)
    BY <1>7, WritePubStep DEF WritePub, Becomes, Moves
<1>8. CASE ListDir(p)
  <2>1. /\ proc[p].pc = "list"
        /\ \A q \in Procs : q # p => proc'[q] = proc[q]
        /\ proc'[p].cmd = proc[p].cmd
        /\ proc'[p].pc \in {"unlink", "statPriv"}
      BY <1>8, ListDirStep DEF ListDir, Becomes
  <2>2. QED
      BY <2>1 DEF Moves
<1>9. CASE Unlink(p)
    BY <1>9, UnlinkStep DEF Unlink, Becomes, Moves
<1>10. CASE Rmdir(p)
    BY <1>10, RmdirStep DEF Rmdir, Becomes, Moves
<1>11. CASE UpNode(p)
    BY <1>11, UpNodeStep DEF Becomes, Moves
<1>12. QED
    BY <1>1, <1>2, <1>3, <1>4, <1>5, <1>6, <1>7, <1>8, <1>9, <1>10, <1>11
       DEF EnsureStep, RemoveStep

LEMMA OthersFrame ==
    ASSUME Core, Others
    PROVE  \A q \in Procs : proc'[q] = proc[q] \/ (proc'[q].pc = "idle" /\ proc'[q].cmd = "up")
<1>1. CASE \E n \in Nodes : NodeStarts(n) \/ NodeStops(n)
    BY <1>1, NodeStartsStep, NodeStopsStep
<1>2. CASE \E f \in Removable : UserRemoves(f)
    BY <1>2, UserRemovesStep
<1>3. CASE \E p \in Killable : Killed(p)
    BY <1>3, KilledStep DEF Becomes
<1>4. QED
    BY <1>1, <1>2, <1>3 DEF Others

LEMMA InitAlone == Init => Alone /\ Told /\ Keeping
    BY IdleCommand, KeysAssumption DEF Init, Alone, Told, Keeping

LEMMA AloneStep == Core /\ Ghosts /\ Alone /\ Next => Alone'
<1> SUFFICES ASSUME Core, Ghosts, Alone, Next PROVE Alone'
    OBVIOUS
<1>1. ASSUME NEW p \in Procs, Begin(p) PROVE Alone'
  <2>1. proc'[p].pc # "idle" /\ \A q \in Procs : q # p => proc'[q] = proc[q]
      BY <1>1, BeginStep DEF Begin, Becomes
  <2>2. clean' = (IF AllIdle THEN p ELSE None) /\ (had' => AllIdle)
      BY <1>1 DEF Begin
  <2>3. QED
      BY <2>1, <2>2, KeysAssumption DEF Alone, Only, AllIdle
<1>2. ASSUME NEW p \in Procs, Continue(p) PROVE Alone'
  <2>1. \A q \in Procs : q # p => proc'[q] = proc[q]
      BY <1>2, ContinueFrame DEF Continue
  <2>2. clean' = (IF clean = p /\ ~(proc'[p].pc = "idle") THEN p ELSE None) /\ (had' => clean' # None)
      BY <1>2 DEF Continue
  <2>3. QED
      BY <2>1, <2>2, KeysAssumption DEF Alone, Only
<1>3. CASE Others
    BY <1>3, KeysAssumption DEF Alone, Others
<1>4. QED
    BY <1>1, <1>2, <1>3 DEF Next

LEMMA ToldStep == Core /\ Told /\ Next => Told'
<1> SUFFICES ASSUME Core, Told, Next PROVE Told'
    OBVIOUS
<1> DEFINE Antecedent(p) ==
        \/ proc[p].cmd = "keygen" /\ proc[p].pc # "idle"
        \/ proc[p].pc \in {"openPriv", "writePriv", "openPub", "writePub"}
<1>1. ASSUME NEW p \in Procs, Begin(p) PROVE Told'
  <2>1. \A q \in Procs : q # p => proc'[q] = proc[q]
      BY <1>1, BeginStep DEF Begin, Becomes
  <2>2. proc'[p].cmd = "keygen" \/ proc'[p].pc = "statPriv"
      BY <1>1, BeginStep DEF Begin, Becomes
  <2>3. renewed' = (renewed \/ proc'[p].cmd = "keygen" \/ ~AllIdle)
      BY <1>1 DEF Begin
  <2>4. QED
      BY <2>1, <2>2, <2>3 DEF Told
<1>2. ASSUME NEW p \in Procs, Continue(p) PROVE Told'
  <2>1. /\ proc[p].pc # "idle"
        /\ \A q \in Procs : q # p => proc'[q] = proc[q]
        /\ proc'[p].pc # "idle" => proc'[p].cmd = proc[p].cmd /\ Moves(p)
      BY <1>2, ContinueFrame DEF Continue
  <2>2. renewed' = ((renewed \/ torn' \/ proc[p].pc = "mkdir") /\ ~Forget)
      BY <1>2 DEF Continue
  <2> SUFFICES ASSUME NEW q \in Procs, Antecedent(q)' PROVE renewed'
      BY DEF Told
  <2>3. ~Forget
      BY DEF Forget, AllIdle
  <2>4. CASE q # p
      BY <2>1, <2>2, <2>3, <2>4 DEF Told
  <2>5. CASE q = p
    <3>1. proc'[p].pc # "idle" /\ proc'[p].cmd = proc[p].cmd /\ Moves(p)
        BY <2>1, <2>5
    <3>2. Antecedent(p) \/ proc[p].pc = "mkdir"
        BY <2>1, <2>5, <3>1 DEF Moves
    <3>3. QED
        BY <2>2, <2>3, <3>2 DEF Told
  <2>6. QED
      BY <2>4, <2>5
<1>3. CASE Others
  <2>1. renewed' = ((renewed \/ torn' \/ entry' # entry) /\ ~Forget)
      BY <1>3 DEF Others
  <2> SUFFICES ASSUME NEW q \in Procs, Antecedent(q)' PROVE renewed'
      BY DEF Told
  <2>2. ~Forget
      BY DEF Forget, AllIdle
  <2>3. Antecedent(q)
      BY <1>3, OthersFrame
  <2>4. QED
      BY <2>1, <2>2, <2>3 DEF Told
<1>4. QED
    BY <1>1, <1>2, <1>3 DEF Next

\* An undisturbed up that found both files changes none of them.
LEMMA KeepsFiles ==
    ASSUME Core, Alone, Keeping, NEW p \in Procs, clean = p, proc[p].cmd = "up", had,
           EnsureStep(p) \/ RemoveStep(p) \/ UpNode(p)
    PROVE  /\ UNCHANGED files
           /\ proc'[p].pc \in {"idle", "statPub", "nodes"}
<1>1. AllPresent /\ proc[p].pc \in {"statPriv", "statPub", "nodes"}
    BY DEF Keeping
<1>2. dir /\ Present("priv") /\ Present("pub")
    BY <1>1 DEF AllPresent, Present, Core, NoFiles, Files
<1>3. StatPriv(p) \/ StatPub(p) \/ UpNode(p)
    BY <1>1 DEF EnsureStep, RemoveStep, Mkdir, OpenPriv, OpenPub, WritePriv, WritePub, ListDir, Unlink, Rmdir
<1>4. CASE StatPriv(p)
    BY <1>2, <1>4, StatPrivStep DEF StatPriv, files, Becomes
<1>5. CASE StatPub(p)
    BY <1>2, <1>5, StatPubStep DEF StatPub, files, Becomes
<1>6. CASE UpNode(p)
  <2>1. CASE Bound
    <3>1. entry' = entry
      <4>1. entry' \in [Files -> Entry] /\ entry \in [Files -> Entry]
          BY <1>6, UpNodeStep DEF Core
      <4>2. \A f \in Files : entry'[f] = entry[f]
          BY <1>1, <2>1 DEF Bound, AllPresent
      <4>3. QED
          BY <4>1, <4>2
    <3>2. dir' = dir
        BY <1>2, <1>6, <2>1, <3>1 DEF UpNode, Bind, Core
    <3>3. QED
        BY <1>6, <2>1, <3>1, <3>2, UpNodeStep DEF Bound, files, Becomes
  <2>2. CASE UNCHANGED files /\ Becomes(p, "idle", "up", None, None, {})
      BY <2>2 DEF Becomes
  <2>3. QED
      BY <1>6, <2>1, <2>2, UpNodeStep
<1>7. QED
    BY <1>3, <1>4, <1>5, <1>6

LEMMA KeepingStep == Core /\ Alone /\ Keeping /\ Next => Keeping'
<1> SUFFICES ASSUME Core, Alone, Keeping, Next PROVE Keeping'
    OBVIOUS
<1>1. ASSUME NEW p \in Procs, Begin(p) PROVE Keeping'
  <2>1. /\ UNCHANGED entry
        /\ proc'[p].pc = "statPriv" \/ proc'[p].cmd = "keygen"
      BY <1>1, BeginStep DEF Begin, Becomes
  <2>2. (clean' = p \/ clean' = None) /\ (had' => AllPresent)
      BY <1>1 DEF Begin
  <2>3. QED
      BY <2>1, <2>2, KeysAssumption DEF Keeping, AllPresent, Present
<1>2. ASSUME NEW p \in Procs, Continue(p) PROVE Keeping'
  <2> SUFFICES ASSUME NEW q \in Procs, clean' = q, proc'[q].cmd = "up", had'
               PROVE  AllPresent' /\ proc'[q].pc \in {"statPriv", "statPub", "nodes"}
      BY DEF Keeping
  <2>1. q = p /\ clean = p /\ had /\ proc'[p].pc # "idle"
      BY <1>2, KeysAssumption DEF Continue
  <2>2. EnsureStep(p) \/ RemoveStep(p) \/ UpNode(p)
      BY <1>2 DEF Continue
  <2>3. proc[p].cmd = "up"
      BY <2>1, <2>2, ContinueFrame
  <2>4. UNCHANGED files /\ proc'[p].pc \in {"statPub", "nodes"}
      BY <2>1, <2>2, <2>3, KeepsFiles
  <2>5. AllPresent
      BY <2>1, <2>3 DEF Keeping
  <2>6. QED
      BY <2>1, <2>4, <2>5 DEF files, AllPresent, Present
<1>3. CASE Others
    BY <1>3, KeysAssumption DEF Keeping, Others
<1>4. QED
    BY <1>1, <1>2, <1>3 DEF Next

LEMMA UpKeepsStep ==
    ASSUME Core, Alone, Keeping, Next, NEW p \in Procs,
           clean = p, proc'[p] # proc[p], proc[p].cmd = "up", had
    PROVE  UNCHANGED files
<1>1. ASSUME NEW q \in Procs, Begin(q) PROVE FALSE
  <2>1. proc[q].pc = "idle" /\ \A r \in Procs : r # q => proc'[r] = proc[r]
      BY <1>1, BeginStep DEF Begin, Becomes
  <2>2. QED
      BY <2>1 DEF Alone
<1>2. ASSUME NEW q \in Procs, Continue(q) PROVE UNCHANGED files
  <2>1. q = p
      BY <1>2, ContinueFrame DEF Continue
  <2>2. QED
      BY <1>2, <2>1, KeepsFiles DEF Continue
<1>3. CASE Others
  <2>1. CASE \E n \in Nodes : NodeStarts(n) \/ NodeStops(n)
      BY <2>1, NodeStartsStep, NodeStopsStep
  <2>2. CASE \E f \in Removable : UserRemoves(f)
      BY <2>2, UserRemovesStep
  <2>3. ASSUME NEW q \in Killable, Killed(q) PROVE UNCHANGED files
    <3>1. /\ Core' /\ Frees /\ UNCHANGED <<dir, entry, node>>
          /\ q \in Procs /\ Becomes(q, "idle", "up", None, None, {})
        BY <2>3, KilledStep
    <3>2. q = p
        BY <3>1 DEF Becomes
    <3>3. proc[p].fd = None
        BY DEF Keeping, Core, Holds
    <3>4. \A r \in Procs : proc'[r].fd = proc[r].fd
        BY <3>1, <3>2, <3>3 DEF Becomes
    <3>5. \A i \in Inodes : InUse(i)' <=> InUse(i)
        BY <3>1, <3>4 DEF InUse
    <3>6. \A i \in Inodes : data'[i] = data[i]
        BY <3>1, <3>5 DEF Frees, Core
    <3>7. data' \in [Inodes -> Keys \cup {"empty", "free"}] /\ data \in [Inodes -> Keys \cup {"empty", "free"}]
        BY <3>1 DEF Core
    <3>8. data' = data
        BY <3>6, <3>7
    <3>9. QED
        BY <3>1, <3>8 DEF files
  <2>4. QED
      BY <1>3, <2>1, <2>2, <2>3 DEF Others
<1>4. QED
    BY <1>1, <1>2, <1>3 DEF Next

-----------------------------------------------------------------------------
(* What the directory's files contain after a step. *)

LEMMA FilesAre ==
    /\ \A f \in Files : f = "priv" \/ f = "pub"
    /\ "priv" \in Files /\ "pub" \in Files
    BY DEF Files

LEMMA EntryIs ==
    ASSUME Core, NEW f \in Files
    PROVE  entry[f] \in Inodes \/ entry[f] = "dir" \/ entry[f] = None
    BY DEF Core, Entry

\* What still has a name keeps its contents when files are let go.
LEMMA FreesContent ==
    ASSUME Core, Core', NEW f \in Files, entry'[f] = entry[f],
           \A i \in Inodes : data'[i] = IF InUse(i)' THEN data[i] ELSE "free"
    PROVE  Content(entry[f])' = Content(entry[f])
<1>1. CASE entry[f] \in Inodes
  <2>1. InUse(entry[f])'
      BY DEF InUse
  <2>2. QED
      BY <1>1, <2>1 DEF Content
<1>2. CASE entry[f] \notin Inodes
    BY <1>2 DEF Content
<1>3. QED
    BY <1>1, <1>2

LEMMA FilledContent ==
    ASSUME Core, NEW p \in Procs, Filled(p), NEW f \in Files
    PROVE  /\ entry[f] = proc[p].fd => Content(entry[f])' = proc[p].key
           /\ entry[f] # proc[p].fd => Content(entry[f])' = Content(entry[f])
<1>1. CASE entry[f] \in Inodes
  <2>1. InUse(entry[f])'
      BY DEF InUse, Filled
  <2>2. QED
      BY <1>1, <2>1 DEF Content, Filled
<1>2. CASE entry[f] \notin Inodes
    BY <1>2 DEF Content, Filled
<1>3. QED
    BY <1>1, <1>2

LEMMA OpensContent ==
    ASSUME Core, NEW p \in Procs, NEW f \in Files, NEW pc, NEW i \in Inodes, Opens(p, f, pc, i),
           NEW g \in Files, g # f
    PROVE  entry'[g] = entry[g] /\ entry[g] # i /\ Content(entry[g])' = Content(entry[g])
<1>1. entry'[g] = entry[g]
    BY DEF Opens
<1>2. entry[g] # i
  <2>1. CASE entry[f] = i
      BY <2>1 DEF Core, Separate, Files
  <2>2. CASE ~InUse(i)
      BY <2>2 DEF InUse
  <2>3. QED
      BY <2>1, <2>2 DEF Opens
<1>3. Content(entry[g])' = Content(entry[g])
    BY <1>1, <1>2 DEF Content, Opens
<1>4. QED
    BY <1>1, <1>2, <1>3

\* A bind that had to make no directory changes nothing of the files.
LEMMA BoundWhole ==
    ASSUME Core, Core', Bound, ~Spoilt
    PROVE  AllPresent /\ UNCHANGED <<entry, data>>
<1>1. \A f \in Files : Present(f) /\ entry'[f] = entry[f]
    BY DEF Bound, Spoilt
<1>2. entry' \in [Files -> Entry] /\ entry \in [Files -> Entry]
    BY DEF Core
<1>3. QED
    BY <1>1, <1>2 DEF AllPresent, Bound

-----------------------------------------------------------------------------
(* An undisturbed keygen. *)

LEMMA InitRenewing == Init => Renewing
    BY KeysAssumption DEF Init, Renewing

LEMMA NoFilesIs ==
    ASSUME Core
    PROVE  entry = NoFiles <=> \A f \in Files : entry[f] = None
    BY DEF Core, NoFiles

LEMMA RenewsStep ==
    ASSUME Core, Core', NEW p \in Procs, Renews(p), proc[p].cmd = "keygen",
           EnsureStep(p) \/ RemoveStep(p) \/ UpNode(p), proc'[p].pc # "idle"
    PROVE  Renews(p)'
<1>1. CASE StatPriv(p)
  <2>1. proc[p].pc = "statPriv" /\ UNCHANGED <<entry, data, node>>
      BY <1>1 DEF StatPriv
  <2>2. ~Present("priv") /\ entry = NoFiles
      BY <2>1, FilesAre DEF Renews, NoFiles, Present
  <2>3. proc'[p].pc = "mkdir"
      BY <1>1, <2>2, StatPrivStep DEF Becomes
  <2>4. QED
      BY <2>1, <2>2, <2>3 DEF Renews, Writes
<1>2. CASE StatPub(p) \/ UpNode(p)
    BY <1>2 DEF StatPub, UpNode, Renews
<1>3. CASE Mkdir(p)
  <2>1. proc[p].pc = "mkdir" /\ entry = NoFiles
      BY <1>3 DEF Mkdir, Renews
  <2>2. PICK key \in NewKeys : Becomes(p, "openPriv", proc[p].cmd, key, None, proc[p].todo)
      BY <1>3, MkdirStep
  <2>3. \A i \in Inodes : data'[i] # key
      BY <1>3, MkdirStep DEF NewKeys
  <2>4. UNCHANGED entry /\ proc'[p].pc = "openPriv" /\ proc'[p].key = key
      BY <1>3, <2>2, MkdirStep DEF Becomes
  <2>5. QED
      BY <2>1, <2>3, <2>4 DEF Renews, Writes
<1>4. CASE OpenPriv(p)
  <2>1. proc[p].pc = "openPriv" /\ proc[p].key \in Keys
      BY <1>4 DEF OpenPriv, Core, Holds
  <2>2. entry["priv"] = None /\ entry["pub"] = None /\ \A j \in Inodes : data[j] # proc[p].key
      BY <2>1, FilesAre DEF Renews, NoFiles
  <2>3. PICK i \in Inodes : Opens(p, "priv", "writePriv", i)
      BY <1>4, <2>1, OpenStep, FilesAre DEF OpenPriv, Becomes
  <2>4. proc'[p].pc = "writePriv" /\ proc'[p].key = proc[p].key /\ proc'[p].fd = i
      BY <2>3 DEF Opens, Becomes
  <2>5. entry'["priv"] = i /\ entry'["pub"] = None
      BY <2>2, <2>3, FilesAre DEF Opens
  <2>6. entry'["priv"] # None /\ \A n \in Nodes, f \in Files : node'[n].sees[f] # i
      BY <2>2, <2>3, <2>5, KeysAssumption DEF Opens, InUse
  <2>7. \A j \in Inodes : data'[j] # proc[p].key
      BY <2>1, <2>2, <2>3, KeysAssumption DEF Opens
  <2>8. QED
      BY <2>4, <2>5, <2>6, <2>7 DEF Renews, Writes
<1>5. CASE WritePriv(p)
  <2>1. proc[p].pc = "writePriv"
      BY <1>5 DEF WritePriv
  <2>2. /\ entry["pub"] = None /\ entry["priv"] = proc[p].fd /\ entry["priv"] # None
        /\ \A n \in Nodes, f \in Files : node[n].sees[f] # entry["priv"]
        /\ \A i \in Inodes : data[i] # proc[p].key
      BY <2>1 DEF Renews, Writes
  <2>3. Filled(p) /\ proc'[p].pc = "openPub" /\ proc'[p].key = proc[p].key
      BY <1>5, WritePrivStep DEF Becomes
  <2>4. UNCHANGED <<entry, node>>
      BY <2>3 DEF Filled
  <2>5. proc[p].key \in Keys
      BY <2>1 DEF Core, Holds
  <2>6. \A i \in Inodes : data'[i] = proc[p].key => i = entry["priv"]
      BY <2>2, <2>3, <2>5, KeysAssumption DEF Filled
  <2>7. Content(entry["priv"])' = proc[p].key
      BY <2>2, <2>3, FilledContent, FilesAre
  <2>8. QED
      BY <2>2, <2>3, <2>4, <2>6, <2>7 DEF Renews, Writes
<1>6. CASE OpenPub(p)
  <2>1. proc[p].pc = "openPub" /\ proc[p].key \in Keys
      BY <1>6 DEF OpenPub, Core, Holds
  <2>2. /\ entry["pub"] = None /\ entry["priv"] # None
        /\ \A n \in Nodes, f \in Files : node[n].sees[f] # entry["priv"]
        /\ \A j \in Inodes : data[j] = proc[p].key => j = entry["priv"]
        /\ Content(entry["priv"]) = proc[p].key
      BY <2>1 DEF Renews, Writes
  <2>3. PICK i \in Inodes : Opens(p, "pub", "writePub", i)
      BY <1>6, <2>1, OpenStep, FilesAre DEF OpenPub, Becomes
  <2>4. proc'[p].pc = "writePub" /\ proc'[p].key = proc[p].key /\ proc'[p].fd = i
      BY <2>3 DEF Opens, Becomes
  <2>5. entry'["pub"] = i /\ entry'["priv"] = entry["priv"] /\ entry["priv"] # i
        /\ Content(entry["priv"])' = proc[p].key /\ node' = node
    <3>1. "priv" # "pub"
        OBVIOUS
    <3>2. entry'["priv"] = entry["priv"] /\ entry["priv"] # i
          /\ Content(entry["priv"])' = Content(entry["priv"])
        BY <2>3, <3>1, FilesAre, OpensContent
    <3>3. entry'["pub"] = i /\ node' = node
        BY <2>3 DEF Opens
    <3>4. QED
        BY <2>2, <3>2, <3>3
  <2>6. i # None /\ \A n \in Nodes, f \in Files : node'[n].sees[f] # i
      BY <2>2, <2>3, <2>5, KeysAssumption DEF Opens, InUse
  <2>7. \A j \in Inodes : data'[j] = proc[p].key => j = entry["priv"]
      BY <2>1, <2>2, <2>3, KeysAssumption DEF Opens
  <2>8. QED
      BY <2>2, <2>4, <2>5, <2>6, <2>7 DEF Renews, Writes
<1>7. CASE WritePub(p)
    BY <1>7, WritePubStep DEF Becomes
<1>8. CASE ListDir(p)
  <2>1. UNCHANGED entry /\ proc'[p].pc = (IF dir THEN "unlink" ELSE "statPriv")
        /\ proc'[p].todo = {f \in Files : Present(f)}
      BY <1>8, ListDirStep DEF Becomes
  <2>2. ~dir => entry = NoFiles
      BY DEF Core
  <2>3. \A f \in Files : Present(f)' => f \in proc'[p].todo
      BY <2>1 DEF Present
  <2>4. CASE dir
      BY <2>1, <2>3, <2>4 DEF Renews, Writes
  <2>5. CASE ~dir
      BY <2>1, <2>2, <2>5 DEF Renews, Writes
  <2>6. QED
      BY <2>4, <2>5
<1>9. CASE Unlink(p)
  <2>1. \A f \in Files : Present(f) => f \in proc[p].todo
      BY <1>9 DEF Unlink, Renews
  <2>2. CASE \E f \in proc[p].todo :
                /\ entry'[f] = None
                /\ \A g \in Files : g # f => entry'[g] = entry[g]
                /\ Becomes(p, "unlink", proc[p].cmd, proc[p].key, None, proc[p].todo \ {f})
    <3>1. proc'[p].pc = "unlink" /\ \A f \in Files : Present(f)' => f \in proc'[p].todo
        BY <2>1, <2>2 DEF Becomes, Present
    <3>2. QED
        BY <3>1 DEF Renews, Writes
  <2>3. CASE /\ proc[p].todo = {}
             /\ UNCHANGED entry
             /\ Becomes(p, "rmdir", proc[p].cmd, proc[p].key, None, proc[p].todo)
    <3>1. proc'[p].pc = "rmdir" /\ entry' = NoFiles
        BY <2>1, <2>3, NoFilesIs DEF Becomes, Present
    <3>2. QED
        BY <3>1 DEF Renews, Writes
  <2>4. QED
      BY <1>9, <2>2, <2>3, UnlinkStep
<1>10. CASE Rmdir(p)
  <2>1. proc'[p].pc = "statPriv" /\ UNCHANGED entry /\ \A f \in Files : ~Present(f)
      BY <1>10, RmdirStep DEF Becomes
  <2>2. entry' = NoFiles
      BY <2>1, NoFilesIs DEF Present
  <2>3. QED
      BY <2>1, <2>2 DEF Renews, Writes
<1>11. QED
    BY <1>1, <1>2, <1>3, <1>4, <1>5, <1>6, <1>7, <1>8, <1>9, <1>10 DEF EnsureStep, RemoveStep

LEMMA RenewingStep == Core /\ Renewing /\ Next => Renewing'
<1> SUFFICES ASSUME Core, Renewing, Next PROVE Renewing'
    OBVIOUS
<1>1. ASSUME NEW p \in Procs, Begin(p) PROVE Renewing'
  <2>1. proc'[p].cmd = "up" \/ proc'[p].pc = "list"
      BY <1>1, BeginStep DEF Begin, Becomes
  <2>2. proc'[p].pc = "list" => Renews(p)'
      BY DEF Renews, Writes
  <2>3. clean' = p \/ clean' = None
      BY <1>1 DEF Begin
  <2>4. QED
      BY <2>1, <2>2, <2>3, KeysAssumption DEF Renewing
<1>2. ASSUME NEW p \in Procs, Continue(p) PROVE Renewing'
  <2> SUFFICES ASSUME NEW q \in Procs, clean' = q, proc'[q].cmd = "keygen" PROVE Renews(q)'
      BY DEF Renewing
  <2>1. q = p /\ clean = p /\ proc'[p].pc # "idle"
      BY <1>2, KeysAssumption DEF Continue
  <2>2. EnsureStep(p) \/ RemoveStep(p) \/ UpNode(p)
      BY <1>2 DEF Continue
  <2>3. proc[p].cmd = "keygen"
      BY <2>1, <2>2, ContinueFrame
  <2>4. QED
      BY <2>1, <2>2, <2>3, RenewsStep, CoreStep DEF Renewing
<1>3. CASE Others
    BY <1>3, KeysAssumption DEF Renewing, Others
<1>4. QED
    BY <1>1, <1>2, <1>3 DEF Next

\* It ends with success only when it has written the pair: both halves, new to everyone.
LEMMA KeygenEnds ==
    ASSUME Core, Core', NEW p \in Procs, Renews(p), proc[p].cmd = "keygen",
           EnsureStep(p) \/ RemoveStep(p) \/ UpNode(p), proc'[p].pc = "idle", ~proc'[p].failed
    PROVE  /\ Pair(entry["priv"], entry["pub"])'
           /\ \A f \in Files : entry'[f] \in Inodes
           /\ \A n \in Nodes, f \in Files : Content(node[n].sees[f])' # Content(entry["priv"])'
<1>1. WritePub(p)
  <2>1. ~StatPriv(p)
      BY StatPrivStep DEF Becomes
  <2>2. ~StatPub(p) /\ ~UpNode(p)
      BY DEF StatPub, UpNode, Renews
  <2>3. ~Mkdir(p)
      BY MkdirStep DEF Becomes
  <2>4. ~OpenPriv(p)
      BY OpenStep, FilesAre DEF OpenPriv, Opens, Becomes
  <2>5. ~OpenPub(p)
      BY OpenStep, FilesAre DEF OpenPub, Opens, Becomes
  <2>6. ~WritePriv(p)
      BY WritePrivStep DEF Becomes
  <2>7. ~ListDir(p)
    <3>1. ListDir(p) => proc'[p].pc \in {"unlink", "statPriv"}
        BY ListDirStep DEF Becomes
    <3>2. QED
        BY <3>1
  <2>8. ~Unlink(p)
      BY UnlinkStep DEF Becomes
  <2>9. ~Rmdir(p)
      BY RmdirStep DEF Becomes
  <2>10. QED
      BY <2>1, <2>2, <2>3, <2>4, <2>5, <2>6, <2>7, <2>8, <2>9 DEF EnsureStep, RemoveStep
<1>2. proc[p].pc = "writePub" /\ proc[p].key \in Keys
    BY <1>1 DEF WritePub, Core, Holds
<1>3. Filled(p)
    BY <1>1, WritePubStep
<1>4. /\ entry["priv"] # None /\ entry["pub"] = proc[p].fd /\ entry["priv"] # proc[p].fd
      /\ Content(entry["priv"]) = proc[p].key
      /\ \A n \in Nodes, f \in Files : node[n].sees[f] # entry["priv"] /\ node[n].sees[f] # entry["pub"]
      /\ \A i \in Inodes : data[i] = proc[p].key => i = entry["priv"]
    BY <1>2 DEF Renews, Writes
<1>5. Content(entry["priv"])' = proc[p].key /\ Content(entry["pub"])' = proc[p].key
  <2>1. Content(entry["priv"])' = Content(entry["priv"])
      BY <1>3, <1>4, FilesAre, FilledContent
  <2>2. Content(entry["pub"])' = proc[p].key
      BY <1>3, <1>4, FilesAre, FilledContent
  <2>3. QED
      BY <1>4, <2>1, <2>2
<1>6. Pair(entry["priv"], entry["pub"])'
    BY <1>2, <1>5 DEF Pair
<1>7. UNCHANGED <<entry, node>>
    BY <1>3 DEF Filled
<1>8. entry'["priv"] \in Inodes /\ entry'["pub"] \in Inodes
    BY <1>2, <1>5, KeysAssumption DEF Content
<1>9. ASSUME NEW n \in Nodes, NEW f \in Files PROVE Content(node[n].sees[f])' # proc[p].key
  <2>1. CASE node[n].sees[f] \in Inodes
      BY <1>2, <1>3, <1>4, <1>7, <2>1, KeysAssumption DEF Content, Filled
  <2>2. CASE node[n].sees[f] \notin Inodes
      BY <1>2, <1>7, <2>2, KeysAssumption DEF Content
  <2>3. QED
      BY <2>1, <2>2
<1>10. QED
    BY <1>5, <1>6, <1>8, <1>9, FilesAre

-----------------------------------------------------------------------------
(* Whole: as long as nothing is torn, whoever runs is alone and knows the files. *)

LEMMA InitWhole == Init => WholeInv
    BY IdleCommand, KeysAssumption, FilesAre
       DEF Init, WholeInv, Whole, Matched, AllPresent, Present, NoFiles, Writes, RemovePcs

LEMMA MatchedKept ==
    ASSUME Core, Core', Matched,
           \A f \in Files : entry'[f] = None
                           \/ (entry'[f] = entry[f] /\ Content(entry[f])' = Content(entry[f]))
    PROVE  Matched'
<1> SUFFICES ASSUME AllPresent' PROVE Pair(entry["priv"], entry["pub"])'
    BY DEF Matched
<1>1. \A f \in Files : entry'[f] = entry[f] /\ Content(entry[f])' = Content(entry[f])
    BY DEF AllPresent, Present
<1>2. AllPresent
    BY <1>1 DEF AllPresent, Present
<1>3. QED
    BY <1>1, <1>2, FilesAre DEF Matched, Pair

\* What one command's step makes of Whole, when it leaves no directory behind and
\* does not fail with both files there.
WholeFor(p) ==
    /\ Writes(p)
    /\ proc[p].pc \in {"idle", "statPriv", "statPub", "nodes"} \cup RemovePcs => Matched
    /\ proc[p].pc \in {"mkdir", "openPriv"} => ~AllPresent

LEMMA WholeForStep ==
    ASSUME Core, Core', NEW p \in Procs, WholeFor(p), \A f \in Files : entry[f] # "dir",
           EnsureStep(p) \/ RemoveStep(p) \/ UpNode(p),
           ~(proc'[p].failed /\ AllPresent'), ~Spoilt
    PROVE  WholeFor(p)'
<1>1. ASSUME UNCHANGED <<entry, data>>
      PROVE  (Matched' <=> Matched) /\ (AllPresent' <=> AllPresent)
    BY <1>1 DEF Matched, AllPresent, Present, Pair, Content
<1>2. CASE StatPriv(p)
  <2>1. proc[p].pc = "statPriv" /\ UNCHANGED <<entry, data>>
        /\ proc'[p].pc = IF Present("priv") THEN "statPub" ELSE "mkdir"
      BY <1>2, StatPrivStep DEF StatPriv, Becomes
  <2>2. ~Present("priv") => ~AllPresent
      BY FilesAre DEF AllPresent
  <2>3. QED
      BY <1>1, <2>1, <2>2 DEF WholeFor, Writes, RemovePcs
<1>3. CASE StatPub(p)
  <2>1. proc[p].pc = "statPub" /\ UNCHANGED <<entry, data>>
        /\ \/ ~Present("pub") /\ proc'[p].pc = "mkdir"
           \/ proc'[p].pc \in {"nodes", "idle"}
      BY <1>3, StatPubStep DEF StatPub, Becomes
  <2>2. ~Present("pub") => ~AllPresent
      BY FilesAre DEF AllPresent
  <2>3. QED
      BY <1>1, <2>1, <2>2 DEF WholeFor, Writes, RemovePcs
<1>4. CASE Mkdir(p)
  <2>1. proc[p].pc = "mkdir" /\ UNCHANGED <<entry, data>> /\ proc'[p].pc = "openPriv"
      BY <1>4, MkdirStep DEF Mkdir, Becomes
  <2>2. QED
      BY <1>1, <2>1 DEF WholeFor, Writes, RemovePcs
<1>5. CASE OpenPriv(p)
  <2>1. proc[p].pc = "openPriv"
      BY <1>5 DEF OpenPriv
  <2>2. CASE \E i \in Inodes : Opens(p, "priv", "writePriv", i)
      BY <2>2 DEF Opens, Becomes, WholeFor, Writes, RemovePcs
  <2>3. CASE Becomes(p, "idle", "up", None, None, {}) /\ proc'[p].failed
    <3>1. ~AllPresent' /\ proc'[p].pc = "idle"
        BY <2>3 DEF Becomes
    <3>2. QED
        BY <3>1 DEF WholeFor, Writes, Matched
  <2>4. QED
      BY <1>5, <2>1, <2>2, <2>3, OpenStep, FilesAre DEF OpenPriv
<1>6. CASE WritePriv(p)
  <2>1. proc[p].pc = "writePriv" /\ entry["priv"] \in {None, proc[p].fd}
      BY <1>6 DEF WritePriv, WholeFor, Writes
  <2>2. Filled(p) /\ proc'[p].pc = "openPub" /\ proc'[p].key = proc[p].key
      BY <1>6, WritePrivStep DEF Becomes
  <2>3. entry' = entry
      BY <2>2 DEF Filled
  <2>4. entry["priv"] # None => Content(entry["priv"])' = proc[p].key
      BY <2>1, <2>2, FilledContent, FilesAre
  <2>5. QED
      BY <2>2, <2>3, <2>4 DEF WholeFor, Writes, RemovePcs
<1>7. CASE OpenPub(p)
  <2>1. proc[p].pc = "openPub"
      BY <1>7 DEF OpenPub
  <2>2. entry["priv"] # None => Content(entry["priv"]) = proc[p].key
      BY <2>1 DEF WholeFor, Writes
  <2>3. ASSUME NEW i \in Inodes, Opens(p, "pub", "writePub", i) PROVE WholeFor(p)'
    <3>1. "priv" # "pub"
        OBVIOUS
    <3>2. entry'["priv"] = entry["priv"] /\ entry["priv"] # i
          /\ Content(entry["priv"])' = Content(entry["priv"])
        BY <2>3, <3>1, OpensContent, FilesAre
    <3>3. entry'["pub"] = i /\ proc'[p].fd = i /\ proc'[p].pc = "writePub" /\ proc'[p].key = proc[p].key
        BY <2>3 DEF Opens, Becomes
    <3>4. QED
        BY <2>2, <3>2, <3>3 DEF WholeFor, Writes, RemovePcs
  <2>4. CASE Becomes(p, "idle", "up", None, None, {}) /\ proc'[p].failed
    <3>1. ~AllPresent' /\ proc'[p].pc = "idle"
        BY <2>4 DEF Becomes
    <3>2. QED
        BY <3>1 DEF WholeFor, Writes, Matched
  <2>5. QED
      BY <1>7, <2>1, <2>3, <2>4, OpenStep, FilesAre DEF OpenPub
<1>8. CASE WritePub(p)
  <2>1. /\ proc[p].pc = "writePub" /\ proc[p].key \in Keys
        /\ entry["priv"] # None => Content(entry["priv"]) = proc[p].key
        /\ entry["pub"] \in {None, proc[p].fd} /\ entry["priv"] # proc[p].fd
      BY <1>8 DEF WritePub, WholeFor, Writes, Core, Holds
  <2>2. Filled(p) /\ proc'[p].pc \in {"nodes", "idle"}
      BY <1>8, WritePubStep DEF Becomes
  <2>3. entry' = entry
      BY <2>2 DEF Filled
  <2>4. Content(entry["priv"])' = Content(entry["priv"])
      BY <2>1, <2>2, FilledContent, FilesAre
  <2>5. entry["pub"] # None => Content(entry["pub"])' = proc[p].key
      BY <2>1, <2>2, FilledContent, FilesAre
  <2>6. Matched'
      BY <2>1, <2>3, <2>4, <2>5, FilesAre DEF Matched, AllPresent, Present, Pair
  <2>7. QED
      BY <2>2, <2>6 DEF WholeFor, Writes, RemovePcs
<1>9. CASE ListDir(p)
  <2>1. proc[p].pc = "list" /\ UNCHANGED <<entry, data>>
        /\ proc'[p].pc \in {"unlink", "statPriv"}
    <3>1. proc'[p].pc = IF dir THEN "unlink" ELSE "statPriv"
        BY <1>9, ListDirStep DEF Becomes
    <3>2. QED
        BY <1>9, <3>1 DEF ListDir
  <2>2. QED
      BY <1>1, <2>1 DEF WholeFor, Writes, RemovePcs
<1>10. CASE Unlink(p)
  <2>1. proc[p].pc = "unlink" /\ Matched
      BY <1>10 DEF Unlink, WholeFor, RemovePcs
  <2>2. proc'[p].pc \in {"unlink", "rmdir"}
      BY <1>10, UnlinkStep DEF Becomes
  <2>3. \A f \in Files : entry'[f] = None \/ entry'[f] = entry[f]
      BY <1>10, UnlinkStep
  <2>4. \A f \in Files : entry'[f] = entry[f] => Content(entry[f])' = Content(entry[f])
      BY <1>10, UnlinkStep, FreesContent
  <2>5. Matched'
      BY <2>1, <2>3, <2>4, MatchedKept
  <2>6. QED
      BY <2>2, <2>5 DEF WholeFor, Writes, RemovePcs
<1>11. CASE Rmdir(p)
  <2>1. proc[p].pc = "rmdir" /\ UNCHANGED <<entry, data>>
        /\ proc'[p].pc \in {"idle", "statPriv"}
      BY <1>11, RmdirStep DEF Rmdir, Becomes
  <2>2. QED
      BY <1>1, <2>1 DEF WholeFor, Writes, RemovePcs
<1>12. CASE UpNode(p)
  <2>1. proc[p].pc = "nodes" /\ proc'[p].pc \in {"nodes", "idle"}
      BY <1>12, UpNodeStep DEF Becomes
  <2>2. UNCHANGED <<entry, data>>
      BY <1>12, UpNodeStep, BoundWhole DEF files
  <2>3. QED
      BY <1>1, <2>1, <2>2 DEF WholeFor, Writes, RemovePcs
<1>13. QED
    BY <1>2, <1>3, <1>4, <1>5, <1>6, <1>7, <1>8, <1>9, <1>10, <1>11, <1>12
       DEF EnsureStep, RemoveStep

\* After a step of p alone, Whole is what p leaves.
LEMMA WholeAfter ==
    ASSUME NEW p \in Procs, WholeFor(p)', \A f \in Files : entry'[f] # "dir",
           \A q \in Procs : q # p => proc'[q].pc = "idle"
    PROVE  Whole'
<1>1. \A q \in Procs : proc'[q].pc = "idle" => Writes(q)'
    BY DEF Writes
<1>2. AllIdle' => Matched'
    BY DEF AllIdle, WholeFor
<1>3. QED
    BY <1>1, <1>2 DEF Whole, WholeFor, RemovePcs

LEMMA WholeStep == Core /\ Alone /\ Renewing /\ WholeInv /\ Next => WholeInv'
<1> SUFFICES ASSUME Core, Alone, Renewing, WholeInv, Next, ~torn' PROVE Whole'
    BY DEF WholeInv
<1>0. Core'
    BY CoreStep
<1>1. ASSUME NEW p \in Procs, Begin(p) PROVE Whole'
  <2>1. ~torn /\ AllIdle
      BY <1>1 DEF Begin
  <2>2. Whole /\ Matched
      BY <2>1 DEF WholeInv, Whole
  <2>3. /\ UNCHANGED <<entry, data>>
        /\ proc'[p].pc \in {"statPriv", "list"}
        /\ \A q \in Procs : q # p => proc'[q] = proc[q]
      BY <1>1, BeginStep DEF Begin, Becomes
  <2>4. Matched'
      BY <2>2, <2>3 DEF Matched, AllPresent, Present, Pair, Content
  <2>5. WholeFor(p)'
      BY <2>3, <2>4 DEF WholeFor, Writes
  <2>6. \A f \in Files : entry'[f] # "dir"
      BY <2>2, <2>3 DEF Whole
  <2>7. \A q \in Procs : q # p => proc'[q].pc = "idle"
      BY <2>1, <2>3 DEF AllIdle
  <2>8. QED
      BY <2>5, <2>6, <2>7, WholeAfter
<1>2. ASSUME NEW p \in Procs, Continue(p) PROVE Whole'
  <2>1. EnsureStep(p) \/ RemoveStep(p) \/ UpNode(p)
      BY <1>2 DEF Continue
  <2>2. proc[p].pc # "idle" /\ \A q \in Procs : q # p => proc'[q] = proc[q]
      BY <2>1, ContinueFrame
  <2>3. CASE clean = p /\ proc[p].cmd = "keygen" /\ proc'[p].pc = "idle" /\ ~proc'[p].failed
    <3>1. /\ Pair(entry["priv"], entry["pub"])'
          /\ \A f \in Files : entry'[f] \in Inodes
        BY <1>0, <2>1, <2>3, KeygenEnds DEF Renewing
    <3>2. WholeFor(p)'
        BY <2>3, <3>1 DEF WholeFor, Writes, Matched
    <3>3. \A f \in Files : entry'[f] # "dir"
        BY <3>1, KeysAssumption
    <3>4. \A q \in Procs : q # p => proc'[q].pc = "idle"
        BY <2>2, <2>3 DEF Alone, Only
    <3>5. QED
        BY <3>2, <3>3, <3>4, WholeAfter
  <2>4. CASE ~(clean = p /\ proc[p].cmd = "keygen" /\ proc'[p].pc = "idle" /\ ~proc'[p].failed)
    <3>1. ~torn /\ ~(proc'[p].failed /\ AllPresent') /\ ~Spoilt
        BY <1>2, <2>4 DEF Continue
    <3>2. Whole
        BY <3>1 DEF WholeInv
    <3>3. WholeFor(p) /\ \A f \in Files : entry[f] # "dir"
        BY <2>2, <3>2 DEF Whole, WholeFor
    <3>4. WholeFor(p)'
        BY <1>0, <2>1, <3>1, <3>3, WholeForStep
    <3>5. \A f \in Files : entry'[f] # "dir"
        BY <3>1 DEF Spoilt
    <3>6. \A q \in Procs : q # p => proc'[q].pc = "idle"
        BY <2>2, <3>2 DEF Whole
    <3>7. QED
        BY <3>4, <3>5, <3>6, WholeAfter
  <2>5. QED
      BY <2>3, <2>4
<1>3. CASE Others
  <2>1. ~torn /\ ~(~AllIdle /\ AllPresent') /\ ~Spoilt
      BY <1>3 DEF Others
  <2>2. Whole
      BY <2>1 DEF WholeInv
  <2>3. \A f \in Files : entry'[f] # "dir"
      BY <2>1 DEF Spoilt
  <2>4. ASSUME Frees PROVE Whole'
    <3>1. \A f \in Files : entry'[f] = None
                          \/ (entry'[f] = entry[f] /\ Content(entry[f])' = Content(entry[f]))
        BY <1>0, <2>4, FreesContent DEF Frees
    <3>2. Matched => Matched'
        BY <1>0, <3>1, MatchedKept
    <3>3. AllPresent' => AllPresent
        BY <3>1 DEF AllPresent, Present
    <3>4. CASE UNCHANGED proc
      <4>1. \A q \in Procs : Writes(q)'
        <5> SUFFICES ASSUME NEW q \in Procs PROVE Writes(q)'
            OBVIOUS
        <5>1. Writes(q) /\ entry'["priv"] \in {None, entry["priv"]} /\ entry'["pub"] \in {None, entry["pub"]}
              /\ (entry'["priv"] # None => Content(entry["priv"])' = Content(entry["priv"]))
            BY <2>2, <3>1, FilesAre DEF Whole
        <5>2. proc[q].pc = "writePub" => proc[q].fd # None
            BY DEF Core, Holds
        <5>3. QED
            BY <3>4, <5>1, <5>2 DEF Writes
      <4>2. AllIdle' => AllIdle
          BY <3>4 DEF AllIdle
      <4>3. QED
          BY <2>2, <2>3, <3>2, <3>3, <3>4, <4>1, <4>2 DEF Whole
    <3>5. ASSUME NEW p \in Procs, Becomes(p, "idle", "up", None, None, {}) PROVE Whole'
      <4>1. proc'[p].pc = "idle" /\ \A q \in Procs : q # p => proc'[q] = proc[q]
          BY <3>5 DEF Becomes
      <4>2. CASE AllIdle
        <5>1. Matched' /\ \A q \in Procs : proc'[q].pc = "idle"
            BY <2>2, <3>2, <4>1, <4>2 DEF Whole, AllIdle
        <5>2. QED
            BY <2>3, <5>1 DEF Whole, Writes
      <4>3. CASE ~AllIdle
        <5>1. ~AllPresent'
            BY <2>1, <4>3
        <5>2. \A q \in Procs : Writes(q)'
          <6> SUFFICES ASSUME NEW q \in Procs PROVE Writes(q)'
              OBVIOUS
          <6>1. Writes(q) /\ entry'["priv"] \in {None, entry["priv"]} /\ entry'["pub"] \in {None, entry["pub"]}
                /\ (entry'["priv"] # None => Content(entry["priv"])' = Content(entry["priv"]))
              BY <2>2, <3>1, FilesAre DEF Whole
          <6>2. proc[q].pc = "writePub" => proc[q].fd # None
              BY DEF Core, Holds
          <6>3. CASE q = p
              BY <4>1, <6>3 DEF Writes
          <6>4. CASE q # p
              BY <4>1, <6>1, <6>2, <6>4 DEF Writes
          <6>5. QED
              BY <6>3, <6>4
        <5>3. \A q, r \in Procs : proc'[q].pc # "idle" /\ proc'[r].pc # "idle" => q = r
            BY <2>2, <4>1 DEF Whole
        <5>4. Matched'
            BY <5>1 DEF Matched
        <5>5. QED
            BY <2>3, <5>1, <5>2, <5>3, <5>4 DEF Whole
      <4>4. QED
          BY <4>2, <4>3
    <3>6. QED
        BY <2>4, <3>4, <3>5 DEF Frees
  <2>5. CASE Bound /\ UNCHANGED proc
    <3>1. UNCHANGED <<entry, data, proc>>
        BY <1>0, <2>1, <2>5, BoundWhole
    <3>2. QED
        BY <2>2, <3>1 DEF Whole, Matched, Writes, AllPresent, Present, Pair, Content, AllIdle
  <2>6. QED
      BY <1>3, <2>4, <2>5, NodeStartsStep, NodeStopsStep, UserRemovesStep, KilledStep DEF Others
<1>4. QED
    BY <1>1, <1>2, <1>3 DEF Next

-----------------------------------------------------------------------------
(* Current: nodes that run have what is in the directory, unless someone said. *)

LEMMA InitCurrent == Init => Current
    BY DEF Init, Current

LEMMA CurrentStep == Core /\ Told /\ Current /\ Next => Current'
<1> SUFFICES ASSUME Core, Told, Current, Next, ~torn', ~renewed',
                    NEW n \in Nodes, node'[n].state = "running"
             PROVE  node'[n].sees = entry' /\ AllPresent'
    BY DEF Current
<1>0. Core' /\ ~Forget
    BY CoreStep DEF Forget, NoneRuns
<1>1. ASSUME NEW p \in Procs, Begin(p) PROVE node'[n].sees = entry' /\ AllPresent'
  <2>1. ~torn /\ ~renewed /\ UNCHANGED <<entry, node>>
      BY <1>1, BeginStep DEF Begin
  <2>2. QED
      BY <2>1 DEF Current, AllPresent, Present
<1>2. ASSUME NEW p \in Procs, Continue(p) PROVE node'[n].sees = entry' /\ AllPresent'
  <2>1. EnsureStep(p) \/ RemoveStep(p) \/ UpNode(p)
      BY <1>2 DEF Continue
  <2>2. ~renewed /\ proc[p].pc # "mkdir"
      BY <1>0, <1>2 DEF Continue
  <2>3. proc[p].pc # "idle" /\ proc[p].cmd # "keygen"
        /\ proc[p].pc \notin {"openPriv", "writePriv", "openPub", "writePub"}
      BY <2>1, <2>2, ContinueFrame DEF Told
  <2>4. ~torn /\ ~Spoilt
      BY <1>2, <2>3 DEF Continue
  <2>5. ~RemoveStep(p)
      BY <2>3 DEF RemoveStep, ListDir, Unlink, Rmdir, Core, Holds, RemovePcs
  <2>6. StatPriv(p) \/ StatPub(p) \/ UpNode(p)
      BY <2>1, <2>2, <2>3, <2>5 DEF EnsureStep, Mkdir, OpenPriv, WritePriv, OpenPub, WritePub
  <2>7. CASE UNCHANGED <<entry, node>>
      BY <2>2, <2>4, <2>7 DEF Current, AllPresent, Present
  <2>8. CASE Bound
      BY <1>0, <2>2, <2>4, <2>8, BoundWhole DEF Bound, Current, AllPresent, Present
  <2>9. QED
      BY <2>6, <2>7, <2>8, UpNodeStep DEF StatPriv, StatPub, files
<1>3. CASE Others
  <2>1. ~torn /\ ~renewed /\ ~Spoilt /\ entry' = entry
      BY <1>0, <1>3 DEF Others
  <2>2. CASE Bound
      BY <1>0, <2>1, <2>2, BoundWhole DEF Bound, Current, AllPresent, Present
  <2>3. CASE Frees
    <3>1. node'[n] = node[n]
        BY <2>3 DEF Frees
    <3>2. QED
        BY <2>1, <3>1 DEF Current, AllPresent, Present
  <2>4. QED
      BY <1>3, <2>2, <2>3, NodeStartsStep, NodeStopsStep, UserRemovesStep, KilledStep DEF Others
<1>4. QED
    BY <1>1, <1>2, <1>3 DEF Next

-----------------------------------------------------------------------------
(* Theorems. *)

LEMMA Inductive == Spec => []IInv
<1>1. Init => IInv
    BY InitSound, InitAlone, InitWhole, InitRenewing, InitCurrent DEF IInv, WholeInv
<1>2. IInv /\ Next => IInv'
  <2> SUFFICES ASSUME IInv, Next PROVE IInv'
      OBVIOUS
  <2>1. Core /\ Ghosts /\ WholeInv
      BY SoundParts DEF IInv, WholeInv
  <2>2. Sound'
      BY SoundStep DEF IInv
  <2>3. Alone' /\ Told' /\ Keeping'
      BY <2>1, AloneStep, ToldStep, KeepingStep DEF IInv
  <2>4. Renewing' /\ WholeInv' /\ Current'
      BY <2>1, RenewingStep, WholeStep, CurrentStep DEF IInv
  <2>5. QED
      BY <2>2, <2>3, <2>4 DEF IInv, WholeInv
<1>3. IInv /\ UNCHANGED vars => IInv'
  <2> SUFFICES ASSUME IInv, UNCHANGED vars PROVE IInv'
      OBVIOUS
  <2>1. Sound'
      BY SoundStep DEF IInv
  <2>2. Alone' /\ Told' /\ Keeping' /\ Current'
      BY DEF IInv, vars, Alone, Only, Told, Keeping, Current, AllPresent, Present
  <2>3. Renewing'
      BY DEF IInv, vars, Renewing, Renews, Writes, Present, Content
  <2>4. WholeInv'
      BY DEF IInv, vars, WholeInv, Whole, Writes, Matched, AllPresent, Present, Pair, Content, AllIdle
  <2>5. QED
      BY <2>1, <2>2, <2>3, <2>4 DEF IInv, WholeInv
<1>4. QED
    BY <1>1, <1>2, <1>3, PTL DEF Spec

\* Every variable keeps its type; an inode has contents exactly as long as a
\* file name, a mount or a command that writes it refers to it.
THEOREM TypeCorrect == Spec => []TypeOK
<1>1. Spec => []Sound
    BY InitSound, SoundStep, PTL DEF Spec
<1>2. Sound => TypeOK
    BY DEF Sound
<1>3. QED
    BY <1>1, <1>2, PTL

\* Commands that run one after the other leave the two halves of one key pair, or
\* not both files: EnsureKeypair writes both anew when either is missing.  Torn
\* covers what the code does not promise: overlapping commands, a kill with both
\* files there, a directory in a file's place, until a keygen ran undisturbed.
THEOREM PairsMatch == Spec => []PairMatches
<1>1. IInv => PairMatches
    BY DEF IInv, WholeInv, Whole, Matched, PairMatches
<1>2. QED
    BY <1>1, Inductive, PTL

\* A running node reaches every other one as long as the pair was not renewed since
\* the nodes last were all down: they have the files that are in the directory.
THEOREM PeersReach == Spec => []PeersAfterRestart
<1>1. IInv => PeersAfterRestart
  <2> SUFFICES ASSUME IInv, AllIdle, ~torn, ~renewed, NEW m \in Nodes, NEW n \in Nodes,
                      node[m].state = "running", node[n].state = "running"
               PROVE  Pair(node[m].sees["priv"], node[n].sees["pub"])
      BY DEF PeersAfterRestart, Peers
  <2>1. node[m].sees = entry /\ node[n].sees = entry /\ AllPresent
      BY DEF IInv, Current
  <2>2. QED
      BY <2>1 DEF IInv, WholeInv, Whole, Matched
<1>2. QED
    BY <1>1, Inductive, PTL

\* A keygen that nobody disturbed ends with a new pair: RemoveAll took both old
\* files out, and what nodes still hold mounted is neither of the new ones.
THEOREM KeygenSound == Spec => KeygenRenews
<1>1. IInv /\ [Next]_vars =>
         [\A p \in Procs :
            clean = p /\ proc[p].cmd = "keygen" /\ proc'[p] = Idle
            => /\ Pair(entry["priv"], entry["pub"])'
               /\ \A n \in Nodes, f \in Files :
                     Content(node[n].sees[f])' # Content(entry["priv"])']_vars
  <2> SUFFICES ASSUME IInv, Next, NEW p \in Procs,
                      clean = p, proc[p].cmd = "keygen", proc'[p] = Idle
               PROVE  /\ Pair(entry["priv"], entry["pub"])'
                      /\ \A n \in Nodes, f \in Files :
                            Content(node[n].sees[f])' # Content(entry["priv"])'
      OBVIOUS
  <2>1. Core /\ Core' /\ Alone /\ Renews(p)
      BY SoundParts, CoreStep DEF IInv, Renewing
  <2>2. proc[p].pc # "idle" /\ Only(p)
      BY <2>1 DEF Alone
  <2>3. proc'[p].pc = "idle" /\ ~proc'[p].failed
      BY IdleCommand
  <2>4. ASSUME NEW q \in Procs, Begin(q) PROVE FALSE
    <3>1. proc[q].pc = "idle" /\ \A r \in Procs : r # q => proc'[r] = proc[r]
        BY <2>1, <2>4, BeginStep DEF Begin, Becomes
    <3>2. QED
        BY <2>2, <2>3, <3>1
  <2>5. ASSUME NEW q \in Procs, Continue(q)
        PROVE  /\ Pair(entry["priv"], entry["pub"])'
               /\ \A n \in Nodes, f \in Files :
                     Content(node[n].sees[f])' # Content(entry["priv"])'
    <3>1. EnsureStep(q) \/ RemoveStep(q) \/ UpNode(q)
        BY <2>5 DEF Continue
    <3>2. q = p
        BY <2>1, <2>2, <2>3, <3>1, ContinueFrame
    <3>3. QED
        BY <2>1, <2>3, <3>1, <3>2, KeygenEnds
  <2>6. ~Others
    <3>1. ASSUME NEW n \in Nodes, NodeStarts(n) \/ NodeStops(n) PROVE FALSE
        BY <2>1, <2>2, <2>3, <3>1, NodeStartsStep, NodeStopsStep
    <3>2. ASSUME NEW f \in Removable, UserRemoves(f) PROVE FALSE
        BY <2>1, <2>2, <2>3, <3>2, UserRemovesStep
    <3>3. ASSUME NEW q \in Killable, Killed(q) PROVE FALSE
      <4>1. q = p
          BY <2>1, <2>2, <2>3, <3>3, KilledStep DEF Becomes
      <4>2. proc'[p].failed
          BY <2>1, <3>3, <4>1, FailBecomes DEF Killed, Core
      <4>3. QED
          BY <2>3, <4>2
    <3>4. QED
        BY <3>1, <3>2, <3>3 DEF Others
  <2>7. QED
      BY <2>4, <2>5, <2>6 DEF Next
<1>2. QED
    BY <1>1, Inductive, PTL DEF Spec, KeygenRenews

\* An up that nobody disturbs leaves the key files alone when it found both:
\* EnsureKeypair returns before it writes, and the nodes find both paths.
THEOREM UpKeeps == Spec => UpKeepsKeys
<1>1. IInv /\ [Next]_vars =>
         [\A p \in Procs :
            (clean = p /\ proc'[p] # proc[p] /\ proc[p].cmd = "up" /\ had)
                => UNCHANGED files]_vars
  <2> SUFFICES ASSUME IInv, Next, NEW p \in Procs,
                      clean = p, proc'[p] # proc[p], proc[p].cmd = "up", had
               PROVE  UNCHANGED files
      OBVIOUS
  <2>1. Core /\ Alone /\ Keeping
      BY SoundParts DEF IInv
  <2>2. QED
      BY <2>1, UpKeepsStep
<1>2. QED
    BY <1>1, Inductive, PTL DEF Spec, UpKeepsKeys
=============================================================================
