--------------------------- MODULE VabbeLab_proofs ---------------------------
(***************************************************************************)
(* Proofs about VabbeLab, for any sets of labs, nodes, terminals, ids,     *)
(* configurations and foreign names.                                       *)
(***************************************************************************)
EXTENDS VabbeLab, SequenceTheorems, TLAPS

USE DEF NodePcs, ContainerPcs, UpPcs, DownPcs

-----------------------------------------------------------------------------
(* Typing: the daemon. *)

\* The parts of a container that no call changes while it exists.
SameIdentity(c) ==
    /\ conts'[c].state # "absent"
    /\ conts'[c].owner = conts[c].owner
    /\ conts'[c].node = conts[c].node
    /\ conts'[c].name = conts[c].name
    /\ conts'[c].spec = conts[c].spec

\* A call that acts on container c alone and leaves it what it is.
Touches(c) ==
    /\ conts' \in [Cids -> Container]
    /\ \A d \in Cids \ {c} : conts'[d] = conts[d]
    /\ SameIdentity(c)

\* Starting a container touches that container only.
LEMMA StartTouches ==
    ASSUME DaemonTypeOK, NEW c \in Cids, CanStart(c), ContainerStart(c)
    PROVE  Touches(c)
<1>1. CASE conts[c].state = "running"
  BY <1>1 DEF DaemonTypeOK, ContainerStart, Touches, SameIdentity
<1>2. CASE conts[c].state # "running"
  <2>1. PICK w \in Nids \cup {None}, a \in Addresses \cup {None} :
           conts' = [conts EXCEPT ![c].state = "running", ![c].netId = w,
                                       ![c].addr = a]
    BY <1>2 DEF ContainerStart
  <2>2. conts[c] \in Container
    BY DEF DaemonTypeOK
  <2> DEFINE k == [conts[c] EXCEPT !.state = "running", !.netId = w, !.addr = a]
  <2>3. conts' = [conts EXCEPT ![c] = k]
    BY <2>1
  <2>4. k \in Container
    BY <2>2 DEF Container
  <2>5. /\ k.state = "running" /\ k.owner = conts[c].owner
        /\ k.node = conts[c].node /\ k.name = conts[c].name
        /\ k.spec = conts[c].spec
    BY <2>2 DEF Container
  <2> HIDE DEF k
  <2>6. conts' \in [Cids -> Container] /\ conts'[c] = k
    BY <2>3, <2>4 DEF DaemonTypeOK
  <2> QED BY <2>3, <2>5, <2>6 DEF DaemonTypeOK, Touches, SameIdentity
<1> QED BY <1>1, <1>2

\* So does detaching it from its network.
LEMMA DisconnectTouches ==
    ASSUME DaemonTypeOK, NEW c \in Cids, Exists(c), conts' = NetworkDisconnect(c)
    PROVE  Touches(c)
<1>1. conts[c] \in Container
  BY DEF DaemonTypeOK
<1>2. conts'[c] \in Container /\ SameIdentity(c)
  BY <1>1 DEF DaemonTypeOK, NetworkDisconnect, Container, SameIdentity, Exists
<1> QED BY <1>2 DEF DaemonTypeOK, NetworkDisconnect, Touches

\* So does attaching it.
LEMMA ConnectTouches ==
    ASSUME DaemonTypeOK, NEW c \in Cids, Exists(c), NEW l,
           NEW pin \in Addresses \cup {None}, NetworkConnect(c, l, pin)
    PROVE  Touches(c)
<1>1. PICK w \in Nids \cup {None}, a \in Addresses \cup {None} :
         conts' = [conts EXCEPT ![c].attached = TRUE, ![c].netId = w, ![c].pin = pin,
                                   ![c].addr = a]
  BY DEF NetworkConnect
<1>2. conts[c] \in Container
  BY DEF DaemonTypeOK
<1> DEFINE k == [conts[c] EXCEPT !.attached = TRUE, !.netId = w, !.pin = pin, !.addr = a]
<1>3. conts' = [conts EXCEPT ![c] = k]
  BY <1>1
<1>4. k \in Container
  BY <1>2 DEF Container
<1>5. /\ k.state = conts[c].state /\ k.owner = conts[c].owner
      /\ k.node = conts[c].node /\ k.name = conts[c].name
      /\ k.spec = conts[c].spec
  BY <1>2 DEF Container
<1> HIDE DEF k
<1>6. conts' \in [Cids -> Container] /\ conts'[c] = k
  BY <1>3, <1>4 DEF DaemonTypeOK
<1> QED BY <1>3, <1>5, <1>6 DEF DaemonTypeOK, Touches, SameIdentity, Exists

\* A container that stops stays what it was.
LEMMA StopTouches ==
    ASSUME DaemonTypeOK, NEW c \in Cids, NodeStops(c)
    PROVE  Touches(c)
<1>1. conts[c] \in Container
  BY DEF DaemonTypeOK
<1>2. conts'[c] \in Container /\ SameIdentity(c)
  BY <1>1 DEF DaemonTypeOK, NodeStops, Container, SameIdentity
<1> QED BY <1>2 DEF DaemonTypeOK, NodeStops, Touches

LEMMA NoContainerTyped == NoContainer \in Container
BY DEF NoContainer, Container

LEMMA RemoveTyped ==
    ASSUME DaemonTypeOK, NEW c \in Cids, conts' = ContainerRemove(c)
    PROVE  /\ conts' \in [Cids -> Container]
           /\ ~Exists(c)'
           /\ \A d \in Cids \ {c} : conts'[d] = conts[d]
BY NoContainerTyped DEF DaemonTypeOK, ContainerRemove, Exists, NoContainer

LEMMA CreateTyped ==
    ASSUME DaemonTypeOK, NEW c \in Cids, NEW l \in Labs, NEW n \in Nodes,
           NEW pin \in Addresses \cup {None}, NEW spec \in NodeSpec,
           conts' = ContainerCreate(c, l, n, pin, spec)
    PROVE  /\ conts' \in [Cids -> Container]
           /\ \A d \in Cids \ {c} : conts'[d] = conts[d]
           /\ conts'[c].owner = l
           /\ conts'[c].node = n
           /\ conts'[c].name = NameOf[<<l, n>>]
           /\ conts'[c].spec = spec
<1>1. NameOf[<<l, n>>] \in Names
  BY DaemonAssumption
<1> QED BY <1>1 DEF DaemonTypeOK, ContainerCreate, Container

-----------------------------------------------------------------------------
(* Typing: the commands. *)

LEMMA IdleTyped == Idle \in Command /\ Idle.pc = "idle"
<1>1. NoSummary \in Summary
  BY DEF NoSummary, SummaryOf, NoContainer, Summary
<1>2. /\ Idle.pc = "idle" /\ Idle.lab = None /\ Idle.cfg = NoConfig /\ Idle.i = 1
      /\ Idle.recreate = FALSE /\ Idle.keepNet = FALSE /\ Idle.id = None
      /\ Idle.seen = NoSummary /\ Idle.todo = {} /\ Idle.warned = {}
      /\ Idle.exit = "none"
  BY DEF Idle
<1> QED BY <1>1 DEF Idle, Command

LEMMA ExitTyped ==
    ASSUME NEW code \in {"none", "ok", "error"}, NEW w \in SUBSET Nodes,
           NEW r, r = [Idle EXCEPT !.exit = code, !.warned = w]
    PROVE  r \in Command /\ CommandOK(r) /\ r.pc = "idle"
<1>1. r \in Command /\ r.pc = "idle"
  BY IdleTyped DEF Command
<1> QED BY <1>1 DEF CommandOK

\* Only the record of the command that acts changes.
LEMMA Update ==
    ASSUME TypeOK, NEW p \in Procs, NEW r, r \in Command, CommandOK(r),
           proc' = [proc EXCEPT ![p] = r]
    PROVE  /\ proc' \in [Procs -> Command]
           /\ \A q \in Procs : CommandOK(proc'[q])
           /\ proc'[p] = r
           /\ \A q \in Procs \ {p} : proc'[q] = proc[q]
BY DEF TypeOK

\* What a step of command p may do to the table of commands.
Steps(p) ==
    /\ proc' \in [Procs -> Command]
    /\ \A q \in Procs : CommandOK(proc'[q])
    /\ \A q \in Procs \ {p} : proc'[q] = proc[q]

LEMMA ExitSteps ==
    ASSUME TypeOK, NEW p \in Procs, NEW code \in {"none", "ok", "error"}, Exit(p, code)
    PROVE  Steps(p) /\ proc'[p].pc = "idle"
<1> DEFINE r == [Idle EXCEPT !.exit = code]
<1>1. r \in Command /\ r.pc = "idle"
  BY IdleTyped DEF Command
<1>2. proc' = [proc EXCEPT ![p] = r]
  BY DEF Exit
<1> HIDE DEF r
<1>3. CommandOK(r)
  BY <1>1 DEF CommandOK
<1> QED BY <1>1, <1>2, <1>3, Update DEF Steps

LEMMA GoSteps ==
    ASSUME TypeOK, NEW p \in Procs, NEW pc \in NodePcs, NEW c, NEW s \in Summary,
           proc[p].pc \in NodePcs, c \in Cids \/ (c = None /\ pc \notin ContainerPcs),
           GoWith(p, pc, c, s)
    PROVE  /\ Steps(p)
           /\ proc'[p].pc = pc /\ proc'[p].id = c
           /\ proc'[p].lab = proc[p].lab /\ proc'[p].cfg = proc[p].cfg
           /\ proc'[p].i = proc[p].i /\ proc'[p].recreate = proc[p].recreate
<1> DEFINE s1 == IF pc \in {"drift", "restart"} THEN s ELSE NoSummary
           r == [proc[p] EXCEPT !.pc = pc, !.id = c, !.seen = s1]
<1>1. proc[p] \in Command /\ CommandOK(proc[p])
  BY DEF TypeOK
<1>2. s1 \in Summary
  BY DEF NoSummary, SummaryOf, NoContainer, Summary
<1>3. proc' = [proc EXCEPT ![p] = r]
  BY DEF GoWith
<1> HIDE DEF s1
<1>4. r \in Command
  <2>1. pc \in {"idle"} \cup UpPcs \cup DownPcs /\ c \in Cids \cup {None}
    OBVIOUS
  <2> HIDE DEF NodePcs, ContainerPcs, UpPcs, DownPcs
  <2> QED BY <1>1, <1>2, <2>1 DEF Command
<1>5. /\ r.pc = pc /\ r.id = c /\ r.lab = proc[p].lab /\ r.cfg = proc[p].cfg
      /\ r.i = proc[p].i /\ r.recreate = proc[p].recreate
  BY <1>1 DEF Command
<1>6. CommandOK(r)
  BY <1>1, <1>5 DEF CommandOK
<1> QED BY <1>3, <1>4, <1>5, <1>6, Update DEF Steps

LEMMA VisitSteps ==
    ASSUME TypeOK, NEW p \in Procs, NEW i \in Nat \ {0}, NEW w \in SUBSET Nodes,
           proc[p].pc \in UpPcs, Visit(p, i, w)
    PROVE  Steps(p) /\ proc'[p].pc \in {"idle", "find"}
<1>1. proc[p] \in Command /\ CommandOK(proc[p])
  BY DEF TypeOK
<1>2. CASE i > Len(proc[p].cfg.nodes)
  <2> DEFINE r == [Idle EXCEPT !.exit = "ok", !.warned = w]
  <2>1. proc' = [proc EXCEPT ![p] = r]
    BY <1>2 DEF Visit
  <2>2. r \in Command /\ CommandOK(r) /\ r.pc = "idle"
    BY ExitTyped
  <2> QED BY <2>1, <2>2, Update DEF Steps
<1>3. CASE ~(i > Len(proc[p].cfg.nodes))
  <2> DEFINE r == [proc[p] EXCEPT !.pc = "find", !.i = i, !.id = None,
                                  !.seen = NoSummary, !.warned = w]
  <2>1. proc' = [proc EXCEPT ![p] = r]
    BY <1>3 DEF Visit
  <2>2. NoSummary \in Summary
    BY DEF NoSummary, SummaryOf, NoContainer, Summary
  <2>3. r \in Command
    BY <1>1, <2>2 DEF Command
  <2>4. Len(proc[p].cfg.nodes) \in Nat
    <3>1. proc[p].cfg.nodes \in Seq(NodeCfg)
      <4>1. proc[p].cfg \in AllConfigs \cup {NoConfig}
        BY <1>1 DEF Command
      <4>2. CASE proc[p].cfg = NoConfig
        BY <4>2, EmptySeq DEF NoConfig
      <4>3. CASE proc[p].cfg \in AllConfigs
        BY <4>3, LabAssumption DEF LabCfg, AllConfigs
      <4> QED BY <4>1, <4>2, <4>3
    <3> QED BY <3>1, LenProperties
  <2>5. r.pc = "find" /\ r.i = i /\ r.cfg = proc[p].cfg /\ r.lab = proc[p].lab
    BY <1>1 DEF Command
  <2>6. CommandOK(r)
    BY <1>1, <1>3, <2>4, <2>5 DEF CommandOK
  <2> QED BY <2>1, <2>3, <2>5, <2>6, Update DEF Steps
<1> QED BY <1>2, <1>3

\* The node a command works on is a node of its configuration.
LEMMA CurrentNodeTyped ==
    ASSUME TypeOK, NEW p \in Procs, proc[p].pc \in NodePcs
    PROVE  /\ CurrentNode(p) \in NodeCfg
           /\ proc[p].lab \in Labs
           /\ proc[p].i \in Nat \ {0}
<1>1. proc[p] \in Command /\ CommandOK(proc[p])
  BY DEF TypeOK
<1>2. proc[p].i \in 1..Len(proc[p].cfg.nodes)
  BY <1>1 DEF CommandOK
<1>3. proc[p].cfg # NoConfig
  BY <1>2, EmptySeq DEF NoConfig
<1>4. proc[p].cfg.nodes \in Seq(NodeCfg)
  BY <1>1, <1>3, LabAssumption DEF Command, LabCfg, AllConfigs
<1>5. Len(proc[p].cfg.nodes) \in Nat
  BY <1>4, LenProperties
<1>6. CurrentNode(p) \in NodeCfg
  BY <1>2, <1>4, ElementOfSeq DEF CurrentNode
<1> QED BY <1>1, <1>2, <1>5, <1>6 DEF CommandOK

-----------------------------------------------------------------------------
(* The inductive invariant. *)

\* A container name is taken once, and vabbe's names say whose node it is.
NamesUnique ==
    \A c, d \in Cids :
        (Exists(c) /\ Exists(d) /\ conts[c].name = conts[d].name) => c = d

NamedByNode ==
    \A c \in Cids : (Exists(c) /\ conts[c].owner # None) =>
        conts[c].name = NameOf[<<conts[c].owner, conts[c].node>>]

\* What a command of lab l, or of all labs, may touch.
OwnedBy(owner, l) == owner # None /\ (l # None => owner = l)

\* While up holds the id of a container, no other node's container gets it.
Holding(p) ==
    (proc[p].pc \in ContainerPcs /\ Exists(proc[p].id)) =>
        /\ conts[proc[p].id].owner = proc[p].lab
        /\ conts[proc[p].id].node = CurrentNode(p).name

\* What up is about to remove, it was told to remove and still differs.
Removing(p) ==
    /\ proc[p].pc \in {"drift", "remove"} => proc[p].recreate
    /\ (proc[p].pc = "remove" /\ Exists(proc[p].id)) =>
           Drifted(proc[p].id, CurrentNode(p).spec)

\* What down has listed is still its to remove.
Listed(p) ==
    /\ proc[p].pc = "rmConts" =>
           \A c \in proc[p].todo : Exists(c) => OwnedBy(conts[c].owner, proc[p].lab)
    /\ proc[p].pc = "rmNets" =>
           \A n \in proc[p].todo :
               nets[n].name # None => OwnedBy(nets[n].owner, proc[p].lab)

Safe(p) == Holding(p) /\ Removing(p) /\ Listed(p)

IInv ==
    /\ TypeOK
    /\ NamesUnique
    /\ NamedByNode
    /\ \A p \in Procs : Safe(p)

-----------------------------------------------------------------------------
(* What a step does to the daemon and what it leaves alone. *)

Keeps ==
    /\ conts' \in [Cids -> Container]
    /\ \A c \in Cids : Exists(c)' => Exists(c) /\ SameIdentity(c)

Adds(c) ==
    /\ conts' \in [Cids -> Container]
    /\ c \in NewCids
    /\ \A d \in Cids \ {c} : conts'[d] = conts[d]
    /\ NameFree(conts'[c].name)
    /\ conts'[c].owner # None =>
           conts'[c].name = NameOf[<<conts'[c].owner, conts'[c].node>>]

ContsStep == Keeps \/ \E c \in Cids : Adds(c)

NetsStep ==
    /\ nets' \in [Nids -> Network]
    /\ \A n \in Nids : nets'[n].name # None => nets'[n] = nets[n] \/ n \in NewNids

\* What a step of command p may change.
Rightful(p) ==
    /\ \A c \in Cids : (Exists(c) /\ conts'[c] # conts[c]) =>
           OwnedBy(conts[c].owner, proc[p].lab)
    /\ \A n \in Nids : (nets[n].name # None /\ nets'[n] # nets[n]) =>
           OwnedBy(nets[n].owner, proc[p].lab)
    /\ IsUp(p) => \A c \in Cids : (Exists(c) /\ ~Exists(c)') =>
           /\ proc[p].recreate
           /\ conts[c].owner = proc[p].lab
           /\ conts[c].node = CurrentNode(p).name
           /\ Drifted(c, CurrentNode(p).spec)

DaemonStep(p) == ContsStep /\ NetsStep /\ Rightful(p)
Good(p) == Steps(p) /\ DaemonStep(p) /\ Safe(p)'

LEMMA ContsStay == ASSUME DaemonTypeOK, UNCHANGED conts PROVE Keeps
BY DEF Keeps, DaemonTypeOK, Exists, SameIdentity

LEMMA NetsStay == ASSUME DaemonTypeOK, UNCHANGED nets PROVE NetsStep
BY DEF NetsStep, DaemonTypeOK

LEMMA TouchKeeps ==
    ASSUME NEW c \in Cids, DaemonTypeOK, Exists(c), Touches(c)
    PROVE  Keeps
BY DEF Keeps, Touches, SameIdentity, DaemonTypeOK, Exists

\* A step that calls nothing, or whose call was refused.
LEMMA QuietStep ==
    ASSUME IInv, NEW p \in Procs, UNCHANGED <<conts, nets>>
    PROVE  Keeps /\ DaemonStep(p)
<1>1. Keeps /\ NetsStep
  BY ContsStay, NetsStay DEF IInv, TypeOK
<1>2. Rightful(p)
  BY DEF Rightful, Exists
<1> QED BY <1>1, <1>2 DEF DaemonStep, ContsStep

\* A call on the container up has found.
LEMMA TouchStep ==
    ASSUME IInv, NEW p \in Procs, proc[p].pc \in ContainerPcs,
           Exists(proc[p].id), Touches(proc[p].id), UNCHANGED nets
    PROVE  Keeps /\ DaemonStep(p)
<1>1. proc[p].id \in Cids /\ proc[p].lab \in Labs /\ DaemonTypeOK
  BY DEF IInv, TypeOK, CommandOK
<1>2. Keeps /\ NetsStep
  BY <1>1, TouchKeeps, NetsStay
<1>3. conts[proc[p].id].owner = proc[p].lab
  BY DEF IInv, Safe, Holding
<1>4. \A c \in Cids : (Exists(c) /\ conts'[c] # conts[c]) =>
          OwnedBy(conts[c].owner, proc[p].lab)
  BY <1>1, <1>3, DaemonAssumption DEF Touches, OwnedBy
<1>5. \A c \in Cids : Exists(c) => Exists(c)'
  BY <1>1 DEF Touches, SameIdentity, Exists
<1>6. Rightful(p)
  BY <1>4, <1>5 DEF Rightful
<1> QED BY <1>2, <1>6 DEF DaemonStep, ContsStep

\* No step harms the commands that do not take it.
LEMMA OthersSafe ==
    ASSUME IInv, NEW q \in Procs, proc'[q] = proc[q], ContsStep, NetsStep
    PROVE  Safe(q)'
<1>1. proc[q] \in Command /\ CommandOK(proc[q]) /\ Safe(q) /\ DaemonTypeOK
  BY DEF IInv, TypeOK
<1>2. CurrentNode(q)' = CurrentNode(q)
  BY DEF CurrentNode
<1>3. \A c \in Cids : Exists(c)' => \/ Exists(c) /\ SameIdentity(c)
                                    \/ c \in NewCids
  BY <1>1 DEF ContsStep, Keeps, Adds, Exists, SameIdentity
<1>4. Holding(q)'
  <2>1. SUFFICES ASSUME proc[q].pc \in ContainerPcs, Exists(proc[q].id)'
                 PROVE  /\ conts'[proc[q].id].owner = proc[q].lab
                        /\ conts'[proc[q].id].node = CurrentNode(q).name
    BY <1>2 DEF Holding
  <2>2. proc[q].id \in Cids /\ proc[q].id \notin NewCids
    BY <1>1, <2>1 DEF CommandOK, NewCids
  <2>3. Exists(proc[q].id) /\ SameIdentity(proc[q].id)
    BY <1>3, <2>1, <2>2
  <2> QED BY <1>1, <2>1, <2>3 DEF Safe, Holding, SameIdentity
<1>5. Removing(q)'
  <2>1. proc[q].pc \in {"drift", "remove"} => proc[q].recreate
    BY <1>1 DEF Safe, Removing
  <2>2. ASSUME proc[q].pc = "remove", Exists(proc[q].id)'
        PROVE  Drifted(proc[q].id, CurrentNode(q).spec)'
    <3>1. proc[q].id \in Cids /\ proc[q].id \notin NewCids
      BY <1>1, <2>2 DEF CommandOK, NewCids
    <3>2. Exists(proc[q].id) /\ SameIdentity(proc[q].id)
      BY <1>3, <2>2, <3>1
    <3>3. Drifted(proc[q].id, CurrentNode(q).spec)
      BY <1>1, <2>2, <3>2 DEF Safe, Removing
    <3> QED BY <1>2, <2>2, <3>2, <3>3 DEF Drifted, SameIdentity
  <2> QED BY <2>1, <2>2 DEF Removing
<1>6. Listed(q)'
  <2>1. ASSUME proc[q].pc = "rmConts", NEW c \in proc[q].todo, Exists(c)'
        PROVE  OwnedBy(conts'[c].owner, proc[q].lab)
    <3>1. c \in Cids /\ c \notin NewCids
      BY <1>1, <2>1 DEF CommandOK, NewCids
    <3>2. Exists(c) /\ SameIdentity(c)
      BY <1>3, <2>1, <3>1
    <3> QED BY <1>1, <2>1, <3>2 DEF Safe, Listed, SameIdentity
  <2>2. ASSUME proc[q].pc = "rmNets", NEW n \in proc[q].todo, nets'[n].name # None
        PROVE  OwnedBy(nets'[n].owner, proc[q].lab)
    <3>1. n \in Nids /\ n \notin NewNids
      BY <1>1, <2>2 DEF CommandOK, NewNids
    <3>2. nets'[n] = nets[n]
      BY <2>2, <3>1 DEF NetsStep
    <3> QED BY <1>1, <2>2, <3>2 DEF Safe, Listed
  <2> QED BY <2>1, <2>2 DEF Listed
<1> QED BY <1>4, <1>5, <1>6 DEF Safe

\* Names stay unique and keep saying whose node a container is.
LEMMA NamesKept ==
    ASSUME IInv, ContsStep
    PROVE  NamesUnique' /\ NamedByNode'
<1>1. CASE Keeps
  BY <1>1 DEF IInv, Keeps, SameIdentity, NamesUnique, NamedByNode
<1>2. CASE \E c \in Cids : Adds(c)
  <2>1. PICK c \in Cids : Adds(c)
    BY <1>2
  <2>2. \A d \in Cids \ {c} : Exists(d)' <=> Exists(d)
    BY <2>1 DEF Adds, Exists
  <2>3. \A d \in Cids \ {c} : Exists(d)' => conts'[d].name # conts'[c].name
    BY <2>1, <2>2 DEF Adds, NameFree
  <2>4. NamesUnique'
    BY <2>1, <2>2, <2>3 DEF IInv, NamesUnique, Adds
  <2>5. NamedByNode'
    BY <2>1, <2>2 DEF IInv, NamedByNode, Adds
  <2> QED BY <2>4, <2>5
<1> QED BY <1>1, <1>2 DEF ContsStep

\* A command between two nodes, at its start or at its end relies on nothing.
LEMMA FreeSafe ==
    ASSUME NEW p \in Procs,
           proc'[p].pc \in {"idle", "inspectNet", "createNet", "find", "create", "list"}
    PROVE  Safe(p)'
BY DEF Safe, Holding, Removing, Listed

\* Going on with the container at hand, restarted, moved or warned about next.
LEMMA GoSafe ==
    ASSUME IInv, NEW p \in Procs, NEW pc \in NodePcs, NEW s \in Summary,
           proc[p].pc \in ContainerPcs, GoWith(p, pc, proc[p].id, s), Keeps,
           pc \notin {"find", "create", "drift", "remove"}
    PROVE  Steps(p) /\ Safe(p)'
<1>1. proc[p].id \in Cids /\ TypeOK /\ Safe(p)
  BY DEF IInv, TypeOK, CommandOK
<1>2. /\ Steps(p)
      /\ proc'[p].pc = pc /\ proc'[p].id = proc[p].id
      /\ proc'[p].lab = proc[p].lab /\ proc'[p].cfg = proc[p].cfg
      /\ proc'[p].i = proc[p].i /\ proc'[p].recreate = proc[p].recreate
  BY <1>1, GoSteps
<1>3. CurrentNode(p)' = CurrentNode(p)
  BY <1>2 DEF CurrentNode
<1>4. Holding(p)'
  BY <1>1, <1>2, <1>3 DEF Safe, Holding, Keeps, SameIdentity
<1>5. Removing(p)' /\ Listed(p)'
  BY <1>2 DEF Removing, Listed
<1> QED BY <1>2, <1>4, <1>5 DEF Safe

\* A command that gives up or is done.
LEMMA ExitGood ==
    ASSUME IInv, NEW p \in Procs, NEW code \in {"none", "ok", "error"},
           Exit(p, code), DaemonStep(p)
    PROVE  Good(p)
<1>1. Steps(p) /\ proc'[p].pc = "idle"
  BY ExitSteps DEF IInv
<1> QED BY <1>1, FreeSafe DEF Good

\* An up that goes on with another node.
LEMMA VisitGood ==
    ASSUME IInv, NEW p \in Procs, NEW i \in Nat \ {0}, NEW w \in SUBSET Nodes,
           proc[p].pc \in UpPcs, Visit(p, i, w), DaemonStep(p)
    PROVE  Good(p)
<1>1. Steps(p) /\ proc'[p].pc \in {"idle", "find"}
  BY VisitSteps DEF IInv
<1> QED BY <1>1, FreeSafe DEF Good

LEMMA NextNodeGood ==
    ASSUME IInv, NEW p \in Procs, proc[p].pc \in NodePcs, NextNode(p), DaemonStep(p)
    PROVE  Good(p)
<1>1. proc[p].i + 1 \in Nat \ {0}
  BY CurrentNodeTyped DEF IInv
<1>2. proc[p].warned \in SUBSET Nodes
  BY DEF IInv, TypeOK, Command
<1> QED BY <1>1, <1>2, VisitGood DEF NextNode

LEMMA SummaryTyped ==
    ASSUME TypeOK, NEW p \in Procs
    PROVE  /\ proc[p].seen \in Summary
           /\ NoSummary \in Summary
           /\ \A c \in Cids : SummaryOf(conts[c]) \in Summary
<1>1. proc[p].seen \in Summary
  BY DEF TypeOK, Command
<1>2. \A c \in Container : SummaryOf(c) \in Summary
  BY DEF SummaryOf, Summary, Container
<1> QED BY <1>1, <1>2, NoContainerTyped DEF TypeOK, DaemonTypeOK, NoSummary

\* reconcile goes to one of these.
LEMMA ReconcileTyped ==
    \A s, node : /\ AttachPc(s, node) \in {"connect", "disconnect", "warn"}
                 /\ ReconcilePc(s, node) \in {"restart", "connect", "disconnect", "warn"}
BY DEF AttachPc, ReconcilePc

-----------------------------------------------------------------------------
(* The steps of up. *)

LEMMA StartUpGood ==
    ASSUME IInv, NEW p \in Procs, NEW l \in Labs, NEW b \in BOOLEAN, StartUp(p, l, b)
    PROVE  Good(p)
<1> DEFINE r == [Idle EXCEPT !.pc = "inspectNet", !.lab = l, !.cfg = yaml[l],
                             !.recreate = b]
<1>1. yaml[l] \in AllConfigs
  BY DEF IInv, TypeOK
<1>2. r \in Command
  BY <1>1, IdleTyped DEF Command
<1>3. r.pc = "inspectNet" /\ r.lab = l
  BY IdleTyped DEF Command
<1>4. CommandOK(r)
  BY <1>3 DEF CommandOK
<1>5. proc' = [proc EXCEPT ![p] = r]
  BY DEF StartUp
<1>6. Steps(p) /\ proc'[p] = r
  BY <1>2, <1>4, <1>5, Update DEF IInv, Steps
<1>7. DaemonStep(p)
  BY QuietStep DEF StartUp
<1> QED BY <1>3, <1>6, <1>7, FreeSafe DEF Good

LEMMA InspectNetGood ==
    ASSUME IInv, NEW p \in Procs, InspectNet(p)
    PROVE  Good(p)
<1>1. DaemonStep(p)
  BY QuietStep DEF InspectNet
<1>2. proc[p].pc = "inspectNet" /\ proc[p] \in Command /\ CommandOK(proc[p])
  BY DEF InspectNet, IInv, TypeOK
<1>3. CASE Goto(p, "createNet")
  <2> DEFINE r == [proc[p] EXCEPT !.pc = "createNet", !.id = proc[p].id,
                                  !.seen = NoSummary]
  <2>1. proc' = [proc EXCEPT ![p] = r]
    BY <1>3 DEF Goto, GoWith
  <2>2. r \in Command /\ r.pc = "createNet" /\ r.lab = proc[p].lab
    BY <1>2, SummaryTyped DEF IInv, Command
  <2>3. CommandOK(r)
    BY <1>2, <2>2 DEF CommandOK
  <2>4. Steps(p) /\ proc'[p] = r
    BY <2>1, <2>2, <2>3, Update DEF IInv, Steps
  <2> QED BY <1>1, <2>2, <2>4, FreeSafe DEF Good
<1>4. CASE Visit(p, 1, {})
  BY <1>1, <1>2, <1>4, VisitGood
<1>5. CASE Exit(p, "error")
  BY <1>1, <1>5, ExitGood
<1> QED BY <1>3, <1>4, <1>5 DEF InspectNet

LEMMA CreateNetGood ==
    ASSUME IInv, NEW p \in Procs, CreateNet(p)
    PROVE  Good(p)
<1>1. proc[p].pc = "createNet" /\ proc[p].lab \in Labs /\ DaemonTypeOK
  BY DEF CreateNet, IInv, TypeOK, CommandOK
<1>2. Keeps
  BY <1>1, ContsStay DEF CreateNet
<1>3. \A c \in Cids : conts'[c] = conts[c]
  BY DEF CreateNet
<1>4. CASE UNCHANGED nets /\ Exit(p, "error")
  <2>1. DaemonStep(p)
    BY <1>4, QuietStep DEF CreateNet
  <2> QED BY <1>4, <2>1, ExitGood
<1>5. ASSUME NEW n \in NewNids, NEW s \in Subnets,
             nets' = NetworkCreate(n, proc[p].lab, s), Visit(p, 1, {})
      PROVE  Good(p)
  <2>1. n \in Nids /\ nets[n].name = None
    BY DEF NewNids
  <2>2. nets' \in [Nids -> Network]
    BY <1>1, <1>5, <2>1 DEF DaemonTypeOK, NetworkCreate, Network
  <2>3. \A m \in Nids \ {n} : nets'[m] = nets[m]
    BY <1>1, <1>5 DEF DaemonTypeOK, NetworkCreate
  <2>4. NetsStep
    BY <2>1, <2>2, <2>3 DEF NetsStep
  <2>5. Rightful(p)
    BY <1>3, <2>1, <2>3 DEF Rightful, Exists
  <2>6. DaemonStep(p)
    BY <1>2, <2>4, <2>5 DEF DaemonStep, ContsStep
  <2> QED BY <1>1, <1>5, <2>6, VisitGood
<1> QED BY <1>4, <1>5 DEF CreateNet

LEMMA FindNodeGood ==
    ASSUME IInv, NEW p \in Procs, FindNode(p)
    PROVE  Good(p)
<1>1. proc[p].pc = "find" /\ TypeOK /\ CurrentNode(p) \in NodeCfg
  BY CurrentNodeTyped DEF FindNode, IInv
<1>2. DaemonStep(p)
  BY QuietStep DEF FindNode
<1>3. CASE Goto(p, "create")
  <2>1. proc[p].id \in Cids \cup {None} /\ proc[p].seen \in Summary
    BY <1>1 DEF TypeOK, Command
  <2>2. Steps(p) /\ proc'[p].pc = "create"
    BY <1>1, <1>3, <2>1, GoSteps DEF Goto
  <2> QED BY <1>2, <2>2, FreeSafe DEF Good
<1>4. ASSUME NEW c \in NodeContainers(proc[p].lab, CurrentNode(p).name),
             NEW pc, pc = IF proc[p].recreate THEN "drift"
                          ELSE ReconcilePc(SummaryOf(conts[c]), CurrentNode(p)),
             GoWith(p, pc, c, SummaryOf(conts[c]))
      PROVE  Good(p)
  <2>1. /\ c \in Cids /\ conts[c].owner = proc[p].lab
        /\ conts[c].node = CurrentNode(p).name
    BY <1>4 DEF NodeContainers
  <2>2. pc \in {"drift", "restart", "connect", "disconnect", "warn"}
    BY <1>4, ReconcileTyped
  <2>3. /\ Steps(p)
        /\ proc'[p].pc = pc /\ proc'[p].id = c
        /\ proc'[p].lab = proc[p].lab /\ proc'[p].cfg = proc[p].cfg
        /\ proc'[p].i = proc[p].i /\ proc'[p].recreate = proc[p].recreate
    BY <1>1, <1>4, <2>1, <2>2, GoSteps, SummaryTyped
  <2>4. CurrentNode(p)' = CurrentNode(p) /\ conts' = conts
    BY <2>3 DEF CurrentNode, FindNode
  <2>5. Holding(p)'
    BY <2>1, <2>3, <2>4 DEF Holding
  <2>6. Removing(p)'
    BY <1>4, <2>2, <2>3, ReconcileTyped DEF Removing
  <2>7. Listed(p)'
    BY <2>2, <2>3 DEF Listed
  <2> QED BY <1>2, <2>3, <2>5, <2>6, <2>7 DEF Good, Safe
<1> QED BY <1>3, <1>4 DEF FindNode

LEMMA CheckDriftGood ==
    ASSUME IInv, NEW p \in Procs, CheckDrift(p)
    PROVE  Good(p)
<1>1. proc[p].pc = "drift" /\ TypeOK /\ Safe(p) /\ proc[p].id \in Cids
  BY DEF CheckDrift, IInv, TypeOK, CommandOK
<1>2. Keeps /\ DaemonStep(p)
  BY QuietStep DEF CheckDrift
<1>3. CASE Drifted(proc[p].id, CurrentNode(p).spec)
  <2>1. /\ Steps(p)
        /\ proc'[p].pc = "remove" /\ proc'[p].id = proc[p].id
        /\ proc'[p].lab = proc[p].lab /\ proc'[p].cfg = proc[p].cfg
        /\ proc'[p].i = proc[p].i /\ proc'[p].recreate = proc[p].recreate
    BY <1>1, <1>3, GoSteps, SummaryTyped DEF CheckDrift, Goto
  <2>2. CurrentNode(p)' = CurrentNode(p) /\ conts' = conts
    BY <2>1 DEF CurrentNode, CheckDrift
  <2>3. Holding(p)'
    BY <1>1, <2>1, <2>2 DEF Safe, Holding, Exists
  <2>4. Removing(p)'
    BY <1>1, <1>3, <2>1, <2>2 DEF Safe, Removing, Drifted, Exists
  <2>5. Listed(p)'
    BY <2>1 DEF Listed
  <2> QED BY <1>2, <2>1, <2>3, <2>4, <2>5 DEF Good, Safe
<1>4. CASE ~Drifted(proc[p].id, CurrentNode(p).spec)
  <2> DEFINE pc == ReconcilePc(proc[p].seen, CurrentNode(p))
  <2>1. pc \in {"restart", "connect", "disconnect", "warn"}
    BY ReconcileTyped
  <2>2. GoWith(p, pc, proc[p].id, proc[p].seen)
    BY <1>4 DEF CheckDrift, Goto
  <2>3. Steps(p) /\ Safe(p)'
    BY <1>1, <1>2, <2>1, <2>2, GoSafe, SummaryTyped
  <2> QED BY <1>2, <2>3 DEF Good
<1> QED BY <1>3, <1>4

LEMMA RemoveDriftedGood ==
    ASSUME IInv, NEW p \in Procs, RemoveDrifted(p)
    PROVE  Good(p)
<1>0. PICK id \in Cids : id = proc[p].id
  BY DEF RemoveDrifted, IInv, TypeOK, CommandOK
<1>1. /\ proc[p].pc = "remove" /\ TypeOK /\ Safe(p)
      /\ proc[p].lab \in Labs /\ UNCHANGED nets
  BY DEF RemoveDrifted, IInv, TypeOK, CommandOK
<1>2. CASE ~Exists(id)
  <2>1. Exit(p, "error") /\ DaemonStep(p)
    BY <1>0, <1>1, <1>2, QuietStep DEF RemoveDrifted
  <2> QED BY <2>1, ExitGood
<1>3. CASE Exists(id)
  <2>1. conts' = ContainerRemove(id) /\ GoWith(p, "create", None, NoSummary)
    BY <1>0, <1>3 DEF RemoveDrifted
  <2>2. /\ conts' \in [Cids -> Container]
        /\ ~Exists(id)'
        /\ \A d \in Cids \ {id} : conts'[d] = conts[d]
    BY <1>1, <2>1, RemoveTyped DEF TypeOK
  <2>3. Keeps /\ NetsStep
    BY <1>1, <2>2, NetsStay DEF Keeps, SameIdentity, Exists, TypeOK
  <2>4. /\ conts[id].owner = proc[p].lab /\ conts[id].node = CurrentNode(p).name
        /\ proc[p].recreate /\ Drifted(id, CurrentNode(p).spec)
    BY <1>0, <1>1, <1>3 DEF Safe, Holding, Removing
  <2>5. OwnedBy(conts[id].owner, proc[p].lab)
    BY <1>1, <2>4, DaemonAssumption DEF OwnedBy
  <2>6. Rightful(p)
    BY <1>1, <2>2, <2>4, <2>5 DEF Rightful, Exists
  <2>7. Steps(p) /\ proc'[p].pc = "create"
    BY <1>1, <2>1, GoSteps, SummaryTyped
  <2> QED BY <2>3, <2>6, <2>7, FreeSafe DEF Good, DaemonStep, ContsStep
<1> QED BY <1>2, <1>3

LEMMA CreateNodeGood ==
    ASSUME IInv, NEW p \in Procs, CreateNode(p)
    PROVE  Good(p)
<1> DEFINE l == proc[p].lab
           node == CurrentNode(p)
<1>1. /\ proc[p].pc = "create" /\ TypeOK /\ UNCHANGED nets
      /\ l \in Labs /\ node \in NodeCfg
  BY CurrentNodeTyped DEF CreateNode, IInv
<1>2. CASE ~NameFree(NameOf[<<l, node.name>>])
  <2>1. Exit(p, "error") /\ DaemonStep(p)
    BY <1>1, <1>2, QuietStep DEF CreateNode
  <2> QED BY <2>1, ExitGood
<1>3. CASE NameFree(NameOf[<<l, node.name>>])
  <2>1. PICK c \in NewCids :
           /\ conts' = ContainerCreate(c, l, node.name, node.ip, node.spec)
           /\ GoWith(p, "start", c, NoSummary)
    BY <1>3 DEF CreateNode
  <2>2. c \in Cids /\ ~Exists(c)
    BY DEF NewCids
  <2>3. node.name \in Nodes /\ node.ip \in Addresses \cup {None} /\ node.spec \in NodeSpec
    BY <1>1 DEF NodeCfg
  <2>4. /\ conts' \in [Cids -> Container]
        /\ \A d \in Cids \ {c} : conts'[d] = conts[d]
        /\ conts'[c].owner = l
        /\ conts'[c].node = node.name
        /\ conts'[c].name = NameOf[<<l, node.name>>]
    <3> HIDE DEF l, node
    <3> QED BY <1>1, <2>1, <2>2, <2>3, CreateTyped DEF TypeOK
  <2>5. Adds(c) /\ NetsStep
    <3>1. Adds(c)
      BY <1>1, <1>3, <2>2, <2>4 DEF Adds
    <3> QED BY <1>1, <3>1, NetsStay DEF TypeOK
  <2>6. Rightful(p)
    BY <1>1, <2>2, <2>4 DEF Rightful, Exists
  <2>7. /\ Steps(p)
        /\ proc'[p].pc = "start" /\ proc'[p].id = c
        /\ proc'[p].lab = proc[p].lab /\ proc'[p].cfg = proc[p].cfg
        /\ proc'[p].i = proc[p].i /\ proc'[p].recreate = proc[p].recreate
    BY <1>1, <2>1, <2>2, GoSteps, SummaryTyped
  <2>8. CurrentNode(p)' = node
    BY <2>7 DEF CurrentNode
  <2>9. Safe(p)'
    BY <2>4, <2>7, <2>8 DEF Safe, Holding, Removing, Listed
  <2> QED BY <2>2, <2>5, <2>6, <2>7, <2>9 DEF Good, DaemonStep, ContsStep
<1> QED BY <1>2, <1>3

\* A start that is accepted touches the container up holds.
LEMMA StartStep ==
    ASSUME IInv, NEW p \in Procs, proc[p].pc \in ContainerPcs, UNCHANGED nets,
           CanStart(proc[p].id), ContainerStart(proc[p].id)
    PROVE  Keeps /\ DaemonStep(p)
<1>1. PICK c \in Cids : c = proc[p].id
  BY DEF IInv, TypeOK, CommandOK
<1>2. Exists(proc[p].id) /\ Touches(proc[p].id)
  BY <1>1, StartTouches DEF IInv, TypeOK, CanStart, Touches, SameIdentity
<1> QED BY <1>2, TouchStep

LEMMA StartNodeGood ==
    ASSUME IInv, NEW p \in Procs, StartNode(p)
    PROVE  Good(p)
<1>1. proc[p].pc = "start" /\ UNCHANGED nets
  BY DEF StartNode
<1>2. CASE CanStart(proc[p].id) /\ ContainerStart(proc[p].id) /\ NextNode(p)
  BY <1>1, <1>2, StartStep, NextNodeGood
<1>3. CASE Exit(p, "error") /\ UNCHANGED conts
  BY <1>1, <1>3, QuietStep, ExitGood
<1> QED BY <1>2, <1>3 DEF StartNode

LEMMA RestartNodeGood ==
    ASSUME IInv, NEW p \in Procs, RestartNode(p)
    PROVE  Good(p)
<1> DEFINE pc == AttachPc(proc[p].seen, CurrentNode(p))
<1>1. proc[p].pc = "restart" /\ UNCHANGED nets
  BY DEF RestartNode
<1>2. CASE CanStart(proc[p].id) /\ ContainerStart(proc[p].id) /\ Goto(p, pc)
  <2>1. Keeps /\ DaemonStep(p)
    BY <1>1, <1>2, StartStep
  <2>2. pc \in {"connect", "disconnect", "warn"}
    BY ReconcileTyped
  <2>3. Steps(p) /\ Safe(p)'
    BY <1>1, <1>2, <2>1, <2>2, GoSafe, SummaryTyped DEF Goto, IInv
  <2> QED BY <2>1, <2>3 DEF Good
<1>3. CASE Exit(p, "error") /\ UNCHANGED conts
  BY <1>1, <1>3, QuietStep, ExitGood
<1> QED BY <1>2, <1>3 DEF RestartNode

LEMMA DisconnectNodeGood ==
    ASSUME IInv, NEW p \in Procs, DisconnectNode(p)
    PROVE  Good(p)
<1>1. proc[p].pc = "disconnect" /\ UNCHANGED nets
  BY DEF DisconnectNode
<1>2. PICK c \in Cids : c = proc[p].id
  BY <1>1 DEF IInv, TypeOK, CommandOK
<1>3. Keeps /\ DaemonStep(p)
  <2>1. CASE Attached(proc[p].id)
    <3>1. Exists(proc[p].id) /\ Touches(proc[p].id)
      BY <1>2, <2>1, DisconnectTouches
         DEF DisconnectNode, Attached, IInv, TypeOK, Touches, SameIdentity
    <3> QED BY <1>1, <3>1, TouchStep
  <2>2. CASE ~Attached(proc[p].id)
    BY <1>1, <2>2, QuietStep DEF DisconnectNode
  <2> QED BY <2>1, <2>2
<1>4. Steps(p) /\ Safe(p)'
  BY <1>1, <1>3, GoSafe, SummaryTyped DEF DisconnectNode, Goto, IInv
<1> QED BY <1>3, <1>4 DEF Good

LEMMA ConnectNodeGood ==
    ASSUME IInv, NEW p \in Procs, ConnectNode(p)
    PROVE  Good(p)
<1> DEFINE l == proc[p].lab
           ip == CurrentNode(p).ip
<1>1. proc[p].pc = "connect" /\ UNCHANGED nets
  BY DEF ConnectNode
<1>2. CASE CanConnect(proc[p].id, l, ip) /\ NetworkConnect(proc[p].id, l, ip) /\ NextNode(p)
  <2>1. PICK c \in Cids : c = proc[p].id
    BY <1>1 DEF IInv, TypeOK, CommandOK
  <2>2. PICK w \in Nids \cup {None}, a \in Addresses \cup {None} : a = ip
    BY <1>1, CurrentNodeTyped DEF IInv, NodeCfg
  <2>3. Exists(proc[p].id) /\ Touches(proc[p].id)
    BY <1>2, <2>1, <2>2, ConnectTouches
       DEF CanConnect, IInv, TypeOK, Touches, SameIdentity
  <2>4. DaemonStep(p)
    BY <1>1, <2>3, TouchStep
  <2> QED BY <1>1, <1>2, <2>4, NextNodeGood
<1>3. CASE Exit(p, "error") /\ UNCHANGED conts
  BY <1>1, <1>3, QuietStep, ExitGood
<1> QED BY <1>2, <1>3 DEF ConnectNode

LEMMA WarnDriftGood ==
    ASSUME IInv, NEW p \in Procs, WarnDrift(p)
    PROVE  Good(p)
<1>1. proc[p].pc = "warn" /\ DaemonStep(p)
  BY QuietStep DEF WarnDrift
<1>2. CurrentNode(p).name \in Nodes /\ proc[p].i + 1 \in Nat \ {0}
  BY <1>1, CurrentNodeTyped DEF IInv, NodeCfg
<1>3. proc[p].warned \in SUBSET Nodes
  BY DEF IInv, TypeOK, Command
<1>4. PICK w \in SUBSET Nodes : Visit(p, proc[p].i + 1, w)
  BY <1>2, <1>3 DEF WarnDrift
<1> QED BY <1>1, <1>2, <1>4, VisitGood

\* Every step of an up.
LEMMA UpStepGood ==
    ASSUME IInv, NEW p \in Procs, UpStep(p)
    PROVE  Good(p)
BY InspectNetGood, CreateNetGood, FindNodeGood, CheckDriftGood, RemoveDriftedGood,
   CreateNodeGood, StartNodeGood, RestartNodeGood, DisconnectNodeGood,
   ConnectNodeGood, WarnDriftGood DEF UpStep

-----------------------------------------------------------------------------
(* The steps of down. *)

LEMMA StartDownGood ==
    ASSUME IInv, NEW p \in Procs, NEW l \in Labs \cup {None}, NEW k \in BOOLEAN,
           StartDown(p, l, k)
    PROVE  Good(p)
<1> DEFINE r == [Idle EXCEPT !.pc = "list", !.lab = l, !.keepNet = k]
<1>1. r \in Command /\ r.pc = "list"
  BY IdleTyped DEF Command
<1>2. CommandOK(r)
  BY <1>1 DEF CommandOK
<1>3. proc' = [proc EXCEPT ![p] = r]
  BY DEF StartDown
<1>4. Steps(p) /\ proc'[p] = r
  BY <1>1, <1>2, <1>3, Update DEF IInv, Steps
<1>5. DaemonStep(p)
  BY QuietStep DEF StartDown
<1> QED BY <1>1, <1>4, <1>5, FreeSafe DEF Good

\* A down that goes on with a new list.
LEMMA TodoSteps ==
    ASSUME IInv, NEW p \in Procs, NEW pc \in {"rmConts", "rmNets"}, NEW t,
           pc = "rmConts" => t \subseteq Cids,
           pc = "rmNets" => t \subseteq Nids,
           proc' = [proc EXCEPT ![p].pc = pc, ![p].todo = t]
    PROVE  /\ Steps(p)
           /\ proc'[p].pc = pc /\ proc'[p].todo = t
           /\ proc'[p].lab = proc[p].lab
<1> DEFINE r == [proc[p] EXCEPT !.pc = pc, !.todo = t]
<1>1. proc[p] \in Command
  BY DEF IInv, TypeOK
<1>2. pc \in DownPcs /\ t \in SUBSET (Cids \cup Nids)
  OBVIOUS
<1>3. r \in Command
  BY <1>1, <1>2 DEF Command
<1>4. r.pc = pc /\ r.todo = t /\ r.lab = proc[p].lab
  BY <1>1 DEF Command
<1>5. CommandOK(r)
  BY <1>4 DEF CommandOK
<1>6. proc' = [proc EXCEPT ![p] = r]
  BY <1>1
<1> HIDE DEF r
<1> QED BY <1>3, <1>4, <1>5, <1>6, Update DEF IInv, Steps

LEMMA ListContainersGood ==
    ASSUME IInv, NEW p \in Procs, ListContainers(p)
    PROVE  Good(p)
<1> DEFINE t == LabContainers(proc[p].lab)
<1>1. DaemonStep(p)
  BY QuietStep DEF ListContainers
<1>2. t \subseteq Cids /\ \A c \in t : OwnedBy(conts[c].owner, proc[p].lab)
  BY DEF LabContainers, OwnedBy
<1>3. /\ Steps(p)
      /\ proc'[p].pc = "rmConts" /\ proc'[p].todo = t
      /\ proc'[p].lab = proc[p].lab
  BY <1>2, TodoSteps DEF ListContainers
<1>4. conts' = conts
  BY DEF ListContainers
<1>5. Safe(p)'
  BY <1>2, <1>3, <1>4 DEF Safe, Holding, Removing, Listed
<1> QED BY <1>1, <1>3, <1>5 DEF Good

LEMMA RemoveContainerGood ==
    ASSUME IInv, NEW p \in Procs, RemoveContainer(p)
    PROVE  Good(p)
<1>1. /\ proc[p].pc = "rmConts" /\ TypeOK /\ Safe(p) /\ UNCHANGED nets
      /\ proc[p].todo \subseteq Cids
  BY DEF RemoveContainer, IInv, TypeOK, CommandOK
<1>2. CASE Exit(p, "error") /\ UNCHANGED conts
  BY <1>1, <1>2, QuietStep, ExitGood
<1>3. ASSUME NEW c \in proc[p].todo, Exists(c), conts' = ContainerRemove(c),
             proc' = [proc EXCEPT ![p].todo = @ \ {c}]
      PROVE  Good(p)
  <2>1. c \in Cids /\ OwnedBy(conts[c].owner, proc[p].lab)
    BY <1>1, <1>3 DEF Safe, Listed
  <2>2. /\ conts' \in [Cids -> Container]
        /\ ~Exists(c)'
        /\ \A d \in Cids \ {c} : conts'[d] = conts[d]
    BY <1>1, <1>3, <2>1, RemoveTyped DEF TypeOK
  <2>3. Keeps /\ NetsStep
    BY <1>1, <2>2, NetsStay DEF Keeps, SameIdentity, Exists, TypeOK
  <2>4. Rightful(p)
    BY <1>1, <2>1, <2>2 DEF Rightful, IsUp, Exists
  <2>5. proc' = [proc EXCEPT ![p].pc = "rmConts", ![p].todo = proc[p].todo \ {c}]
    BY <1>1, <1>3 DEF TypeOK, Command
  <2>6. /\ Steps(p)
        /\ proc'[p].pc = "rmConts" /\ proc'[p].todo = proc[p].todo \ {c}
        /\ proc'[p].lab = proc[p].lab
    <3> DEFINE t == proc[p].todo \ {c}
    <3>1. t \subseteq Cids
      BY <1>1
    <3> QED BY <3>1, <2>5, TodoSteps
  <2>7. Safe(p)'
    BY <1>1, <2>2, <2>6 DEF Safe, Holding, Removing, Listed, Exists
  <2> QED BY <2>3, <2>4, <2>6, <2>7 DEF Good, DaemonStep, ContsStep
<1> QED BY <1>2, <1>3 DEF RemoveContainer

LEMMA ListNetworksGood ==
    ASSUME IInv, NEW p \in Procs, ListNetworks(p)
    PROVE  Good(p)
<1> DEFINE t == LabNetworks(proc[p].lab)
<1>1. DaemonStep(p)
  BY QuietStep DEF ListNetworks
<1>2. CASE Exit(p, "ok")
  BY <1>1, <1>2, ExitGood
<1>3. CASE proc' = [proc EXCEPT ![p].pc = "rmNets", ![p].todo = t]
  <2>1. t \subseteq Nids /\ \A n \in t : OwnedBy(nets[n].owner, proc[p].lab)
    BY DEF LabNetworks, OwnedBy
  <2>2. /\ Steps(p)
        /\ proc'[p].pc = "rmNets" /\ proc'[p].todo = t
        /\ proc'[p].lab = proc[p].lab
    BY <1>3, <2>1, TodoSteps
  <2>3. nets' = nets
    BY DEF ListNetworks
  <2>4. Safe(p)'
    BY <2>1, <2>2, <2>3 DEF Safe, Holding, Removing, Listed
  <2> QED BY <1>1, <2>2, <2>4 DEF Good
<1> QED BY <1>2, <1>3 DEF ListNetworks

LEMMA RemoveNetworkGood ==
    ASSUME IInv, NEW p \in Procs, RemoveNetwork(p)
    PROVE  Good(p)
<1>1. /\ proc[p].pc = "rmNets" /\ TypeOK /\ Safe(p) /\ UNCHANGED conts
      /\ proc[p].todo \subseteq Nids
  BY DEF RemoveNetwork, IInv, TypeOK, CommandOK
<1>2. CASE UNCHANGED nets /\ \E code \in {"ok", "error"} : Exit(p, code)
  BY <1>1, <1>2, QuietStep, ExitGood
<1>3. ASSUME NEW n \in proc[p].todo, CanRemoveNet(n), nets' = NetworkRemove(n),
             proc' = [proc EXCEPT ![p].todo = @ \ {n}]
      PROVE  Good(p)
  <2>1. n \in Nids /\ OwnedBy(nets[n].owner, proc[p].lab)
    BY <1>1, <1>3 DEF Safe, Listed, CanRemoveNet
  <2>2. NoNetwork \in Network /\ NoNetwork.name = None
    BY DEF NoNetwork, Network
  <2>3. /\ nets' \in [Nids -> Network]
        /\ nets'[n].name = None
        /\ \A m \in Nids \ {n} : nets'[m] = nets[m]
    BY <1>1, <1>3, <2>1, <2>2 DEF NetworkRemove, TypeOK, DaemonTypeOK
  <2>4. Keeps /\ NetsStep
    BY <1>1, <2>1, <2>3, ContsStay DEF NetsStep, TypeOK
  <2>5. Rightful(p)
    BY <1>1, <2>1, <2>3 DEF Rightful, IsUp, Exists
  <2>6. proc' = [proc EXCEPT ![p].pc = "rmNets", ![p].todo = proc[p].todo \ {n}]
    BY <1>1, <1>3 DEF TypeOK, Command
  <2>7. /\ Steps(p)
        /\ proc'[p].pc = "rmNets" /\ proc'[p].todo = proc[p].todo \ {n}
        /\ proc'[p].lab = proc[p].lab
    <3> DEFINE t == proc[p].todo \ {n}
    <3>1. t \subseteq Nids
      BY <1>1
    <3> QED BY <3>1, <2>6, TodoSteps
  <2>8. Safe(p)'
    BY <1>1, <2>3, <2>7 DEF Safe, Holding, Removing, Listed
  <2> QED BY <2>4, <2>5, <2>7, <2>8 DEF Good, DaemonStep, ContsStep
<1> QED BY <1>2, <1>3 DEF RemoveNetwork

\* Every step of a down.
LEMMA DownStepGood ==
    ASSUME IInv, NEW p \in Procs, DownStep(p)
    PROVE  Good(p)
BY ListContainersGood, RemoveContainerGood, ListNetworksGood, RemoveNetworkGood
   DEF DownStep

-----------------------------------------------------------------------------
(* Faults and the environment. *)

LEMMA AbortGood ==
    ASSUME IInv, NEW p \in Procs, Abort(p)
    PROVE  Good(p)
BY QuietStep, ExitGood DEF Abort

LEMMA InspectFailsGood ==
    ASSUME IInv, NEW p \in Procs, InspectFails(p)
    PROVE  Good(p)
<1> DEFINE pc == ReconcilePc(proc[p].seen, CurrentNode(p))
<1>1. Keeps /\ DaemonStep(p)
  BY QuietStep DEF InspectFails
<1>2. CASE proc[p].pc = "drift" /\ Goto(p, pc)
  <2>1. pc \in {"restart", "connect", "disconnect", "warn"}
    BY ReconcileTyped
  <2>2. Steps(p) /\ Safe(p)'
    BY <1>1, <1>2, <2>1, GoSafe, SummaryTyped DEF Goto, IInv
  <2> QED BY <1>1, <2>2 DEF Good
<1>3. CASE proc[p].pc = "warn" /\ NextNode(p)
  BY <1>1, <1>3, NextNodeGood
<1> QED BY <1>2, <1>3 DEF InspectFails

LEMMA DisconnectFailsGood ==
    ASSUME IInv, NEW p \in Procs, DisconnectFails(p)
    PROVE  Good(p)
<1>1. Keeps /\ DaemonStep(p)
  BY QuietStep DEF DisconnectFails
<1>2. Steps(p) /\ Safe(p)'
  BY <1>1, GoSafe, SummaryTyped DEF DisconnectFails, Goto, IInv
<1> QED BY <1>1, <1>2 DEF Good

\* A step of command p: what Next has it do.
Acts(p) ==
    \/ \E l \in Labs, r \in BOOLEAN : StartUp(p, l, r)
    \/ \E l \in Labs \cup {None}, k \in BOOLEAN : StartDown(p, l, k)
    \/ UpStep(p) \/ DownStep(p)
    \/ Abort(p) \/ InspectFails(p) \/ DisconnectFails(p)

LEMMA ActsGood ==
    ASSUME IInv, NEW p \in Procs, Acts(p)
    PROVE  Good(p)
BY StartUpGood, StartDownGood, UpStepGood, DownStepGood, AbortGood,
   InspectFailsGood, DisconnectFailsGood DEF Acts

\* The steps of others: containers and networks come, none goes.
LEMMA OutsideStep ==
    ASSUME IInv,
           \/ \E l \in Labs : EditYaml(l)
           \/ \E c \in Cids : NodeStops(c) \/ NodeStarts(c)
           \/ \E name \in ForeignNames : ForeignContainer(name)
           \/ \E l \in ForeignNets : ForeignNetwork(l)
    PROVE  /\ ContsStep /\ NetsStep
           /\ yaml' \in [Labs -> AllConfigs]
           /\ \A l \in Labs : yaml'[l] \in Configs[l]
<1>1. TypeOK /\ DaemonTypeOK
  BY DEF IInv, TypeOK
<1>2. CASE \E l \in Labs : EditYaml(l)
  <2>1. PICK l \in Labs : \E cfg \in Configs[l] : yaml' = [yaml EXCEPT ![l] = cfg]
    BY <1>2 DEF EditYaml
  <2> PICK cfg \in Configs[l] : yaml' = [yaml EXCEPT ![l] = cfg]
    BY <2>1
  <2>2. cfg \in AllConfigs
    BY <2>1 DEF AllConfigs
  <2>3. UNCHANGED <<conts, nets>>
    BY <1>2 DEF EditYaml
  <2> QED BY <1>1, <2>1, <2>2, <2>3, ContsStay, NetsStay DEF TypeOK, ContsStep
<1>3. CASE \E c \in Cids : NodeStops(c) \/ NodeStarts(c)
  <2>1. PICK c \in Cids : NodeStops(c) \/ NodeStarts(c)
    BY <1>3
  <2>2. Exists(c) /\ Touches(c)
    BY <1>1, <2>1, StopTouches, StartTouches DEF NodeStops, NodeStarts, Exists
  <2>3. UNCHANGED <<nets, yaml>>
    BY <2>1 DEF NodeStops, NodeStarts
  <2> QED BY <1>1, <2>2, <2>3, TouchKeeps, NetsStay DEF TypeOK, ContsStep
<1>4. CASE \E name \in ForeignNames : ForeignContainer(name)
  <2>1. PICK name \in ForeignNames : ForeignContainer(name)
    BY <1>4
  <2> DEFINE new == [NoContainer EXCEPT !.state = "running", !.name = name]
  <2>2. PICK c \in NewCids : conts' = [conts EXCEPT ![c] = new]
    BY <2>1 DEF ForeignContainer
  <2>3. c \in Cids
    BY DEF NewCids
  <2>4. name \in Names
    BY LabAssumption
  <2>5. new \in Container /\ new.name = name /\ new.owner = None
    BY <2>4, NoContainerTyped DEF Container, NoContainer
  <2>6. Adds(c)
    BY <1>1, <2>1, <2>2, <2>3, <2>5 DEF Adds, DaemonTypeOK, ForeignContainer
  <2>7. UNCHANGED <<nets, yaml>>
    BY <2>1 DEF ForeignContainer
  <2> QED BY <1>1, <2>3, <2>6, <2>7, NetsStay DEF TypeOK, ContsStep
<1>5. CASE \E l \in ForeignNets : ForeignNetwork(l)
  <2>1. PICK l \in ForeignNets : ForeignNetwork(l)
    BY <1>5
  <2> DEFINE new == [NoNetwork EXCEPT !.name = l]
  <2>2. PICK n \in NewNids : nets' = [nets EXCEPT ![n] = new]
    BY <2>1 DEF ForeignNetwork
  <2>3. n \in Nids /\ l \in Labs
    BY LabAssumption DEF NewNids
  <2>4. new \in Network
    BY <2>3 DEF NoNetwork, Network
  <2>5. NetsStep
    BY <1>1, <2>2, <2>3, <2>4 DEF NetsStep, DaemonTypeOK
  <2>6. UNCHANGED <<conts, yaml>>
    BY <2>1 DEF ForeignNetwork
  <2> QED BY <1>1, <2>5, <2>6, ContsStay DEF TypeOK, ContsStep
<1> QED BY <1>2, <1>3, <1>4, <1>5

-----------------------------------------------------------------------------
(* The theorems. *)

LEMMA InitInv == Init => IInv
<1> SUFFICES ASSUME Init PROVE IInv
  OBVIOUS
<1>1. \A p \in Procs : proc[p] = Idle
  BY DEF Init
<1>2. NoContainer.state = "absent" /\ NoNetwork \in Network
  BY DEF NoContainer, NoNetwork, Network
<1>3. \A c \in Cids : ~Exists(c)
  BY <1>2 DEF Init, Exists
<1>4. CommandOK(Idle)
  BY IdleTyped DEF CommandOK
<1>5. TypeOK
  BY <1>1, <1>2, <1>4, IdleTyped, NoContainerTyped DEF TypeOK, DaemonTypeOK, Init
<1>6. \A p \in Procs : Safe(p)
  BY <1>1, IdleTyped DEF Safe, Holding, Removing, Listed
<1> QED BY <1>3, <1>5, <1>6 DEF IInv, NamesUnique, NamedByNode

\* A step is one of a command, one of others, or none.
LEMMA StepCases ==
    ASSUME [Next]_vars
    PROVE  \/ \E p \in Procs : Acts(p) /\ UNCHANGED yaml
           \/ Environment
           \/ UNCHANGED vars
BY DEF Next, Begin, Continue, Fault, Acts

\* The history variables keep their type.
LEMMA HistoryTyped ==
    ASSUME TypeOK, [Next]_vars
    PROVE  clean' \in Procs \cup {None} /\ wasUp' \in BOOLEAN
<1>1. ASSUME NEW p \in Procs, Begin(p)
      PROVE  clean' \in Procs \cup {None} /\ wasUp' \in BOOLEAN
  BY <1>1 DEF Begin, AsWanted
<1>2. ASSUME NEW p \in Procs, Continue(p)
      PROVE  clean' \in Procs \cup {None} /\ wasUp' \in BOOLEAN
  BY <1>2 DEF Continue, TypeOK
<1>3. Disturbed => clean' \in Procs \cup {None} /\ wasUp' \in BOOLEAN
  BY DEF Disturbed
<1> QED BY <1>1, <1>2, <1>3 DEF Next, Fault, Environment, TypeOK, vars

LEMMA NextInv == IInv /\ [Next]_vars => IInv'
<1> SUFFICES ASSUME IInv, [Next]_vars PROVE IInv'
  OBVIOUS
<1>1. /\ ContsStep /\ NetsStep
      /\ yaml' \in [Labs -> AllConfigs]
      /\ \A l \in Labs : yaml'[l] \in Configs[l]
      /\ proc' \in [Procs -> Command]
      /\ \A p \in Procs : CommandOK(proc'[p]) /\ Safe(p)'
  <2>1. CASE \E p \in Procs : Acts(p) /\ UNCHANGED yaml
    <3>1. PICK p \in Procs : Acts(p) /\ UNCHANGED yaml
      BY <2>1
    <3>2. Good(p)
      BY <3>1, ActsGood
    <3>3. \A q \in Procs \ {p} : Safe(q)'
      BY <3>2, OthersSafe DEF Good, Steps, DaemonStep
    <3> QED BY <3>1, <3>2, <3>3 DEF Good, Steps, DaemonStep, IInv, TypeOK
  <2>2. CASE Environment
    <3>1. /\ ContsStep /\ NetsStep
          /\ yaml' \in [Labs -> AllConfigs]
          /\ \A l \in Labs : yaml'[l] \in Configs[l]
      BY <2>2, OutsideStep DEF Environment
    <3>2. \A q \in Procs : Safe(q)'
      BY <2>2, <3>1, OthersSafe DEF Environment
    <3> QED BY <2>2, <3>1, <3>2 DEF Environment, IInv, TypeOK
  <2>3. CASE UNCHANGED vars
    <3>1. ContsStep /\ NetsStep
      BY <2>3, ContsStay, NetsStay DEF vars, IInv, TypeOK, ContsStep
    <3>2. \A q \in Procs : Safe(q)'
      BY <2>3, <3>1, OthersSafe DEF vars
    <3> QED BY <2>3, <3>1, <3>2 DEF vars, IInv, TypeOK
  <2> QED BY <2>1, <2>2, <2>3, StepCases
<1>2. NamesUnique' /\ NamedByNode'
  BY <1>1, NamesKept
<1>3. conts' \in [Cids -> Container]
  BY <1>1 DEF ContsStep, Keeps, Adds
<1>4. TypeOK'
  BY <1>1, <1>3, HistoryTyped DEF IInv, TypeOK, DaemonTypeOK, NetsStep
<1> QED BY <1>1, <1>2, <1>4 DEF IInv

\* The inductive invariant of the daemon and the commands.
THEOREM Invariance == Spec => []IInv
BY InitInv, NextInv, PTL DEF Spec

\* Every state of every behaviour is well typed.
THEOREM TypeCorrect == Spec => []TypeOK
<1>1. IInv => TypeOK
  BY DEF IInv
<1> QED BY <1>1, Invariance, PTL

\* No number of concurrent ups gives a node two containers.
THEOREM NoTwins == Spec => []OneContainerPerNode
<1>1. IInv => OneContainerPerNode
  BY DEF IInv, NamesUnique, NamedByNode, OneContainerPerNode
<1> QED BY <1>1, Invariance, PTL

\* Who moves did the step, within what it may change.
LEMMA MoverGood ==
    ASSUME IInv, [Next]_vars, NEW p \in Procs, Moves(p)
    PROVE  Rightful(p)
<1>1. PICK q \in Procs : Acts(q)
  BY StepCases DEF Environment, vars, Moves
<1>2. Good(q)
  BY <1>1, ActsGood
<1>3. p = q
  BY <1>2 DEF Good, Steps, Moves
<1> QED BY <1>2, <1>3 DEF Good, DaemonStep

\* up destroys nothing but a drifted container of the node it works on, and only
\* when told to.
THEOREM UpSpares == Spec => UpSparesNodes
<1>1. IInv /\ [Next]_vars =>
        [\A p \in Procs, c \in Cids :
            (IsUp(p) /\ Moves(p) /\ Exists(c) /\ ~Exists(c)') =>
                /\ proc[p].recreate
                /\ conts[c].owner = proc[p].lab
                /\ conts[c].node = CurrentNode(p).name
                /\ Drifted(c, CurrentNode(p).spec)]_vars
  BY MoverGood DEF Rightful
<1> QED BY <1>1, Invariance, PTL DEF Spec, UpSparesNodes

\* No command touches what is not its lab's.
THEOREM Isolation == Spec => LabIsolation
<1>1. IInv /\ [Next]_vars =>
        [\A p \in Procs : Moves(p) =>
          /\ \A c \in Cids :
                (Exists(c) /\ conts'[c] # conts[c]) =>
                    IF proc[p].lab # None THEN conts[c].owner = proc[p].lab
                                          ELSE conts[c].owner # None
          /\ \A n \in Nids :
                (nets[n].name # None /\ nets'[n] # nets[n]) =>
                    IF proc[p].lab # None THEN nets[n].owner = proc[p].lab
                                          ELSE nets[n].owner # None]_vars
  BY MoverGood DEF Rightful, OwnedBy
<1> QED BY <1>1, Invariance, PTL DEF Spec, LabIsolation

-----------------------------------------------------------------------------
(* Addresses. *)

AddressOK(k) ==
    /\ k.addr # None <=> k.state = "running" /\ k.attached
    /\ k.addr # None /\ k.pin # None => k.addr = k.pin

\* A container has an address when it runs attached to its network, and then the one
\* it is pinned to.
Addressed == \A c \in Cids : AddressOK(conts[c])

\* The calls that change the containers, whoever makes them.
Called(c) ==
    \/ CanStart(c) /\ ContainerStart(c)
    \/ conts' = NetworkDisconnect(c)
    \/ \E l \in Labs, pin \in Addresses \cup {None} : NetworkConnect(c, l, pin)
    \/ conts' = ContainerRemove(c)
    \/ \E l, n, pin, spec : conts' = ContainerCreate(c, l, n, pin, spec)
    \/ conts[c].state = "running"
       /\ conts' = [conts EXCEPT ![c].state = "exited", ![c].addr = None]
    \/ \E name : conts' = [conts EXCEPT ![c] =
                             [NoContainer EXCEPT !.state = "running", !.name = name]]

LEMMA SomeCall ==
    ASSUME IInv, [Next]_vars
    PROVE  conts' = conts \/ \E c \in Cids : Called(c)
<1>1. ASSUME NEW p \in Procs, Acts(p)
      PROVE  conts' = conts \/ \E c \in Cids : Called(c)
  <2>1. proc[p].pc \in ContainerPcs => proc[p].id \in Cids
    BY DEF IInv, TypeOK, CommandOK
  <2>2. proc[p].pc = "rmConts" => proc[p].todo \subseteq Cids
    BY DEF IInv, TypeOK, CommandOK
  <2>3. CASE CreateNode(p)
    BY <2>3 DEF CreateNode, NewCids, Called
  <2>4. CASE ConnectNode(p)
    <3>1. proc[p].lab \in Labs /\ CurrentNode(p).ip \in Addresses \cup {None}
      BY <2>4, CurrentNodeTyped DEF ConnectNode, IInv, NodeCfg
    <3> QED BY <2>1, <2>4, <3>1 DEF ConnectNode, Called
  <2>5. CASE RemoveContainer(p)
    BY <2>2, <2>5 DEF RemoveContainer, Called
  <2>6. CASE RemoveDrifted(p)
    BY <2>1, <2>6 DEF RemoveDrifted, Called
  <2>7. CASE StartNode(p) \/ RestartNode(p)
    BY <2>1, <2>7 DEF StartNode, RestartNode, Called
  <2>8. CASE DisconnectNode(p)
    BY <2>1, <2>8 DEF DisconnectNode, Called
  <2> QED BY <1>1, <2>3, <2>4, <2>5, <2>6, <2>7, <2>8
          DEF Acts, UpStep, DownStep, StartUp, StartDown, Abort, InspectFails,
              DisconnectFails, InspectNet, CreateNet, FindNode, CheckDrift, WarnDrift,
              ListContainers, ListNetworks, RemoveNetwork
<1>2. ASSUME Environment
      PROVE  conts' = conts \/ \E c \in Cids : Called(c)
  BY <1>2 DEF Environment, EditYaml, NodeStops, NodeStarts, ForeignContainer,
     ForeignNetwork, NewCids, Called
<1> QED BY <1>1, <1>2, StepCases DEF vars

LEMMA LeaseIs ==
    ASSUME NEW l, NEW pin, NEW a, CanLease(l, pin, a)
    PROVE  a # None /\ (pin # None => a = pin)
BY DaemonAssumption DEF CanLease

LEMMA AddressedStep == IInv /\ Addressed /\ [Next]_vars => Addressed'
<1> SUFFICES ASSUME IInv, Addressed, [Next]_vars PROVE Addressed'
  OBVIOUS
<1>1. CASE conts' = conts
  BY <1>1 DEF Addressed
<1>2. ASSUME NEW c \in Cids, Called(c)
      PROVE  Addressed'
  <2>1. conts[c] \in Container /\ AddressOK(conts[c])
    BY DEF IInv, TypeOK, DaemonTypeOK, Addressed
  <2>2. \A k : conts' = [conts EXCEPT ![c] = k] /\ AddressOK(k) => Addressed'
    BY DEF IInv, TypeOK, DaemonTypeOK, Addressed
  <2>3. CASE CanStart(c) /\ ContainerStart(c)
    <3>1. CASE conts[c].state = "running"
      BY <2>3, <3>1 DEF ContainerStart, Addressed
    <3>2. CASE conts[c].state # "running"
      <4>1. PICK w \in Nids \cup {None}, a \in Addresses \cup {None} :
               /\ StartLease(c, w, a)
               /\ conts' = [conts EXCEPT ![c].state = "running", ![c].netId = w,
                                       ![c].addr = a]
        BY <2>3, <3>2 DEF ContainerStart
      <4> DEFINE k == [conts[c] EXCEPT !.state = "running", !.netId = w, !.addr = a]
      <4>2. /\ k.state = "running" /\ k.addr = a /\ k.attached = conts[c].attached
            /\ k.pin = conts[c].pin
        BY <2>1 DEF Container
      <4>3. conts' = [conts EXCEPT ![c] = k]
        BY <4>1
      <4> HIDE DEF k
      <4>4. AddressOK(k)
        BY <4>1, <4>2, LeaseIs DEF StartLease, AddressOK
      <4> QED BY <2>2, <4>3, <4>4
    <3> QED BY <3>1, <3>2
  <2>4. CASE conts' = NetworkDisconnect(c)
    <3> DEFINE k == [conts[c] EXCEPT !.attached = FALSE, !.netId = None, !.pin = None, !.addr = None]
    <3>1. k.attached = FALSE /\ k.addr = None
      BY <2>1 DEF Container
    <3>2. conts' = [conts EXCEPT ![c] = k]
      BY <2>4 DEF NetworkDisconnect
    <3> HIDE DEF k
    <3> QED BY <2>2, <3>1, <3>2 DEF AddressOK
  <2>5. ASSUME NEW l \in Labs, NEW pin \in Addresses \cup {None}, NetworkConnect(c, l, pin)
        PROVE  Addressed'
    <3>1. PICK w \in Nids \cup {None}, a \in Addresses \cup {None} :
             /\ ConnectLease(c, l, pin, w, a)
             /\ conts' = [conts EXCEPT ![c].attached = TRUE, ![c].netId = w, ![c].pin = pin,
                                   ![c].addr = a]
      BY <2>5 DEF NetworkConnect
    <3> DEFINE k == [conts[c] EXCEPT !.attached = TRUE, !.netId = w, !.pin = pin, !.addr = a]
    <3>2. k.attached = TRUE /\ k.addr = a /\ k.pin = pin /\ k.state = conts[c].state
      BY <2>1 DEF Container
    <3>3. conts' = [conts EXCEPT ![c] = k]
      BY <3>1
    <3> HIDE DEF k
    <3>4. AddressOK(k)
      BY <3>1, <3>2, LeaseIs DEF ConnectLease, AddressOK
    <3> QED BY <2>2, <3>3, <3>4
  <2>6. CASE conts' = ContainerRemove(c)
    BY <2>2, <2>6 DEF ContainerRemove, NoContainer, AddressOK
  <2>7. ASSUME NEW l, NEW n, NEW pin, NEW spec, conts' = ContainerCreate(c, l, n, pin, spec)
        PROVE  Addressed'
    <3> DEFINE k == [state |-> "created", owner |-> l, node |-> n, name |-> NameOf[<<l, n>>],
                     spec |-> spec, attached |-> TRUE, netId |-> None, pin |-> pin, addr |-> None]
    <3>1. conts' = [conts EXCEPT ![c] = k]
      BY <2>7 DEF ContainerCreate
    <3>2. AddressOK(k)
      BY DEF AddressOK
    <3> HIDE DEF k
    <3> QED BY <2>2, <3>1, <3>2
  <2>8. CASE conts' = [conts EXCEPT ![c].state = "exited", ![c].addr = None]
    <3> DEFINE k == [conts[c] EXCEPT !.state = "exited", !.addr = None]
    <3>1. k.state = "exited" /\ k.addr = None
      BY <2>1 DEF Container
    <3>2. conts' = [conts EXCEPT ![c] = k]
      BY <2>8
    <3> HIDE DEF k
    <3> QED BY <2>2, <3>1, <3>2 DEF AddressOK
  <2>9. ASSUME NEW name, conts' = [conts EXCEPT ![c] =
                             [NoContainer EXCEPT !.state = "running", !.name = name]]
        PROVE  Addressed'
    <3> DEFINE k == [NoContainer EXCEPT !.state = "running", !.name = name]
    <3>1. k.attached = FALSE /\ k.addr = None
      BY DEF NoContainer
    <3> HIDE DEF k
    <3>2. conts' = [conts EXCEPT ![c] = k]
      BY <2>9 DEF k
    <3> QED BY <2>2, <3>1, <3>2 DEF AddressOK
  <2> QED BY <1>2, <2>3, <2>4, <2>5, <2>6, <2>7, <2>8, <2>9 DEF Called
<1> QED BY <1>1, <1>2, SomeCall

LEMMA InitAddressed == Init => Addressed
BY DEF Init, Addressed, AddressOK, NoContainer

-----------------------------------------------------------------------------
(* What an undisturbed down knows. *)

DownKnows(p) ==
    /\ proc[p].pc = "rmConts" => LabContainers(proc[p].lab) \subseteq proc[p].todo
    /\ proc[p].pc = "rmNets" =>
          /\ LabContainers(proc[p].lab) = {}
          /\ LabNetworks(proc[p].lab) \subseteq proc[p].todo

\* What a step of down p makes of it: it knows it still, or is done.
DownAfter(p) ==
    IF proc'[p].pc = "idle"
      THEN proc'[p].exit = "ok" => \A l \in Labs \cup {None} : l = proc[p].lab =>
              /\ LabContainers(l)' = {}
              /\ ~proc[p].keepNet => LabNetworks(l)' = {}
      ELSE DownKnows(p)' /\ proc'[p].exit = proc[p].exit /\ proc'[p].pc \in DownPcs

LEMMA IdleIs ==
    ASSUME TypeOK, NEW p \in Procs, NEW code \in {"none", "ok", "error"}, Exit(p, code)
    PROVE  proc'[p].pc = "idle" /\ proc'[p].exit = code
BY IdleTyped DEF Exit, TypeOK, Command

LEMMA TodoIs ==
    ASSUME TypeOK, NEW p \in Procs, NEW pc, NEW t,
           proc' = [proc EXCEPT ![p].pc = pc, ![p].todo = t]
    PROVE  /\ proc'[p].pc = pc /\ proc'[p].todo = t /\ proc'[p].lab = proc[p].lab
           /\ proc'[p].exit = proc[p].exit
BY DEF TypeOK, Command

LEMMA DownStepKnows ==
    ASSUME IInv, NEW p \in Procs, DownKnows(p), DownStep(p)
    PROVE  DownAfter(p)
<1>1. TypeOK /\ DaemonTypeOK /\ proc[p] \in Command
  BY DEF IInv, TypeOK
<1>2. ASSUME NEW code \in {"none", "ok", "error"}, Exit(p, code), code # "ok"
      PROVE  DownAfter(p)
  BY <1>1, <1>2, IdleIs DEF DownAfter
<1>3. CASE ListContainers(p)
  <2>1. /\ proc'[p].pc = "rmConts" /\ proc'[p].todo = LabContainers(proc[p].lab)
        /\ proc'[p].lab = proc[p].lab /\ proc'[p].exit = proc[p].exit
    <3> DEFINE t == LabContainers(proc[p].lab)
    <3>1. proc' = [proc EXCEPT ![p].pc = "rmConts", ![p].todo = t]
      BY <1>3 DEF ListContainers
    <3> HIDE DEF t
    <3>2. /\ proc'[p].pc = "rmConts" /\ proc'[p].todo = t
          /\ proc'[p].lab = proc[p].lab /\ proc'[p].exit = proc[p].exit
      BY <1>1, <3>1 DEF TypeOK, Command
    <3> QED BY <3>2 DEF t
  <2>2. LabContainers(proc[p].lab)' = LabContainers(proc[p].lab)
    BY <1>3, <2>1 DEF ListContainers, LabContainers, Exists
  <2> QED BY <2>1, <2>2 DEF DownAfter, DownKnows
<1>4. CASE RemoveContainer(p)
  <2>1. proc[p].pc = "rmConts" /\ proc[p].todo \subseteq Cids
    BY <1>1, <1>4 DEF RemoveContainer, TypeOK, CommandOK
  <2>2. PICK c \in proc[p].todo :
           IF Exists(c)
             THEN /\ conts' = ContainerRemove(c)
                  /\ proc' = [proc EXCEPT ![p].todo = @ \ {c}]
             ELSE Exit(p, "error") /\ UNCHANGED conts
    BY <1>4 DEF RemoveContainer
  <2>3. CASE ~Exists(c)
    BY <1>2, <2>2, <2>3
  <2>4. CASE Exists(c)
    <3>1. /\ ~Exists(c)' /\ \A d \in Cids \ {c} : conts'[d] = conts[d]
      BY <1>1, <2>1, <2>2, <2>4, RemoveTyped
    <3>2. /\ proc'[p].pc = "rmConts" /\ proc'[p].todo = proc[p].todo \ {c}
          /\ proc'[p].lab = proc[p].lab /\ proc'[p].exit = proc[p].exit
      BY <1>1, <2>1, <2>2, <2>4 DEF TypeOK, Command
    <3> QED BY <2>1, <3>1, <3>2 DEF DownAfter, DownKnows, LabContainers, Exists
  <2> QED BY <2>3, <2>4
<1>5. CASE ListNetworks(p)
  <2>1. proc[p].pc = "rmConts" /\ LabContainers(proc[p].lab) = {}
        /\ UNCHANGED <<conts, nets>>
    BY <1>5 DEF ListNetworks, DownKnows
  <2>2. CASE proc[p].keepNet
    <3>1. proc'[p].pc = "idle"
      BY <1>1, <1>5, <2>2, IdleIs DEF ListNetworks
    <3> QED BY <2>1, <2>2, <3>1 DEF DownAfter, LabContainers, Exists
  <2>3. CASE ~proc[p].keepNet
    <3>1. /\ proc'[p].pc = "rmNets" /\ proc'[p].todo = LabNetworks(proc[p].lab)
          /\ proc'[p].lab = proc[p].lab /\ proc'[p].exit = proc[p].exit
      BY <1>1, <1>5, <2>3, TodoIs DEF ListNetworks
    <3> QED BY <2>1, <3>1 DEF DownAfter, DownKnows, LabContainers, LabNetworks, Exists
  <2> QED BY <2>2, <2>3
<1>6. CASE RemoveNetwork(p)
  <2>1. /\ proc[p].pc = "rmNets" /\ LabContainers(proc[p].lab) = {} /\ UNCHANGED conts
        /\ LabNetworks(proc[p].lab) \subseteq proc[p].todo /\ proc[p].todo \subseteq Nids
    BY <1>1, <1>6 DEF RemoveNetwork, DownKnows, TypeOK, CommandOK
  <2>2. CASE proc[p].todo = {} /\ Exit(p, "ok") /\ UNCHANGED nets
    <3>1. proc'[p].pc = "idle"
      BY <1>1, <2>2, IdleIs
    <3> QED BY <2>1, <2>2, <3>1 DEF DownAfter, LabContainers, LabNetworks, Exists
  <2>3. ASSUME NEW n \in proc[p].todo,
               IF CanRemoveNet(n)
                 THEN nets' = NetworkRemove(n) /\ proc' = [proc EXCEPT ![p].todo = @ \ {n}]
                 ELSE Exit(p, "error") /\ UNCHANGED nets
        PROVE  DownAfter(p)
    <3>1. CASE ~CanRemoveNet(n)
      BY <1>2, <2>3, <3>1
    <3>2. CASE CanRemoveNet(n)
      <4>1. nets'[n].name = None /\ \A m \in Nids \ {n} : nets'[m] = nets[m]
        BY <1>1, <2>1, <2>3, <3>2 DEF NetworkRemove, NoNetwork, DaemonTypeOK
      <4>2. /\ proc'[p].pc = "rmNets" /\ proc'[p].todo = proc[p].todo \ {n}
            /\ proc'[p].lab = proc[p].lab /\ proc'[p].exit = proc[p].exit
        BY <1>1, <2>1, <2>3, <3>2 DEF TypeOK, Command
      <4>3. LabContainers(proc[p].lab)' = {}
        BY <2>1, <4>2 DEF LabContainers, Exists
      <4>4. LabNetworks(proc[p].lab)' \subseteq proc'[p].todo
        BY <2>1, <4>1, <4>2 DEF LabNetworks
      <4> QED BY <4>2, <4>3, <4>4 DEF DownAfter, DownKnows
    <3> QED BY <3>1, <3>2
  <2> QED BY <1>6, <2>2, <2>3 DEF RemoveNetwork
<1> QED BY <1>3, <1>4, <1>5, <1>6 DEF DownStep

-----------------------------------------------------------------------------
(* What an undisturbed up knows. *)

Own(p) == NodeContainers(proc[p].lab, CurrentNode(p).name)

\* A node of the configuration is as up wants it.
NodeWanted(l, node, r) ==
    /\ NodeUp(l, node)
    /\ r => \A c \in NodeContainers(l, node.name) : ~Drifted(c, node.spec)

\* The network is, and so are the nodes before the i-th.
Settled(l, cfg, r, i) ==
    /\ \E n \in NetNamed(l) : Usable(n, l, cfg)
    /\ \A j \in 1..Len(cfg.nodes) : j < i => NodeWanted(l, cfg.nodes[j], r)

\* Container c serves a node with this address.
Works(c, ip) ==
    /\ conts[c].state = "running" /\ conts[c].attached /\ conts[c].addr # None
    /\ ip # None => conts[c].addr = ip

\* Container c was just made for this node.
Fresh(c, node) ==
    /\ conts[c].state # "running"
    /\ conts[c].attached
    /\ conts[c].pin = node.ip
    /\ conts[c].spec = node.spec

UpKnows(p) ==
    /\ proc[p].pc \in NodePcs =>
          Settled(proc[p].lab, proc[p].cfg, proc[p].recreate, proc[p].i)
    /\ proc[p].pc = "create" => Own(p) = {}
    /\ proc[p].pc \in ContainerPcs => Own(p) = {proc[p].id}
    /\ proc[p].pc \in {"drift", "restart"} => proc[p].seen = SummaryOf(conts[proc[p].id])
    /\ (proc[p].pc \in {"restart", "disconnect", "connect", "warn"} /\ proc[p].recreate) =>
          ~Drifted(proc[p].id, CurrentNode(p).spec)
    /\ proc[p].pc = "restart" => conts[proc[p].id].state # "running"
    /\ proc[p].pc \in {"disconnect", "connect"} => conts[proc[p].id].state = "running"
    /\ proc[p].pc = "start" => Fresh(proc[p].id, CurrentNode(p))
    /\ proc[p].pc = "warn" => Works(proc[p].id, CurrentNode(p).ip)

\* What a step of up p makes of it: it knows it still, or is done.
UpAfter(p) ==
    IF proc'[p].pc = "idle"
      THEN proc'[p].exit = "ok" => \A l \in Labs, cfg \in AllConfigs, r \in BOOLEAN :
              l = proc[p].lab /\ cfg = proc[p].cfg /\ r = proc[p].recreate =>
                  AsWanted(l, cfg, r)'
      ELSE /\ UpKnows(p)' /\ proc'[p].pc \in UpPcs /\ proc'[p].exit = proc[p].exit
           /\ proc'[p].lab = proc[p].lab /\ proc'[p].cfg = proc[p].cfg
           /\ proc'[p].recreate = proc[p].recreate

LEMMA CfgIs ==
    ASSUME NEW cfg \in AllConfigs
    PROVE  /\ cfg.nodes \in Seq(NodeCfg) /\ Len(cfg.nodes) \in Nat \ {0}
           /\ \A i, j \in 1..Len(cfg.nodes) : cfg.nodes[i].name = cfg.nodes[j].name => i = j
<1>1. cfg \in LabCfg /\ ValidCfg(cfg)
  BY LabAssumption DEF AllConfigs
<1>2. cfg.nodes \in Seq(NodeCfg) /\ cfg.nodes # <<>>
  BY <1>1 DEF LabCfg, ValidCfg
<1>3. Len(cfg.nodes) \in Nat \ {0}
  BY <1>2, LenProperties, EmptySeq
<1> QED BY <1>1, <1>2, <1>3 DEF ValidCfg

\* The configuration of a command that works on nodes is one of vabbe.yaml's.
LEMMA CommandIs ==
    ASSUME IInv, NEW p \in Procs, proc[p].pc \in NodePcs
    PROVE  /\ proc[p].cfg \in AllConfigs /\ proc[p].lab \in Labs
           /\ proc[p].recreate \in BOOLEAN
           /\ proc[p].i \in 1..Len(proc[p].cfg.nodes)
           /\ CurrentNode(p) = proc[p].cfg.nodes[proc[p].i]
<1>1. proc[p] \in Command /\ CommandOK(proc[p])
  BY DEF IInv, TypeOK
<1>2. proc[p].i \in 1..Len(proc[p].cfg.nodes) /\ proc[p].lab \in Labs
  BY <1>1 DEF CommandOK
<1>3. proc[p].cfg # NoConfig
  BY <1>2, EmptySeq DEF NoConfig
<1> QED BY <1>1, <1>2, <1>3 DEF Command, CurrentNode

LEMMA AsWantedIs ==
    ASSUME NEW l, NEW cfg \in AllConfigs, NEW r
    PROVE  AsWanted(l, cfg, r) <=> Settled(l, cfg, r, Len(cfg.nodes) + 1)
<1>1. \A j \in 1..Len(cfg.nodes) : j < Len(cfg.nodes) + 1
  BY CfgIs
<1>2. DriftedNodes(l, cfg) = {} <=>
         \A j \in 1..Len(cfg.nodes) : \A c \in NodeContainers(l, cfg.nodes[j].name) :
             ~Drifted(c, cfg.nodes[j].spec)
  BY DEF DriftedNodes
<1> QED BY <1>1, <1>2 DEF AsWanted, LabUp, Settled, NodeWanted

LEMMA AsWantedNextIs ==
    ASSUME NEW l, NEW cfg \in AllConfigs, NEW r
    PROVE  AsWanted(l, cfg, r)' <=> Settled(l, cfg, r, Len(cfg.nodes) + 1)'
<1>1. \A j \in 1..Len(cfg.nodes) : j < Len(cfg.nodes) + 1
  BY CfgIs
<1>2. DriftedNodes(l, cfg)' = {} <=>
         \A j \in 1..Len(cfg.nodes) : \A c \in NodeContainers(l, cfg.nodes[j].name)' :
             ~Drifted(c, cfg.nodes[j].spec)'
  BY DEF DriftedNodes
<1> QED BY <1>1, <1>2 DEF AsWanted, LabUp, Settled, NodeWanted

-----------------------------------------------------------------------------
(* How up goes on. *)

LEMMA GoIs ==
    ASSUME TypeOK, NEW p \in Procs, NEW pc, NEW c, NEW s, GoWith(p, pc, c, s)
    PROVE  /\ proc'[p].pc = pc /\ proc'[p].id = c
           /\ proc'[p].seen = IF pc \in {"drift", "restart"} THEN s ELSE NoSummary
           /\ proc'[p].lab = proc[p].lab /\ proc'[p].cfg = proc[p].cfg
           /\ proc'[p].i = proc[p].i /\ proc'[p].recreate = proc[p].recreate
           /\ proc'[p].exit = proc[p].exit /\ proc'[p].warned = proc[p].warned
           /\ CurrentNode(p)' = CurrentNode(p)
<1> DEFINE s1 == IF pc \in {"drift", "restart"} THEN s ELSE NoSummary
           r == [proc[p] EXCEPT !.pc = pc, !.id = c, !.seen = s1]
<1>1. proc[p] \in Command
  BY DEF TypeOK
<1>2. proc' = [proc EXCEPT ![p] = r]
  BY DEF GoWith
<1> HIDE DEF s1
<1>3. /\ r.pc = pc /\ r.id = c /\ r.seen = s1 /\ r.lab = proc[p].lab
      /\ r.cfg = proc[p].cfg /\ r.i = proc[p].i /\ r.recreate = proc[p].recreate
      /\ r.exit = proc[p].exit /\ r.warned = proc[p].warned
  BY <1>1 DEF Command
<1> HIDE DEF r
<1>4. proc'[p] = r
  BY <1>2 DEF TypeOK
<1> QED BY <1>3, <1>4 DEF s1, CurrentNode

LEMMA VisitIs ==
    ASSUME TypeOK, NEW p \in Procs, NEW i, NEW w, Visit(p, i, w)
    PROVE  IF i > Len(proc[p].cfg.nodes)
             THEN proc'[p].pc = "idle" /\ proc'[p].exit = "ok" /\ proc'[p].warned = w
             ELSE /\ proc'[p].pc = "find" /\ proc'[p].i = i /\ proc'[p].warned = w
                  /\ proc'[p].lab = proc[p].lab /\ proc'[p].cfg = proc[p].cfg
                  /\ proc'[p].recreate = proc[p].recreate /\ proc'[p].exit = proc[p].exit
<1>1. proc[p] \in Command
  BY DEF TypeOK
<1>2. CASE i > Len(proc[p].cfg.nodes)
  <2>1. proc' = [proc EXCEPT ![p] = [Idle EXCEPT !.exit = "ok", !.warned = w]]
    BY <1>2 DEF Visit
  <2> QED BY <1>2, <2>1 DEF Idle, TypeOK
<1>3. CASE ~(i > Len(proc[p].cfg.nodes))
  <2> DEFINE r == [proc[p] EXCEPT !.pc = "find", !.i = i, !.id = None,
                                  !.seen = NoSummary, !.warned = w]
  <2>1. proc' = [proc EXCEPT ![p] = r]
    BY <1>3 DEF Visit
  <2>2. /\ r.pc = "find" /\ r.i = i /\ r.warned = w /\ r.lab = proc[p].lab
        /\ r.cfg = proc[p].cfg /\ r.recreate = proc[p].recreate /\ r.exit = proc[p].exit
    BY <1>1 DEF Command
  <2> HIDE DEF r
  <2> QED BY <1>3, <2>1, <2>2 DEF TypeOK
<1> QED BY <1>2, <1>3

\* Up goes on with node i once all before it are as wanted.
LEMMA VisitAfter ==
    ASSUME IInv, NEW p \in Procs, NEW i \in Nat, NEW w, Visit(p, i, w),
           proc[p].cfg \in AllConfigs,
           NEW l, l = proc[p].lab, NEW cfg, cfg = proc[p].cfg, NEW r, r = proc[p].recreate,
           Settled(l, cfg, r, i)'
    PROVE  UpAfter(p)
<1>1. Len(cfg.nodes) \in Nat
  BY CfgIs
<1>2. CASE i > Len(cfg.nodes)
  <2>1. Settled(l, cfg, r, Len(cfg.nodes) + 1)'
    BY <1>1, <1>2 DEF Settled
  <2>2. AsWanted(l, cfg, r)'
    BY <2>1, AsWantedNextIs
  <2>3. proc'[p].pc = "idle"
    BY <1>2, VisitIs DEF IInv
  <2> QED BY <2>2, <2>3 DEF UpAfter
<1>3. CASE ~(i > Len(cfg.nodes))
  <2>1. /\ proc'[p].pc = "find" /\ proc'[p].i = i /\ proc'[p].exit = proc[p].exit
        /\ proc'[p].lab = l /\ proc'[p].cfg = cfg /\ proc'[p].recreate = r
    BY <1>3, VisitIs DEF IInv
  <2>2. Settled(proc[p].lab, proc[p].cfg, proc[p].recreate, proc[p].i)'
    BY <2>1 DEF Settled, NodeWanted, NodeUp, NetNamed, Usable, NodeContainers, Drifted, Exists
  <2>3. UpKnows(p)'
    BY <2>1, <2>2 DEF UpKnows
  <2> QED BY <2>1, <2>3 DEF UpAfter
<1> QED BY <1>2, <1>3

\* A step of up changes containers of the node at hand only.
OnlyOwn(p) ==
    \A c \in Cids : conts'[c] # conts[c] =>
        /\ Exists(c) => conts[c].node = CurrentNode(p).name
        /\ Exists(c)' => conts'[c].node = CurrentNode(p).name

LEMMA SettledStays ==
    ASSUME IInv, NEW p \in Procs, proc[p].pc \in NodePcs, OnlyOwn(p), UNCHANGED nets,
           NEW l, NEW cfg, cfg = proc[p].cfg, NEW r, NEW i, i = proc[p].i,
           Settled(l, cfg, r, i)
    PROVE  Settled(l, cfg, r, i)'
<1>1. \E n \in NetNamed(l)' : Usable(n, l, cfg)'
  BY DEF Settled, NetNamed, Usable
<1>2. ASSUME NEW j \in 1..Len(cfg.nodes), j < i
      PROVE  NodeWanted(l, cfg.nodes[j], r)'
  <2> DEFINE node == cfg.nodes[j]
  <2>1. node.name # CurrentNode(p).name
    BY <1>2, CommandIs, CfgIs
  <2>2. NodeWanted(l, node, r)
    BY <1>2 DEF Settled
  <2> HIDE DEF node
  <2>3. ASSUME NEW c \in Cids, c \in NodeContainers(l, node.name) \/ c \in NodeContainers(l, node.name)'
        PROVE  conts'[c] = conts[c]
    BY <2>1, <2>3 DEF OnlyOwn, NodeContainers, Exists
  <2>4. NodeContainers(l, node.name)' = NodeContainers(l, node.name)
    BY <2>3 DEF NodeContainers, Exists
  <2>5. \A c \in NodeContainers(l, node.name) : c \in Cids /\ conts'[c] = conts[c]
    BY <2>3 DEF NodeContainers
  <2>6. NodeWanted(l, node, r)'
    BY <2>2, <2>4, <2>5 DEF NodeWanted, NodeUp, Drifted, Exists
  <2> QED BY <2>6 DEF node
<1> QED BY <1>1, <1>2 DEF Settled

\* Up stays with its node: what it is to know of it in the next state.
LEMMA GoAfter ==
    ASSUME IInv, NEW p \in Procs, proc[p].pc \in NodePcs, UpKnows(p), OnlyOwn(p),
           UNCHANGED nets, NEW pc \in NodePcs, NEW c, NEW s, GoWith(p, pc, c, s),
           NEW l, l = proc[p].lab, NEW node, node = CurrentNode(p),
           NEW r, r = proc[p].recreate,
           pc = "create" => NodeContainers(l, node.name)' = {},
           pc \in ContainerPcs => NodeContainers(l, node.name)' = {c},
           pc \in {"drift", "restart"} => s = SummaryOf(conts'[c]),
           (pc \in {"restart", "disconnect", "connect", "warn"} /\ r) =>
               ~Drifted(c, node.spec)',
           pc = "restart" => conts'[c].state # "running",
           pc \in {"disconnect", "connect"} => conts'[c].state = "running",
           pc = "start" => Fresh(c, node)',
           pc = "warn" => Works(c, node.ip)'
    PROVE  UpAfter(p)
<1>1. /\ proc'[p].pc = pc /\ proc'[p].id = c
      /\ pc \in {"drift", "restart"} => proc'[p].seen = s
      /\ proc'[p].lab = l /\ proc'[p].cfg = proc[p].cfg
      /\ proc'[p].i = proc[p].i /\ proc'[p].recreate = r
      /\ proc'[p].exit = proc[p].exit
      /\ CurrentNode(p)' = node
  BY GoIs DEF IInv
<1>2. Settled(proc[p].lab, proc[p].cfg, proc[p].recreate, proc[p].i)'
  <2>1. PICK cfg, i : cfg = proc[p].cfg /\ i = proc[p].i
    OBVIOUS
  <2>2. Settled(l, cfg, r, i)
    BY <2>1 DEF UpKnows
  <2>3. Settled(l, cfg, r, i)'
    BY <2>1, <2>2, SettledStays
  <2> QED BY <1>1, <2>1, <2>3
          DEF Settled, NodeWanted, NodeUp, NetNamed, Usable, NodeContainers, Drifted, Exists
<1>3. pc = "create" => Own(p)' = {}
  BY <1>1 DEF Own, NodeContainers, Exists
<1>4. pc \in ContainerPcs => Own(p)' = {proc'[p].id}
  BY <1>1 DEF Own, NodeContainers, Exists
<1>5. pc \in {"drift", "restart"} => proc'[p].seen = SummaryOf(conts'[proc'[p].id])
  BY <1>1
<1>6. (pc \in {"restart", "disconnect", "connect", "warn"} /\ r) =>
          ~Drifted(proc[p].id, CurrentNode(p).spec)'
  BY <1>1 DEF Drifted, Exists
<1>7. pc = "start" => Fresh(proc[p].id, CurrentNode(p))'
  BY <1>1 DEF Fresh
<1>8. pc = "warn" => Works(proc[p].id, CurrentNode(p).ip)'
  BY <1>1 DEF Works
<1>9. UpKnows(p)'
  BY <1>1, <1>2, <1>3, <1>4, <1>5, <1>6, <1>7, <1>8 DEF UpKnows
<1> QED BY <1>1, <1>9 DEF UpAfter

\* Up is done with its node, which is as wanted.
LEMMA NextAfter ==
    ASSUME IInv, NEW p \in Procs, proc[p].pc \in NodePcs, UpKnows(p), OnlyOwn(p),
           UNCHANGED nets, NEW w, Visit(p, proc[p].i + 1, w),
           NEW l, l = proc[p].lab, NEW node, node = CurrentNode(p),
           NEW r, r = proc[p].recreate,
           NodeWanted(l, node, r)'
    PROVE  UpAfter(p)
<1>1. PICK cfg, i : cfg = proc[p].cfg /\ i = proc[p].i
  OBVIOUS
<1>2. cfg \in AllConfigs /\ i \in 1..Len(cfg.nodes) /\ node = cfg.nodes[i]
  BY <1>1, CommandIs
<1>3. Len(cfg.nodes) \in Nat
  BY <1>2, CfgIs
<1>4. Settled(l, cfg, r, i)
  BY <1>1 DEF UpKnows
<1>5. Settled(l, cfg, r, i)'
  BY <1>1, <1>4, SettledStays
<1>6. \A j \in 1..Len(cfg.nodes) : j < i + 1 => j < i \/ j = i
  BY <1>2, <1>3
<1>7. Settled(l, cfg, r, i + 1)'
  BY <1>2, <1>5, <1>6 DEF Settled
<1>8. i + 1 \in Nat /\ Visit(p, i + 1, w)
  BY <1>1, <1>2, <1>3
<1> QED BY <1>1, <1>2, <1>7, <1>8, VisitAfter


-----------------------------------------------------------------------------
(* The steps of an undisturbed up. *)

LEMMA OnlyOne ==
    ASSUME IInv, NEW l \in Labs, NEW n, NEW c \in NodeContainers(l, n)
    PROVE  NodeContainers(l, n) = {c}
<1>1. l # None
  BY DaemonAssumption
<1>2. ASSUME NEW d \in NodeContainers(l, n)
      PROVE  d \in Cids /\ Exists(d) /\ conts[d].name = NameOf[<<l, n>>]
  BY <1>1 DEF IInv, NamedByNode, NodeContainers
<1>3. ASSUME NEW d \in NodeContainers(l, n)
      PROVE  d = c
  BY <1>2 DEF IInv, NamesUnique
<1> QED BY <1>3

LEMMA StartEffect ==
    ASSUME DaemonTypeOK, NEW c \in Cids, CanStart(c), ContainerStart(c)
    PROVE  /\ conts'[c].state = "running"
           /\ conts'[c].attached = conts[c].attached /\ conts'[c].pin = conts[c].pin
<1>1. CASE conts[c].state = "running"
  BY <1>1 DEF ContainerStart
<1>2. CASE conts[c].state # "running"
  <2>1. PICK w \in Nids \cup {None}, a \in Addresses \cup {None} :
           conts' = [conts EXCEPT ![c].state = "running", ![c].netId = w,
                                       ![c].addr = a]
    BY <1>2 DEF ContainerStart
  <2> QED BY <2>1 DEF DaemonTypeOK, Container
<1> QED BY <1>1, <1>2

LEMMA ConnectEffect ==
    ASSUME DaemonTypeOK, NEW c \in Cids, NEW l, NEW pin, NetworkConnect(c, l, pin)
    PROVE  /\ conts'[c].state = conts[c].state
           /\ conts'[c].attached /\ conts'[c].pin = pin
<1>1. PICK w \in Nids \cup {None}, a \in Addresses \cup {None} :
         conts' = [conts EXCEPT ![c].attached = TRUE, ![c].netId = w, ![c].pin = pin,
                                   ![c].addr = a]
  BY DEF NetworkConnect
<1> QED BY <1>1 DEF DaemonTypeOK, Container

\* A call on the container of the node at hand leaves it the node's only one.
LEMMA OwnTouched ==
    ASSUME IInv, NEW p \in Procs, NEW c \in Cids, Own(p) = {c}, Touches(c),
           NEW l, l = proc[p].lab, NEW node, node = CurrentNode(p)
    PROVE  /\ OnlyOwn(p)
           /\ NodeContainers(l, node.name)' = {c}
           /\ Drifted(c, node.spec)' <=> Drifted(c, node.spec)
<1>1. /\ Exists(c) /\ conts[c].owner = l /\ conts[c].node = node.name
      /\ \A d \in Cids \ {c} : ~(Exists(d) /\ conts[d].owner = l /\ conts[d].node = node.name)
  BY DEF Own, NodeContainers
<1>2. Exists(c)' /\ conts'[c].owner = l /\ conts'[c].node = node.name
      /\ conts'[c].spec = conts[c].spec
  BY <1>1 DEF Touches, SameIdentity, Exists
<1>3. OnlyOwn(p)
  BY <1>1, <1>2 DEF OnlyOwn, Touches
<1>4. NodeContainers(l, node.name)' = {c}
  BY <1>1, <1>2 DEF NodeContainers, Touches, Exists
<1>5. Drifted(c, node.spec)' <=> Drifted(c, node.spec)
  BY <1>1, <1>2 DEF Drifted
<1> QED BY <1>3, <1>4, <1>5

LEMMA OwnUntouched ==
    ASSUME UNCHANGED conts, NEW p \in Procs, NEW l, NEW n, NEW c, NEW spec
    PROVE  /\ OnlyOwn(p)
           /\ NodeContainers(l, n)' = NodeContainers(l, n)
           /\ Drifted(c, spec)' <=> Drifted(c, spec)
BY DEF OnlyOwn, NodeContainers, Drifted, Exists

LEMMA WorkingWanted ==
    ASSUME NEW l, NEW node, NEW r, NEW c \in Cids,
           NodeContainers(l, node.name)' = {c}, Works(c, node.ip)',
           r => ~Drifted(c, node.spec)'
    PROVE  NodeWanted(l, node, r)'
BY DEF NodeWanted, NodeUp, Works

LEMMA LeasedWorks ==
    ASSUME NEW c, NEW ip, AddressOK(conts[c]), conts[c].state = "running", conts[c].attached,
           ip # None => conts[c].pin = ip
    PROVE  Works(c, ip)
BY DEF AddressOK, Works

LEMMA ErrorAfter ==
    ASSUME IInv, NEW p \in Procs, Exit(p, "error")
    PROVE  UpAfter(p)
BY IdleIs DEF IInv, UpAfter

LEMMA InspectNetAfter ==
    ASSUME IInv, NEW p \in Procs, proc[p].cfg \in AllConfigs, InspectNet(p)
    PROVE  UpAfter(p)
<1>1. UNCHANGED <<conts, nets>>
  BY DEF InspectNet
<1>2. CASE Goto(p, "createNet")
  <2>1. /\ proc'[p].pc = "createNet" /\ proc'[p].exit = proc[p].exit
        /\ proc'[p].lab = proc[p].lab /\ proc'[p].cfg = proc[p].cfg
        /\ proc'[p].recreate = proc[p].recreate
    BY <1>2, GoIs DEF IInv, Goto
  <2> QED BY <2>1 DEF UpAfter, UpKnows
<1>3. ASSUME NEW n \in NetNamed(proc[p].lab), Usable(n, proc[p].lab, proc[p].cfg),
             Visit(p, 1, {})
      PROVE  UpAfter(p)
  <2>1. ASSUME NEW l, l = proc[p].lab, NEW cfg, cfg = proc[p].cfg, NEW r
        PROVE  Settled(l, cfg, r, 1)'
    BY <1>1, <1>3, <2>1, CfgIs DEF Settled, Usable, NetNamed
  <2> QED BY <1>3, <2>1, VisitAfter
<1> QED BY <1>2, <1>3, ErrorAfter DEF InspectNet

LEMMA CreateNetAfter ==
    ASSUME IInv, NEW p \in Procs, proc[p].cfg \in AllConfigs, CreateNet(p)
    PROVE  UpAfter(p)
<1>1. ASSUME NEW n \in NewNids, NEW s \in Subnets,
             proc[p].cfg.subnet # None => s = proc[p].cfg.subnet,
             nets' = NetworkCreate(n, proc[p].lab, s), Visit(p, 1, {})
      PROVE  UpAfter(p)
  <2>1. n \in Nids /\ nets'[n].name = proc[p].lab /\ nets'[n].owner = proc[p].lab
        /\ nets'[n].subnet = s
    BY <1>1 DEF NewNids, NetworkCreate, IInv, TypeOK, DaemonTypeOK
  <2>2. ASSUME NEW l, l = proc[p].lab, NEW cfg, cfg = proc[p].cfg, NEW r
        PROVE  Settled(l, cfg, r, 1)'
    BY <1>1, <2>1, <2>2, CfgIs DEF Settled, Usable, NetNamed
  <2> QED BY <1>1, <2>2, VisitAfter
<1> QED BY <1>1, ErrorAfter DEF CreateNet


\* Where reconcile goes is where the container, as it is, needs it to go.
LEMMA ReconcileIs ==
    ASSUME NEW c, AddressOK(conts[c]), NEW node, NEW pc,
           pc = ReconcilePc(SummaryOf(conts[c]), node)
    PROVE  /\ pc \in {"restart", "connect", "disconnect", "warn"}
           /\ pc = "restart" => conts[c].state # "running"
           /\ pc \in {"disconnect", "connect"} => conts[c].state = "running"
           /\ pc = "warn" => Works(c, node.ip)
<1>1. PICK s : s = SummaryOf(conts[c])
  OBVIOUS
<1>2. /\ s.state = conts[c].state /\ s.attached = conts[c].attached
      /\ s.pin = conts[c].pin /\ s.addr = conts[c].addr
  BY <1>1 DEF SummaryOf
<1>3. pc = ReconcilePc(s, node)
  BY <1>1
<1> QED BY <1>2, <1>3 DEF ReconcilePc, AttachPc, Works, AddressOK

LEMMA FindNodeAfter ==
    ASSUME IInv, Addressed, NEW p \in Procs, UpKnows(p), FindNode(p)
    PROVE  UpAfter(p)
<1> SUFFICES ASSUME NEW l, l = proc[p].lab, NEW node, node = CurrentNode(p),
                    NEW r, r = proc[p].recreate
             PROVE  UpAfter(p)
  OBVIOUS
<1>1. UNCHANGED <<conts, nets>> /\ proc[p].pc = "find" /\ l \in Labs
  BY CommandIs DEF FindNode
<1>2. CASE NodeContainers(l, node.name) = {} /\ Goto(p, "create")
  <2>1. GoWith(p, "create", proc[p].id, proc[p].seen) /\ OnlyOwn(p)
        /\ NodeContainers(l, node.name)' = {}
    BY <1>1, <1>2 DEF Goto, NodeContainers, Exists, OnlyOwn
  <2> QED BY <1>1, <2>1, GoAfter
<1>3. ASSUME NEW c \in NodeContainers(l, node.name), NEW pc, NEW s,
             s = SummaryOf(conts[c]),
             pc = IF r THEN "drift" ELSE ReconcilePc(s, node),
             GoWith(p, pc, c, s)
      PROVE  UpAfter(p)
  <2>1. NodeContainers(l, node.name) = {c} /\ c \in Cids /\ AddressOK(conts[c])
    BY <1>1, OnlyOne DEF NodeContainers, Addressed
  <2>2. pc \in {"drift", "restart", "connect", "disconnect", "warn"} /\ (r => pc = "drift")
    BY <1>3, ReconcileTyped
  <2>3. /\ pc = "restart" => conts[c].state # "running"
        /\ pc \in {"disconnect", "connect"} => conts[c].state = "running"
        /\ pc = "warn" => Works(c, node.ip)
    BY <1>3, <2>1, ReconcileIs
  <2>4. OnlyOwn(p) /\ NodeContainers(l, node.name)' = {c} /\ conts'[c] = conts[c]
    BY <1>1, <2>1 DEF NodeContainers, Exists, OnlyOwn
  <2>5. pc = "warn" => Works(c, node.ip)'
    BY <1>1, <1>3, <2>3 DEF Works
  <2> QED BY <1>1, <1>3, <2>2, <2>3, <2>4, <2>5, GoAfter
<1> QED BY <1>1, <1>2, <1>3 DEF FindNode


LEMMA CheckDriftAfter ==
    ASSUME IInv, Addressed, NEW p \in Procs, UpKnows(p), CheckDrift(p)
    PROVE  UpAfter(p)
<1> SUFFICES ASSUME NEW l, l = proc[p].lab, NEW node, node = CurrentNode(p),
                    NEW r, r = proc[p].recreate, NEW c, c = proc[p].id,
                    NEW s, s = proc[p].seen, NEW pc,
                    pc = IF Drifted(c, node.spec) THEN "remove" ELSE ReconcilePc(s, node)
             PROVE  UpAfter(p)
  OBVIOUS
<1>1. /\ UNCHANGED <<conts, nets>> /\ proc[p].pc = "drift"
      /\ GoWith(p, pc, c, s)
  BY DEF CheckDrift, Goto
<1>2. NodeContainers(l, node.name) = {c} /\ s = SummaryOf(conts[c]) /\ c \in Cids
  BY <1>1 DEF UpKnows, Own, NodeContainers
<1>3. /\ pc \in {"remove", "restart", "connect", "disconnect", "warn"}
      /\ pc # "remove" => ~Drifted(c, node.spec)
      /\ pc = "restart" => conts[c].state # "running"
      /\ pc \in {"disconnect", "connect"} => conts[c].state = "running"
      /\ pc = "warn" => Works(c, node.ip)
  BY <1>2, ReconcileIs DEF Addressed
<1>4. /\ OnlyOwn(p) /\ NodeContainers(l, node.name)' = {c} /\ conts'[c] = conts[c]
      /\ pc # "remove" => ~Drifted(c, node.spec)'
      /\ pc = "warn" => Works(c, node.ip)'
  BY <1>1, <1>2, <1>3 DEF NodeContainers, Exists, OnlyOwn, Drifted, Works
<1> QED BY <1>1, <1>2, <1>3, <1>4, GoAfter

LEMMA RemoveDriftedAfter ==
    ASSUME IInv, NEW p \in Procs, UpKnows(p), RemoveDrifted(p)
    PROVE  UpAfter(p)
<1> SUFFICES ASSUME NEW l, l = proc[p].lab, NEW node, node = CurrentNode(p),
                    NEW r, r = proc[p].recreate, NEW c, c = proc[p].id
             PROVE  UpAfter(p)
  OBVIOUS
<1>1. UNCHANGED nets /\ proc[p].pc = "remove"
  BY DEF RemoveDrifted
<1>2. NodeContainers(l, node.name) = {c} /\ c \in Cids
  BY <1>1 DEF UpKnows, Own, NodeContainers
<1>3. CASE conts' = ContainerRemove(c) /\ GoWith(p, "create", None, NoSummary)
  <2>1. ~Exists(c)' /\ \A d \in Cids \ {c} : conts'[d] = conts[d]
    BY <1>2, <1>3, RemoveTyped DEF IInv, TypeOK
  <2>2. OnlyOwn(p)
    BY <1>2, <2>1 DEF OnlyOwn, NodeContainers
  <2>3. NodeContainers(l, node.name)' = {}
    BY <1>2, <2>1 DEF NodeContainers, Exists
  <2> QED BY <1>1, <1>3, <2>2, <2>3, GoAfter
<1> QED BY <1>3, ErrorAfter DEF RemoveDrifted

LEMMA CreateNodeAfter ==
    ASSUME IInv, NEW p \in Procs, UpKnows(p), CreateNode(p)
    PROVE  UpAfter(p)
<1> SUFFICES ASSUME NEW l, l = proc[p].lab, NEW node, node = CurrentNode(p),
                    NEW r, r = proc[p].recreate
             PROVE  UpAfter(p)
  OBVIOUS
<1>1. UNCHANGED nets /\ proc[p].pc = "create"
  BY DEF CreateNode
<1>2. NodeContainers(l, node.name) = {}
  BY <1>1 DEF UpKnows, Own
<1>3. l \in Labs /\ node.name \in Nodes /\ node.ip \in Addresses \cup {None}
      /\ node.spec \in NodeSpec
  BY <1>1, CurrentNodeTyped DEF NodeCfg, IInv
<1>4. ASSUME NEW c \in NewCids,
             conts' = ContainerCreate(c, l, node.name, node.ip, node.spec),
             GoWith(p, "start", c, NoSummary)
      PROVE  UpAfter(p)
  <2>1. c \in Cids /\ ~Exists(c)
    BY DEF NewCids
  <2>2. /\ \A d \in Cids \ {c} : conts'[d] = conts[d]
        /\ conts'[c].state = "created" /\ conts'[c].owner = l /\ conts'[c].node = node.name
        /\ conts'[c].spec = node.spec /\ conts'[c].attached /\ conts'[c].pin = node.ip
    <3> DEFINE k == [state |-> "created", owner |-> l, node |-> node.name,
                     name |-> NameOf[<<l, node.name>>], spec |-> node.spec,
                     attached |-> TRUE, netId |-> None, pin |-> node.ip, addr |-> None]
    <3>1. conts' = [conts EXCEPT ![c] = k]
      BY <1>4 DEF ContainerCreate
    <3>2. /\ k.state = "created" /\ k.owner = l /\ k.node = node.name
          /\ k.spec = node.spec /\ k.attached /\ k.pin = node.ip
      OBVIOUS
    <3> HIDE DEF k
    <3> QED BY <2>1, <3>1, <3>2 DEF IInv, TypeOK, DaemonTypeOK
  <2>3. OnlyOwn(p)
    BY <2>1, <2>2 DEF OnlyOwn
  <2>4. NodeContainers(l, node.name)' = {c}
    BY <1>2, <2>1, <2>2 DEF NodeContainers, Exists
  <2>5. Fresh(c, node)'
    BY <2>2 DEF Fresh
  <2> QED BY <1>1, <1>4, <2>3, <2>4, <2>5, GoAfter
<1> QED BY <1>4, ErrorAfter DEF CreateNode


\* Up has started, moved or checked its container, which works now.
LEMMA WorkingAfter ==
    ASSUME IInv, Addressed', NEW p \in Procs, proc[p].pc \in ContainerPcs, UpKnows(p),
           UNCHANGED nets, NEW w, Visit(p, proc[p].i + 1, w),
           Touches(proc[p].id),
           (conts[proc[p].id].spec = CurrentNode(p).spec \/ ~proc[p].recreate
              \/ ~Drifted(proc[p].id, CurrentNode(p).spec)),
           conts'[proc[p].id].state = "running", conts'[proc[p].id].attached,
           CurrentNode(p).ip # None => conts'[proc[p].id].pin = CurrentNode(p).ip
    PROVE  UpAfter(p)
<1> SUFFICES ASSUME NEW l, l = proc[p].lab, NEW node, node = CurrentNode(p),
                    NEW r, r = proc[p].recreate, NEW c, c = proc[p].id
             PROVE  UpAfter(p)
  OBVIOUS
<1>1. Own(p) = {c} /\ c \in Cids
  BY DEF UpKnows, Own, NodeContainers
<1>2. /\ OnlyOwn(p) /\ NodeContainers(l, node.name)' = {c}
      /\ Drifted(c, node.spec)' <=> Drifted(c, node.spec)
  BY <1>1, OwnTouched
<1>3. Works(c, node.ip)'
  BY <1>1 DEF Addressed, AddressOK, Works
<1>4. r => ~Drifted(c, node.spec)'
  <2>1. node.spec.opts \subseteq node.spec.opts
    OBVIOUS
  <2> QED BY <1>2, <2>1 DEF Drifted
<1>5. NodeWanted(l, node, r)'
  BY <1>1, <1>2, <1>3, <1>4, WorkingWanted
<1> QED BY <1>2, <1>5, NextAfter

LEMMA StartNodeAfter ==
    ASSUME IInv, Addressed', NEW p \in Procs, UpKnows(p), StartNode(p)
    PROVE  UpAfter(p)
<1>1. UNCHANGED nets /\ proc[p].pc = "start" /\ proc[p].id \in Cids
      /\ Fresh(proc[p].id, CurrentNode(p))
  BY DEF StartNode, UpKnows, Own, NodeContainers
<1>2. CASE CanStart(proc[p].id) /\ ContainerStart(proc[p].id) /\ NextNode(p)
  <2>1. Touches(proc[p].id)
    BY <1>1, <1>2, StartTouches DEF IInv, TypeOK
  <2>2. /\ conts'[proc[p].id].state = "running" /\ conts'[proc[p].id].attached
        /\ conts'[proc[p].id].pin = CurrentNode(p).ip
    BY <1>1, <1>2, StartEffect DEF IInv, TypeOK, Fresh
  <2>3. conts[proc[p].id].spec = CurrentNode(p).spec
    BY <1>1 DEF Fresh
  <2> QED BY <1>1, <1>2, <2>1, <2>2, <2>3, WorkingAfter DEF NextNode
<1> QED BY <1>2, ErrorAfter DEF StartNode

LEMMA RestartNodeAfter ==
    ASSUME IInv, Addressed, Addressed', NEW p \in Procs, UpKnows(p), RestartNode(p)
    PROVE  UpAfter(p)
<1> SUFFICES ASSUME NEW l, l = proc[p].lab, NEW node, node = CurrentNode(p),
                    NEW r, r = proc[p].recreate, NEW c, c = proc[p].id,
                    NEW s, s = proc[p].seen, NEW pc, pc = AttachPc(s, node)
             PROVE  UpAfter(p)
  OBVIOUS
<1>1. UNCHANGED nets /\ proc[p].pc = "restart" /\ c \in Cids /\ Own(p) = {c}
      /\ conts[c].state # "running" /\ s = SummaryOf(conts[c])
      /\ (r => ~Drifted(c, node.spec))
  BY DEF RestartNode, UpKnows, Own, NodeContainers
<1>2. CASE CanStart(c) /\ ContainerStart(c) /\ GoWith(p, pc, c, s)
  <2>1. Touches(c)
    BY <1>1, <1>2, StartTouches DEF IInv, TypeOK
  <2>2. /\ conts'[c].state = "running"
        /\ conts'[c].attached = conts[c].attached /\ conts'[c].pin = conts[c].pin
    BY <1>1, <1>2, StartEffect DEF IInv, TypeOK
  <2>3. /\ OnlyOwn(p) /\ NodeContainers(l, node.name)' = {c}
        /\ Drifted(c, node.spec)' <=> Drifted(c, node.spec)
    BY <1>1, <2>1, OwnTouched
  <2>4. /\ s.attached = conts[c].attached /\ s.pin = conts[c].pin
        /\ s.addr = conts[c].addr /\ conts[c].addr = None
    BY <1>1 DEF SummaryOf, Addressed, AddressOK
  <2>5. pc \in {"connect", "disconnect", "warn"}
    BY ReconcileTyped
  <2>6. pc = "warn" => conts[c].attached /\ (node.ip # None => conts[c].pin = node.ip)
    BY <2>4 DEF AttachPc
  <2>7. pc = "warn" => Works(c, node.ip)'
    BY <1>1, <2>2, <2>6 DEF Addressed, AddressOK, Works
  <2> QED BY <1>1, <1>2, <2>2, <2>3, <2>5, <2>7, GoAfter
<1> QED BY <1>1, <1>2, ErrorAfter DEF RestartNode, Goto

LEMMA DisconnectNodeAfter ==
    ASSUME IInv, NEW p \in Procs, UpKnows(p), DisconnectNode(p)
    PROVE  UpAfter(p)
<1> SUFFICES ASSUME NEW l, l = proc[p].lab, NEW node, node = CurrentNode(p),
                    NEW r, r = proc[p].recreate, NEW c, c = proc[p].id
             PROVE  UpAfter(p)
  OBVIOUS
<1>1. UNCHANGED nets /\ proc[p].pc = "disconnect" /\ c \in Cids /\ Own(p) = {c}
      /\ conts[c].state = "running" /\ (r => ~Drifted(c, node.spec))
      /\ GoWith(p, "connect", c, proc[p].seen)
  BY DEF DisconnectNode, UpKnows, Own, NodeContainers, Goto
<1>2. CASE conts' = NetworkDisconnect(c)
  <2>1. Exists(c)
    BY <1>1 DEF Exists
  <2>2. Touches(c)
    BY <1>1, <1>2, <2>1, DisconnectTouches DEF IInv, TypeOK
  <2>3. conts'[c].state = "running"
    BY <1>1, <1>2 DEF NetworkDisconnect, IInv, TypeOK, DaemonTypeOK, Container
  <2>4. /\ OnlyOwn(p) /\ NodeContainers(l, node.name)' = {c}
        /\ Drifted(c, node.spec)' <=> Drifted(c, node.spec)
    BY <1>1, <2>2, OwnTouched
  <2> QED BY <1>1, <2>3, <2>4, GoAfter
<1>3. CASE UNCHANGED conts
  <2>1. /\ OnlyOwn(p) /\ NodeContainers(l, node.name)' = NodeContainers(l, node.name)
        /\ Drifted(c, node.spec)' <=> Drifted(c, node.spec)
    BY <1>3, OwnUntouched
  <2> QED BY <1>1, <1>3, <2>1, GoAfter DEF Own
<1> QED BY <1>2, <1>3 DEF DisconnectNode

LEMMA ConnectNodeAfter ==
    ASSUME IInv, Addressed', NEW p \in Procs, UpKnows(p), ConnectNode(p)
    PROVE  UpAfter(p)
<1>1. UNCHANGED nets /\ proc[p].pc = "connect" /\ proc[p].id \in Cids
      /\ Exists(proc[p].id) /\ conts[proc[p].id].state = "running"
      /\ (proc[p].recreate => ~Drifted(proc[p].id, CurrentNode(p).spec))
  BY DEF ConnectNode, UpKnows, Own, NodeContainers
<1>2. CASE NetworkConnect(proc[p].id, proc[p].lab, CurrentNode(p).ip) /\ NextNode(p)
  <2>1. CurrentNode(p).ip \in Addresses \cup {None}
    BY <1>1, CurrentNodeTyped DEF IInv, NodeCfg
  <2>2. Touches(proc[p].id)
    BY <1>1, <1>2, <2>1, ConnectTouches DEF IInv, TypeOK
  <2>3. /\ conts'[proc[p].id].state = "running" /\ conts'[proc[p].id].attached
        /\ conts'[proc[p].id].pin = CurrentNode(p).ip
    BY <1>1, <1>2, ConnectEffect DEF IInv, TypeOK
  <2> QED BY <1>1, <1>2, <2>2, <2>3, WorkingAfter DEF NextNode
<1> QED BY <1>2, ErrorAfter DEF ConnectNode

LEMMA CheckedAfter ==
    ASSUME IInv, NEW p \in Procs, UpKnows(p), proc[p].pc = "warn",
           UNCHANGED <<conts, nets>>, NEW w, Visit(p, proc[p].i + 1, w)
    PROVE  UpAfter(p)
<1> SUFFICES ASSUME NEW l, l = proc[p].lab, NEW node, node = CurrentNode(p),
                    NEW r, r = proc[p].recreate, NEW c, c = proc[p].id
             PROVE  UpAfter(p)
  OBVIOUS
<1>1. /\ c \in Cids /\ NodeContainers(l, node.name) = {c} /\ Works(c, node.ip)
      /\ (r => ~Drifted(c, node.spec))
  BY DEF UpKnows, Own, NodeContainers
<1>2. OnlyOwn(p) /\ NodeContainers(l, node.name)' = {c} /\ Works(c, node.ip)'
      /\ (r => ~Drifted(c, node.spec)')
  BY <1>1, OwnUntouched DEF Works
<1>3. NodeWanted(l, node, r)'
  BY <1>1, <1>2, WorkingWanted
<1> QED BY <1>1, <1>2, <1>3, NextAfter

LEMMA WarnDriftAfter ==
    ASSUME IInv, NEW p \in Procs, UpKnows(p), WarnDrift(p)
    PROVE  UpAfter(p)
BY CheckedAfter DEF WarnDrift

LEMMA UpStepAfter ==
    ASSUME IInv, Addressed, Addressed', NEW p \in Procs, proc[p].cfg \in AllConfigs,
           UpKnows(p), UpStep(p)
    PROVE  UpAfter(p)
BY InspectNetAfter, CreateNetAfter, FindNodeAfter, CheckDriftAfter, RemoveDriftedAfter,
   CreateNodeAfter, StartNodeAfter, RestartNodeAfter, DisconnectNodeAfter,
   ConnectNodeAfter, WarnDriftAfter DEF UpStep

-----------------------------------------------------------------------------
(* An up that finds the lab up. *)

\* The nodes with drift among the first i - 1.
DriftedBefore(l, cfg, i) ==
    {cfg.nodes[j].name : j \in {k \in 1..Len(cfg.nodes) :
        /\ k < i
        /\ \E c \in NodeContainers(l, cfg.nodes[k].name) : Drifted(c, cfg.nodes[k].spec)}}

FindsUp(p) ==
    /\ proc[p].pc \in {"inspectNet", "find", "drift", "warn"}
    /\ AsWanted(proc[p].lab, proc[p].cfg, proc[p].recreate)
    /\ proc[p].pc # "inspectNet" =>
          proc[p].warned = DriftedBefore(proc[p].lab, proc[p].cfg, proc[p].i)

\* What a step of such an up makes of it: it still finds the lab up, or it has told.
FindsAfter(p) ==
    /\ UNCHANGED <<conts, nets>>
    /\ IF proc'[p].pc = "idle"
         THEN proc'[p].exit = "ok" => \A l \in Labs, cfg \in AllConfigs :
                 l = proc[p].lab /\ cfg = proc[p].cfg =>
                     DriftedNodes(l, cfg)' = proc'[p].warned
         ELSE FindsUp(p)'

LEMMA DaemonStays ==
    ASSUME UNCHANGED <<conts, nets>>, NEW l, NEW cfg, NEW r, NEW i
    PROVE  /\ AsWanted(l, cfg, r)' <=> AsWanted(l, cfg, r)
           /\ DriftedBefore(l, cfg, i)' = DriftedBefore(l, cfg, i)
           /\ DriftedNodes(l, cfg)' = DriftedNodes(l, cfg)
<1>1. DriftedNodes(l, cfg)' = DriftedNodes(l, cfg)
  BY DEF DriftedNodes, NodeContainers, Drifted, Exists
<1>2. DriftedBefore(l, cfg, i)' = DriftedBefore(l, cfg, i)
  BY DEF DriftedBefore, NodeContainers, Drifted, Exists
<1>3. LabUp(l, cfg)' <=> LabUp(l, cfg)
  BY DEF LabUp, NetNamed, Usable, NodeUp, NodeContainers, Exists
<1> QED BY <1>1, <1>2, <1>3 DEF AsWanted

LEMMA FindsNext ==
    ASSUME NEW p, NEW l, NEW cfg, NEW r, NEW i,
           proc'[p].lab = l, proc'[p].cfg = cfg, proc'[p].recreate = r, proc'[p].i = i,
           AsWanted(l, cfg, r)',
           proc'[p].pc # "inspectNet" => proc'[p].warned = DriftedBefore(l, cfg, i)',
           proc'[p].pc \in {"inspectNet", "find", "drift", "warn"}
    PROVE  FindsUp(p)'
<1>1. LabUp(proc[p].lab, proc[p].cfg)'
  BY DEF AsWanted, LabUp, NetNamed, Usable, NodeUp, NodeContainers, Exists
<1>2. DriftedNodes(proc[p].lab, proc[p].cfg)' = DriftedNodes(l, cfg)'
  BY DEF DriftedNodes, NodeContainers, Exists, Drifted
<1>3. proc'[p].recreate => DriftedNodes(proc[p].lab, proc[p].cfg)' = {}
  BY <1>2 DEF AsWanted
<1>4. DriftedBefore(proc[p].lab, proc[p].cfg, proc[p].i)' = DriftedBefore(l, cfg, i)'
  BY DEF DriftedBefore, NodeContainers, Exists, Drifted
<1> QED BY <1>1, <1>3, <1>4 DEF FindsUp, AsWanted

\* Going on with the node at hand.
LEMMA GoFinds ==
    ASSUME IInv, NEW p \in Procs, FindsUp(p), proc[p].pc # "inspectNet",
           UNCHANGED <<conts, nets>>, NEW pc \in {"drift", "warn"}, NEW c, NEW s,
           GoWith(p, pc, c, s)
    PROVE  FindsAfter(p)
<1> SUFFICES ASSUME NEW l, l = proc[p].lab, NEW cfg, cfg = proc[p].cfg,
                    NEW r, r = proc[p].recreate, NEW i, i = proc[p].i
             PROVE  FindsAfter(p)
  OBVIOUS
<1>1. /\ proc'[p].pc = pc /\ proc'[p].lab = l /\ proc'[p].cfg = cfg
      /\ proc'[p].recreate = r /\ proc'[p].i = i /\ proc'[p].warned = proc[p].warned
  BY GoIs DEF IInv
<1>2. AsWanted(l, cfg, r)' /\ proc'[p].warned = DriftedBefore(l, cfg, i)'
  BY <1>1, DaemonStays DEF FindsUp
<1>3. FindsUp(p)'
  BY <1>1, <1>2, FindsNext
<1> QED BY <1>1, <1>3 DEF FindsAfter

\* Going on with the next node.
LEMMA VisitFinds ==
    ASSUME IInv, NEW p \in Procs, FindsUp(p), UNCHANGED <<conts, nets>>,
           NEW i \in Nat, NEW w, Visit(p, i, w),
           NEW l, l = proc[p].lab, NEW cfg \in AllConfigs, cfg = proc[p].cfg,
           w = DriftedBefore(l, cfg, i)
    PROVE  FindsAfter(p)
<1> SUFFICES ASSUME NEW r, r = proc[p].recreate
             PROVE  FindsAfter(p)
  OBVIOUS
<1>1. Len(cfg.nodes) \in Nat
  BY CfgIs
<1>2. CASE i > Len(cfg.nodes)
  <2>1. w = DriftedNodes(l, cfg)
    <3>1. \A k \in 1..Len(cfg.nodes) : k < i
      BY <1>1, <1>2
    <3> QED BY <3>1 DEF DriftedBefore, DriftedNodes
  <2>2. proc'[p].pc = "idle" /\ proc'[p].warned = w
    BY <1>2, VisitIs DEF IInv
  <2>3. DriftedNodes(l, cfg)' = w
    BY <2>1, DaemonStays
  <2> QED BY <2>2, <2>3 DEF FindsAfter
<1>3. CASE ~(i > Len(cfg.nodes))
  <2>1. /\ proc'[p].pc = "find" /\ proc'[p].i = i /\ proc'[p].warned = w
        /\ proc'[p].lab = l /\ proc'[p].cfg = cfg /\ proc'[p].recreate = r
    BY <1>3, VisitIs DEF IInv
  <2>2. AsWanted(l, cfg, r)' /\ w = DriftedBefore(l, cfg, i)'
    BY DaemonStays DEF FindsUp
  <2>3. FindsUp(p)'
    BY <2>1, <2>2, FindsNext
  <2> QED BY <2>1, <2>3 DEF FindsAfter
<1> QED BY <1>2, <1>3

\* A container of a lab that is up needs nothing done to it.
LEMMA UpNeedsNothing ==
    ASSUME IInv, Addressed, NEW p \in Procs, proc[p].pc \in NodePcs, FindsUp(p)
    PROVE  /\ Own(p) # {}
           /\ \A c \in Own(p) :
                 /\ ReconcilePc(SummaryOf(conts[c]), CurrentNode(p)) = "warn"
                 /\ proc[p].recreate => ~Drifted(c, CurrentNode(p).spec)
<1> SUFFICES ASSUME NEW l, l = proc[p].lab, NEW cfg, cfg = proc[p].cfg,
                    NEW i, i = proc[p].i, NEW node, node = CurrentNode(p)
             PROVE  /\ NodeContainers(l, node.name) # {}
                    /\ \A c \in NodeContainers(l, node.name) :
                          /\ ReconcilePc(SummaryOf(conts[c]), node) = "warn"
                          /\ proc[p].recreate => ~Drifted(c, node.spec)
  BY DEF Own
<1>1. l \in Labs /\ i \in 1..Len(cfg.nodes) /\ node = cfg.nodes[i]
  BY CommandIs
<1>2. NodeUp(l, node)
  BY <1>1 DEF FindsUp, AsWanted, LabUp
<1>3. PICK d \in NodeContainers(l, node.name) :
         /\ conts[d].state = "running" /\ conts[d].attached /\ conts[d].addr # None
         /\ node.ip # None => conts[d].addr = node.ip
  BY <1>2 DEF NodeUp
<1>4. NodeContainers(l, node.name) = {d} /\ AddressOK(conts[d])
  <2>1. NodeContainers(l, node.name) = {d}
    BY <1>1, <1>3, OnlyOne
  <2>2. d \in Cids
    BY <1>3 DEF NodeContainers
  <2> QED BY <2>1, <2>2 DEF Addressed
<1>5. ReconcilePc(SummaryOf(conts[d]), node) = "warn"
  <2>1. PICK s : s = SummaryOf(conts[d])
    OBVIOUS
  <2>2. /\ s.state = conts[d].state /\ s.attached = conts[d].attached
        /\ s.pin = conts[d].pin /\ s.addr = conts[d].addr
    BY <2>1 DEF SummaryOf
  <2>3. ReconcilePc(s, node) = "warn"
    BY <1>3, <1>4, <2>2 DEF ReconcilePc, AttachPc, AddressOK
  <2> QED BY <2>1, <2>3
<1>6. proc[p].recreate => ~Drifted(d, node.spec)
  <2>1. proc[p].recreate => DriftedNodes(l, cfg) = {}
    BY DEF FindsUp, AsWanted
  <2> QED BY <1>1, <1>3, <2>1 DEF DriftedNodes
<1> QED BY <1>4, <1>5, <1>6


LEMMA WarnFinds ==
    ASSUME IInv, NEW p \in Procs, UpKnows(p), FindsUp(p), WarnDrift(p)
    PROVE  FindsAfter(p)
<1> SUFFICES ASSUME NEW l, l = proc[p].lab, NEW cfg, cfg = proc[p].cfg,
                    NEW i, i = proc[p].i, NEW node, node = CurrentNode(p),
                    NEW c, c = proc[p].id,
                    NEW w, w = IF Drifted(c, node.spec) THEN proc[p].warned \cup {node.name}
                                                        ELSE proc[p].warned
             PROVE  FindsAfter(p)
  OBVIOUS
<1>1. /\ proc[p].pc = "warn" /\ UNCHANGED <<conts, nets>> /\ Visit(p, i + 1, w)
      /\ NodeContainers(l, node.name) = {c}
      /\ proc[p].warned = DriftedBefore(l, cfg, i)
  BY DEF WarnDrift, UpKnows, Own, FindsUp
<1>2. cfg \in AllConfigs /\ i \in 1..Len(cfg.nodes) /\ node = cfg.nodes[i]
  BY <1>1, CommandIs
<1>3. Len(cfg.nodes) \in Nat /\ i + 1 \in Nat
  BY <1>2, CfgIs
<1>4. \A k \in 1..Len(cfg.nodes) : k < i + 1 <=> k < i \/ k = i
  BY <1>2, <1>3
<1>5. (\E d \in NodeContainers(l, cfg.nodes[i].name) : Drifted(d, cfg.nodes[i].spec))
        <=> Drifted(c, node.spec)
  BY <1>1, <1>2
<1>6. DriftedBefore(l, cfg, i + 1) =
          DriftedBefore(l, cfg, i) \cup (IF Drifted(c, node.spec) THEN {node.name} ELSE {})
  BY <1>2, <1>4, <1>5 DEF DriftedBefore
<1>7. w = DriftedBefore(l, cfg, i + 1)
  BY <1>1, <1>6
<1> QED BY <1>1, <1>2, <1>3, <1>7, VisitFinds

LEMMA UpStepFinds ==
    ASSUME IInv, Addressed, NEW p \in Procs, proc[p].cfg \in AllConfigs,
           UpKnows(p), FindsUp(p), UpStep(p)
    PROVE  FindsAfter(p)
<1> SUFFICES ASSUME NEW l, l = proc[p].lab, NEW cfg \in AllConfigs, cfg = proc[p].cfg
             PROVE  FindsAfter(p)
  OBVIOUS
<1>1. CASE InspectNet(p)
  <2>1. UNCHANGED <<conts, nets>>
    BY <1>1 DEF InspectNet
  <2>2. NetNamed(l) # {}
    BY DEF FindsUp, AsWanted, LabUp
  <2>3. CASE Visit(p, 1, {})
    <3>1. {} = DriftedBefore(l, cfg, 1)
      BY CfgIs DEF DriftedBefore
    <3> QED BY <2>1, <2>3, <3>1, VisitFinds
  <2>4. CASE Exit(p, "error")
    BY <2>1, <2>4, IdleIs DEF IInv, FindsAfter
  <2> QED BY <1>1, <2>2, <2>3, <2>4 DEF InspectNet
<1>2. CASE FindNode(p)
  <2>1. proc[p].pc = "find" /\ UNCHANGED <<conts, nets>> /\ Own(p) # {}
    BY <1>2, UpNeedsNothing DEF FindNode
  <2>2. ASSUME NEW c \in Own(p), NEW pc, NEW s, s = SummaryOf(conts[c]),
               pc = IF proc[p].recreate THEN "drift" ELSE ReconcilePc(s, CurrentNode(p)),
               GoWith(p, pc, c, s)
        PROVE  FindsAfter(p)
    <3>1. pc \in {"drift", "warn"}
      BY <2>1, <2>2, UpNeedsNothing
    <3> QED BY <2>1, <2>2, <3>1, GoFinds
  <2> QED BY <1>2, <2>1, <2>2 DEF FindNode, Own
<1>3. CASE CheckDrift(p)
  <2> SUFFICES ASSUME NEW c, c = proc[p].id, NEW s, s = proc[p].seen
               PROVE  FindsAfter(p)
    OBVIOUS
  <2>1. proc[p].pc = "drift" /\ UNCHANGED <<conts, nets>> /\ c \in Own(p)
        /\ s = SummaryOf(conts[c]) /\ proc[p].recreate
    BY <1>3 DEF CheckDrift, UpKnows, IInv, Safe, Removing
  <2>2. ~Drifted(c, CurrentNode(p).spec) /\ ReconcilePc(s, CurrentNode(p)) = "warn"
    BY <2>1, UpNeedsNothing
  <2>3. GoWith(p, "warn", c, s)
    BY <1>3, <2>2 DEF CheckDrift, Goto
  <2> QED BY <2>1, <2>3, GoFinds
<1>4. CASE WarnDrift(p)
  BY <1>4, WarnFinds
<1> QED BY <1>1, <1>2, <1>3, <1>4
        DEF FindsUp, UpStep, CreateNet, RemoveDrifted, CreateNode, StartNode, RestartNode,
            DisconnectNode, ConnectNode


-----------------------------------------------------------------------------
(* What an undisturbed command knows. *)

Aware(p) ==
    /\ proc[p].pc # "idle" /\ proc[p].exit = "none"
    /\ IsUp(p) => proc[p].cfg \in AllConfigs
    /\ UpKnows(p) /\ DownKnows(p)
    /\ wasUp => FindsUp(p)

Knows == \A p \in Procs : clean = p => Aware(p)

LEMMA StartUpKnows ==
    ASSUME IInv, NEW p \in Procs, NEW l \in Labs, NEW r \in BOOLEAN, StartUp(p, l, r),
           wasUp' => AsWanted(l, yaml[l], r)
    PROVE  Aware(p)'
<1> SUFFICES ASSUME NEW cfg, cfg = yaml[l]
             PROVE  Aware(p)'
  OBVIOUS
<1>1. /\ proc'[p].pc = "inspectNet" /\ proc'[p].exit = "none" /\ proc'[p].lab = l
      /\ proc'[p].cfg = cfg /\ proc'[p].recreate = r
  <2> DEFINE k == [Idle EXCEPT !.pc = "inspectNet", !.lab = l, !.cfg = cfg, !.recreate = r]
  <2>1. proc' = [proc EXCEPT ![p] = k]
    BY DEF StartUp
  <2>2. /\ k.pc = "inspectNet" /\ k.exit = "none" /\ k.lab = l
        /\ k.cfg = cfg /\ k.recreate = r
    BY DEF Idle
  <2> HIDE DEF k
  <2> QED BY <2>1, <2>2 DEF IInv, TypeOK
<1>2. cfg \in AllConfigs /\ UNCHANGED <<conts, nets>>
  BY DEF IInv, TypeOK, StartUp
<1>3. UpKnows(p)' /\ DownKnows(p)'
  BY <1>1 DEF UpKnows, DownKnows
<1>4. wasUp' => FindsUp(p)'
  <2>1. wasUp' => AsWanted(l, cfg, r)'
    BY <1>2, DaemonStays
  <2> QED BY <1>1, <2>1, FindsNext
<1> QED BY <1>1, <1>2, <1>3, <1>4 DEF Aware

LEMMA StartDownKnows ==
    ASSUME IInv, NEW p \in Procs, NEW l, NEW k, StartDown(p, l, k), ~wasUp'
    PROVE  Aware(p)'
<1>1. proc'[p].pc = "list" /\ proc'[p].exit = "none"
  <2> DEFINE r == [Idle EXCEPT !.pc = "list", !.lab = l, !.keepNet = k]
  <2>1. proc' = [proc EXCEPT ![p] = r]
    BY DEF StartDown
  <2>2. r.pc = "list" /\ r.exit = "none"
    BY DEF Idle
  <2> HIDE DEF r
  <2> QED BY <2>1, <2>2 DEF IInv, TypeOK
<1> QED BY <1>1 DEF Aware, UpKnows, DownKnows, IsUp

LEMMA ContinueKnows ==
    ASSUME IInv, Addressed, Addressed', NEW p \in Procs, Aware(p), Continue(p),
           proc'[p].pc # "idle"
    PROVE  Aware(p)'
<1>1. CASE UpStep(p)
  <2>1. proc[p].cfg \in AllConfigs
    BY <1>1 DEF Aware, IsUp, UpStep, InspectNet, CreateNet, FindNode, CheckDrift,
       RemoveDrifted, CreateNode, StartNode, RestartNode, DisconnectNode, ConnectNode,
       WarnDrift
  <2>2. UpAfter(p)
    BY <1>1, <2>1, UpStepAfter DEF Aware
  <2>3. wasUp' => FindsUp(p)'
    BY <1>1, <2>1, UpStepFinds DEF Aware, Continue, FindsAfter
  <2>4. DownKnows(p)'
    BY <2>2 DEF UpAfter, DownKnows
  <2> QED BY <2>1, <2>2, <2>3, <2>4 DEF Aware, UpAfter, IsUp
<1>2. CASE DownStep(p)
  <2>1. DownAfter(p)
    BY <1>2, DownStepKnows DEF Aware
  <2>2. ~wasUp
    BY <1>2 DEF Aware, FindsUp, DownStep, ListContainers, RemoveContainer, ListNetworks,
       RemoveNetwork
  <2>3. UpKnows(p)'
    BY <2>1 DEF DownAfter, UpKnows
  <2> QED BY <2>1, <2>2, <2>3 DEF Aware, DownAfter, IsUp, Continue
<1> QED BY <1>1, <1>2 DEF Continue

LEMMA IdleKnows ==
    ASSUME Knows, UNCHANGED vars
    PROVE  Knows'
<1> SUFFICES ASSUME NEW p \in Procs, Aware(p)
             PROVE  Aware(p)'
  BY DEF Knows, vars
<1>1. DownKnows(p)'
  BY DEF Aware, DownKnows, LabContainers, LabNetworks, Exists, vars
<1>2. UpKnows(p)'
  <2> SUFFICES ASSUME NEW l, l = proc[p].lab, NEW cfg, cfg = proc[p].cfg,
                      NEW r, r = proc[p].recreate, NEW i, i = proc[p].i
               PROVE  UpKnows(p)'
    OBVIOUS
  <2>1. UpKnows(p) /\ UNCHANGED <<conts, nets, proc>>
    BY DEF Aware, vars
  <2>2. ASSUME Settled(l, cfg, r, i)
        PROVE  Settled(proc[p].lab, proc[p].cfg, proc[p].recreate, proc[p].i)'
    <3>1. Settled(l, cfg, r, i)'
      BY <2>1, <2>2 DEF Settled, NodeWanted, NodeUp, NetNamed, Usable, NodeContainers,
         Drifted, Exists
    <3> QED BY <2>1, <3>1 DEF Settled, NodeWanted, NodeUp, NetNamed, Usable, NodeContainers,
               Drifted, Exists
  <2>3. proc'[p].pc \in NodePcs =>
           Settled(proc[p].lab, proc[p].cfg, proc[p].recreate, proc[p].i)'
    BY <2>1, <2>2 DEF UpKnows
  <2>4. Own(p)' = Own(p)
    BY <2>1 DEF Own, NodeContainers, CurrentNode, Exists
  <2>5. CurrentNode(p)' = CurrentNode(p)
    BY <2>1 DEF CurrentNode
  <2>6. Drifted(proc[p].id, CurrentNode(p).spec)' <=> Drifted(proc[p].id, CurrentNode(p).spec)
    BY <2>1, <2>5 DEF Drifted, Exists
  <2>7. /\ Fresh(proc[p].id, CurrentNode(p))' <=> Fresh(proc[p].id, CurrentNode(p))
        /\ Works(proc[p].id, CurrentNode(p).ip)' <=> Works(proc[p].id, CurrentNode(p).ip)
    BY <2>1, <2>5 DEF Fresh, Works
  <2> QED BY <2>1, <2>3, <2>4, <2>6, <2>7 DEF UpKnows
<1>3. wasUp' => FindsUp(p)'
  <2> SUFFICES ASSUME NEW l, l = proc[p].lab, NEW cfg, cfg = proc[p].cfg,
                      NEW r, r = proc[p].recreate, NEW i, i = proc[p].i, FindsUp(p)
               PROVE  FindsUp(p)'
    BY DEF Aware, vars
  <2>1. AsWanted(l, cfg, r)' /\ DriftedBefore(l, cfg, i)' = DriftedBefore(l, cfg, i)
    BY DaemonStays DEF FindsUp, vars
  <2> QED BY <2>1, FindsNext DEF FindsUp, vars
<1> QED BY <1>1, <1>2, <1>3 DEF Aware, IsUp, vars

LEMMA KnowsStep == IInv /\ Addressed /\ Knows /\ [Next]_vars => Knows'
<1> SUFFICES ASSUME IInv, Addressed, Knows, [Next]_vars PROVE Knows'
  OBVIOUS
<1>1. Addressed' /\ None \notin Procs
  BY AddressedStep, LabAssumption
<1>2. ASSUME clean' = None
      PROVE  Knows'
  BY <1>1, <1>2 DEF Knows
<1>3. ASSUME NEW p \in Procs, Begin(p)
      PROVE  Knows'
  <2>1. CASE clean' = p
    <3>1. Aware(p)'
      BY <1>3, StartUpKnows, StartDownKnows DEF Begin
    <3> QED BY <2>1, <3>1 DEF Knows
  <2> QED BY <1>2, <1>3, <2>1 DEF Begin
<1>4. ASSUME NEW p \in Procs, Continue(p)
      PROVE  Knows'
  <2>1. CASE clean = p /\ proc'[p].pc # "idle"
    <3>1. Aware(p)'
      BY <1>1, <1>4, <2>1, ContinueKnows DEF Knows
    <3> QED BY <1>4, <2>1, <3>1 DEF Knows, Continue
  <2> QED BY <1>2, <1>4, <2>1 DEF Continue
<1> QED BY <1>2, <1>3, <1>4, IdleKnows DEF Next, Fault, Environment, Disturbed

LEMMA InitKnows == Init => Knows
BY LabAssumption DEF Init, Knows

LEMMA Awareness == Spec => [](IInv /\ Addressed /\ Knows)
<1>1. Init => IInv /\ Addressed /\ Knows
  BY InitInv, InitAddressed, InitKnows
<1>2. IInv /\ Addressed /\ Knows /\ [Next]_vars => (IInv /\ Addressed /\ Knows)'
  BY NextInv, AddressedStep, KnowsStep
<1> QED BY <1>1, <1>2, PTL DEF Spec

\* An undisturbed command that moves, or ends, does so by a step of its own.
LEMMA OwnStep ==
    ASSUME IInv, Knows, [Next]_vars, NEW p \in Procs, clean = p, Moves(p)
    PROVE  Continue(p) \/ Fault(p)
<1>1. PICK q \in Procs : (Begin(q) \/ Continue(q) \/ Fault(q)) /\ UNCHANGED yaml
  BY DEF Next, Environment, vars, Moves
<1>2. Acts(q)
  BY <1>1 DEF Acts, Begin, Continue, Fault
<1>3. p = q
  BY <1>2, ActsGood DEF Good, Steps, Moves
<1>4. proc[p].pc # "idle"
  BY DEF Knows, Aware
<1> QED BY <1>1, <1>3, <1>4 DEF Begin, StartUp, StartDown

\* The one failed call after which an up may still succeed is the inspection of the
\* last node's container.
LEMMA SuccessIs ==
    ASSUME IInv, Knows, [Next]_vars, NEW p \in Procs, Succeeds(p)
    PROVE  /\ Aware(p)
           /\ \/ Continue(p)
              \/ /\ proc[p].pc = "warn" /\ NextNode(p)
                 /\ UNCHANGED <<conts, nets>> /\ ~wasUp'
<1>1. Aware(p) /\ Moves(p) /\ clean = p
  BY DEF Succeeds, Knows, Aware, Moves
<1>2. Continue(p) \/ Fault(p)
  BY <1>1, OwnStep
<1>3. ~Abort(p)
  BY IdleIs DEF Abort, Succeeds, IInv
<1>4. \A pc : ~Goto(p, pc)
  BY <1>1, GoIs DEF Goto, Succeeds, Aware, IInv
<1> QED BY <1>1, <1>2, <1>3, <1>4 DEF Fault, InspectFails, DisconnectFails, Disturbed


\* An undisturbed up that succeeds leaves the lab as its configuration wants it.
THEOREM UpDelivered == Spec => UpDelivers
<1>1. IInv /\ Addressed /\ Knows /\ [Next]_vars =>
        [\A p \in Procs, l \in Labs : \A cfg \in Configs[l], r \in BOOLEAN :
            /\ Succeeds(p) /\ IsUp(p)
            /\ proc[p].lab = l /\ proc[p].cfg = cfg /\ proc[p].recreate = r
            => AsWanted(l, cfg, r)']_vars
  <2> SUFFICES ASSUME IInv, Addressed, Knows, [Next]_vars, NEW p \in Procs,
                      NEW l \in Labs, NEW cfg \in Configs[l], NEW r \in BOOLEAN,
                      Succeeds(p), IsUp(p),
                      proc[p].lab = l, proc[p].cfg = cfg, proc[p].recreate = r
               PROVE  AsWanted(l, cfg, r)'
    OBVIOUS
  <2>1. Aware(p) /\ Addressed' /\ cfg \in AllConfigs
    BY SuccessIs, AddressedStep DEF AllConfigs
  <2>2. ~DownStep(p)
    BY DEF IsUp, DownStep, ListContainers, RemoveContainer, ListNetworks, RemoveNetwork
  <2>3. UpAfter(p)
    BY <2>1, <2>2, SuccessIs, UpStepAfter, CheckedAfter DEF Continue, Aware, NextNode
  <2> QED BY <2>1, <2>3 DEF UpAfter, Succeeds, Aware
<1> QED BY <1>1, Awareness, PTL DEF Spec, UpDelivers

\* An undisturbed down that succeeds leaves nothing of its lab.
THEOREM DownDelivered == Spec => DownDelivers
<1>1. IInv /\ Addressed /\ Knows /\ [Next]_vars =>
        [\A p \in Procs, l \in Labs \cup {None} :
            /\ Succeeds(p) /\ IsDown(p)
            /\ proc[p].lab = l
            => /\ LabContainers(l)' = {}
               /\ ~proc[p].keepNet => LabNetworks(l)' = {}]_vars
  <2> SUFFICES ASSUME IInv, Knows, [Next]_vars, NEW p \in Procs,
                      NEW l \in Labs \cup {None}, Succeeds(p), IsDown(p), proc[p].lab = l
               PROVE  /\ LabContainers(l)' = {}
                      /\ ~proc[p].keepNet => LabNetworks(l)' = {}
    OBVIOUS
  <2>1. Aware(p)
    BY SuccessIs
  <2>2. ~UpStep(p)
    BY DEF IsDown, UpStep, InspectNet, CreateNet, FindNode, CheckDrift, RemoveDrifted,
       CreateNode, StartNode, RestartNode, DisconnectNode, ConnectNode, WarnDrift
  <2>3. DownStep(p)
    BY <2>2, SuccessIs DEF Continue, IsDown
  <2>4. DownAfter(p)
    BY <2>1, <2>3, DownStepKnows DEF Aware
  <2> QED BY <2>1, <2>4 DEF DownAfter, Succeeds, Aware
<1> QED BY <1>1, Awareness, PTL DEF Spec, DownDelivers

\* An undisturbed up that finds the lab up calls nothing that changes the daemon.
THEOREM Idempotence == Spec => Idempotent
<1>1. IInv /\ Addressed /\ Knows /\ [Next]_vars =>
        [\A p \in Procs :
            (IsUp(p) /\ Moves(p) /\ clean = p /\ wasUp) => UNCHANGED daemonVars]_vars
  <2> SUFFICES ASSUME IInv, Addressed, Knows, [Next]_vars, NEW p \in Procs,
                      IsUp(p), Moves(p), clean = p, wasUp
               PROVE  UNCHANGED daemonVars
    OBVIOUS
  <2>1. Aware(p) /\ FindsUp(p) /\ (Continue(p) \/ Fault(p))
    BY OwnStep DEF Knows, Aware
  <2>2. ~DownStep(p)
    BY DEF IsUp, DownStep, ListContainers, RemoveContainer, ListNetworks, RemoveNetwork
  <2>3. UpStep(p) => FindsAfter(p)
    BY <2>1, UpStepFinds DEF Aware
  <2> QED BY <2>1, <2>2, <2>3
          DEF Continue, Fault, Abort, InspectFails, DisconnectFails, FindsAfter, daemonVars
<1> QED BY <1>1, Awareness, PTL DEF Spec, Idempotent

\* Such an up has told of every drifted node when it succeeds.
THEOREM DriftTold == Spec => DriftReported
<1>1. IInv /\ Addressed /\ Knows /\ [Next]_vars =>
        [\A p \in Procs, l \in Labs : \A cfg \in Configs[l] :
            /\ Succeeds(p) /\ IsUp(p) /\ wasUp'
            /\ proc[p].lab = l /\ proc[p].cfg = cfg
            => DriftedNodes(l, cfg)' = proc'[p].warned]_vars
  <2> SUFFICES ASSUME IInv, Addressed, Knows, [Next]_vars, NEW p \in Procs,
                      NEW l \in Labs, NEW cfg \in Configs[l], Succeeds(p), IsUp(p), wasUp',
                      proc[p].lab = l, proc[p].cfg = cfg
               PROVE  DriftedNodes(l, cfg)' = proc'[p].warned
    OBVIOUS
  <2>1. Aware(p) /\ Continue(p) /\ wasUp /\ cfg \in AllConfigs
    BY SuccessIs DEF Continue, AllConfigs
  <2>2. ~DownStep(p)
    BY DEF IsUp, DownStep, ListContainers, RemoveContainer, ListNetworks, RemoveNetwork
  <2>3. FindsAfter(p)
    BY <2>1, <2>2, UpStepFinds DEF Aware, Continue
  <2>4. proc'[p].pc = "idle"
    BY <2>1, <2>2, UpStepAfter, AddressedStep DEF Succeeds, Continue, Aware, UpAfter
  <2> QED BY <2>1, <2>3, <2>4 DEF FindsAfter, Succeeds
<1> QED BY <1>1, Awareness, PTL DEF Spec, DriftReported
=============================================================================
