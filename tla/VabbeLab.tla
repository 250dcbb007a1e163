------------------------------ MODULE VabbeLab ------------------------------
(***************************************************************************)
(* vabbe up, vabbe up --recreate, vabbe down and vabbe down --all, run by  *)
(* any number of terminals against one Docker daemon.                      *)
(*                                                                         *)
(* A command is one OS process.  Between two Engine API calls anything can *)
(* happen: another command's call, a node that stops, an edit of           *)
(* vabbe.yaml, Ctrl-C.  So each action is one API call together with the   *)
(* decisions the command takes on its answer, and the answers a command    *)
(* keeps (the container summary of findContainer, the lists of down) are   *)
(* part of its state and grow stale there as they do in the code.          *)
(***************************************************************************)
EXTENDS DockerDaemon, Sequences

CONSTANTS
    Procs,         \* terminals
    Configs,       \* the contents vabbe.yaml may have, per lab
    ForeignNets,   \* lab names other tools may use for a network of theirs
    ForeignNames   \* container names other tools may use

NodeCfg == [name : Nodes, ip : Addresses \cup {None}, spec : NodeSpec]
LabCfg  == [subnet : Subnets \cup {None}, nodes : Seq(NodeCfg)]

\* What Load and validate accept: some nodes, distinct names, and pinned addresses that are
\* distinct and lie in the subnet, which must then be given.
ValidCfg(cfg) ==
    /\ cfg.nodes # <<>>
    /\ \A i, j \in 1..Len(cfg.nodes) :
           LET n == cfg.nodes[i] m == cfg.nodes[j] IN
           /\ n.name = m.name => i = j
           /\ n.ip # None => /\ cfg.subnet # None
                             /\ n.ip \in Addrs[cfg.subnet]
                             /\ n.ip = m.ip => i = j

ASSUME LabAssumption ==
    /\ None \notin Procs
    /\ ForeignNets \subseteq Labs
    /\ ForeignNames \subseteq Names
    /\ \A l \in Labs : \A cfg \in Configs[l] : cfg \in LabCfg /\ ValidCfg(cfg)

VARIABLES
    yaml,    \* vabbe.yaml of each lab
    proc,    \* the command each terminal runs
    clean,   \* history: the command that has run alone and without a failed
             \* call since it started, or None
    wasUp    \* history: that command, or the last one when it was the last to do
             \* anything, is an up and found nothing to do

vars == <<conts, nets, yaml, proc, clean, wasUp>>

-----------------------------------------------------------------------------
(* Commands. *)

NodePcs == {"find", "drift", "remove", "create", "start", "restart",
            "disconnect", "connect", "warn"}
ContainerPcs == NodePcs \ {"find", "create"}
UpPcs == {"inspectNet", "createNet"} \cup NodePcs
DownPcs == {"list", "rmConts", "rmNets"}

AllConfigs == UNION {Configs[l] : l \in Labs}
NoConfig == [subnet |-> None, nodes |-> <<>>]

\* The part of a container summary reconcile reads.
Summary ==
    [state    : {"absent", "created", "running", "exited"},
     attached : BOOLEAN,
     pin      : Addresses \cup {None},
     addr     : Addresses \cup {None}]

SummaryOf(c) == [state |-> c.state, attached |-> c.attached,
                 pin |-> c.pin, addr |-> c.addr]

NoSummary == SummaryOf(NoContainer)

Command ==
    [pc       : {"idle"} \cup UpPcs \cup DownPcs,
     lab      : Labs \cup {None},       \* None: down --all
     cfg      : AllConfigs \cup {NoConfig},
     i        : Nat,                    \* index of the node up works on
     recreate : BOOLEAN,                \* --recreate
     keepNet  : BOOLEAN,                \* --keep-net
     id       : Cids \cup {None},       \* its container
     seen     : Summary,                \* what findContainer returned
     todo     : SUBSET (Cids \cup Nids),\* what down still has to remove
     warned   : SUBSET Nodes,           \* nodes up reported as drifted
     exit     : {"none", "ok", "error"}]

Idle ==
    [pc |-> "idle", lab |-> None, cfg |-> NoConfig, i |-> 1, recreate |-> FALSE,
     keepNet |-> FALSE, id |-> None, seen |-> NoSummary, todo |-> {},
     warned |-> {}, exit |-> "none"]

AllIdle == \A p \in Procs : proc[p].pc = "idle"

CurrentNode(p) == proc[p].cfg.nodes[proc[p].i]

\* Go on with container c and its summary s, which is read until reconcile has
\* restarted the container and not after.
GoWith(p, pc, c, s) ==
    proc' = [proc EXCEPT ![p].pc = pc, ![p].id = c,
                ![p].seen = IF pc \in {"drift", "restart"} THEN s ELSE NoSummary]

Goto(p, pc) == GoWith(p, pc, proc[p].id, proc[p].seen)

Exit(p, code) ==
    proc' = [proc EXCEPT ![p] = [Idle EXCEPT !.exit = code]]

\* Mutant of Visit: the loop runs once too often.
VisitOneMore(p, i, warned) ==
    proc' = [proc EXCEPT ![p] =
        IF i > Len(proc[p].cfg.nodes) + 1
          THEN [Idle EXCEPT !.exit = "ok", !.warned = warned]
          ELSE [proc[p] EXCEPT !.pc = "find", !.i = i, !.id = None,
                               !.seen = NoSummary, !.warned = warned]]

\* Go on with node i of the lab, or exit successfully after the last one.
Visit(p, i, warned) ==
    proc' = [proc EXCEPT ![p] =
        IF i > Len(proc[p].cfg.nodes)
          THEN [Idle EXCEPT !.exit = "ok", !.warned = warned]
          ELSE [proc[p] EXCEPT !.pc = "find", !.i = i, !.id = None,
                               !.seen = NoSummary, !.warned = warned]]

NextNode(p) == Visit(p, proc[p].i + 1, proc[p].warned)

\* Settings the lab asks for that container c lacks.  A setting it has and the
\* lab does not ask for is no drift.
Drifted(c, spec) ==
    /\ Exists(c)
    /\ conts[c].spec # None
    /\ \/ conts[c].spec.image # spec.image
       \/ ~(spec.opts \subseteq conts[c].spec.opts)

\* An id is never used twice: a new one is not known to any command, and no endpoint
\* holds it.
NewCids == {c \in Cids : /\ ~Exists(c)
                         /\ \A p \in Procs : c # proc[p].id /\ c \notin proc[p].todo}
NewNids == {n \in Nids : /\ nets[n].name = None
                         /\ \A p \in Procs : n \notin proc[p].todo
                         /\ \A c \in Cids : conts[c].netId # n}

-----------------------------------------------------------------------------
(* vabbe up: EnsureNetwork. *)

StartUp(p, l, recreate) ==
    /\ proc[p].pc = "idle"
    /\ proc' = [proc EXCEPT ![p] = [Idle EXCEPT
                   !.pc = "inspectNet", !.lab = l, !.cfg = yaml[l],
                   !.recreate = recreate]]
    /\ UNCHANGED <<conts, nets>>

\* A network of that name is used only when it carries the lab's label and, if
\* the lab pins a subnet, has that subnet.
Usable(n, l, cfg) ==
    /\ nets[n].owner = l
    /\ cfg.subnet # None => nets[n].subnet = cfg.subnet

InspectNet(p) ==
    LET l == proc[p].lab cfg == proc[p].cfg IN
    /\ proc[p].pc = "inspectNet"
    /\ \/ NetNamed(l) = {} /\ Goto(p, "createNet")
       \/ \E n \in NetNamed(l) :
             IF Usable(n, l, cfg) THEN Visit(p, 1, {}) ELSE Exit(p, "error")
    /\ UNCHANGED <<conts, nets>>

CreateNet(p) ==
    LET l == proc[p].lab cfg == proc[p].cfg
        free == {s \in Subnets : /\ CanCreateNet(l, s)
                                 /\ cfg.subnet # None => s = cfg.subnet}
    IN
    /\ proc[p].pc = "createNet"
    /\ \/ /\ \E n \in NewNids, s \in free : nets' = NetworkCreate(n, l, s)
          /\ Visit(p, 1, {})
       \/ /\ free = {}
          /\ Exit(p, "error")
          /\ UNCHANGED nets
    /\ UNCHANGED conts

-----------------------------------------------------------------------------
(* vabbe up: EnsureNode. *)

\* Mutants of AttachPc: a container without endpoint is taken for an attached
\* one; an address that is not pinned is not looked at.
AttachPcUnseen(s, node) ==
    LET cur == IF s.pin # None THEN s.pin ELSE s.addr IN
    IF s.attached /\ node.ip # None /\ cur # node.ip THEN "disconnect" ELSE "warn"
AttachPcPinOnly(s, node) ==
    IF ~s.attached THEN "connect"
    ELSE IF node.ip # None /\ s.pin # node.ip THEN "disconnect"
    ELSE "warn"

\* Where reconcile goes once the container runs, by the summary taken before.
AttachPc(s, node) ==
    LET cur == IF s.pin # None THEN s.pin ELSE s.addr IN
    IF ~s.attached THEN "connect"
    ELSE IF node.ip # None /\ cur # node.ip THEN "disconnect"
    ELSE "warn"

\* Mutant of ReconcilePc: a stopped container is left stopped.
ReconcilePcNoStart(s, node) == AttachPc(s, node)

ReconcilePc(s, node) ==
    IF s.state # "running" THEN "restart" ELSE AttachPc(s, node)

FindNode(p) ==
    LET node == CurrentNode(p)
        found == NodeContainers(proc[p].lab, node.name)
    IN
    /\ proc[p].pc = "find"
    /\ \/ found = {} /\ Goto(p, "create")
       \/ \E c \in found :
             LET s == SummaryOf(conts[c]) IN
             GoWith(p, IF proc[p].recreate THEN "drift" ELSE ReconcilePc(s, node), c, s)
    /\ UNCHANGED <<conts, nets>>

\* up --recreate inspects the container it found.
CheckDrift(p) ==
    /\ proc[p].pc = "drift"
    /\ Goto(p, IF Drifted(proc[p].id, CurrentNode(p).spec) THEN "remove"
               ELSE ReconcilePc(proc[p].seen, CurrentNode(p)))
    /\ UNCHANGED <<conts, nets>>

\* Mutant of RemoveDrifted: removal by name takes whatever has the name by now.
RemoveDriftedByName(p) ==
    LET found == NodeContainers(proc[p].lab, CurrentNode(p).name) IN
    /\ proc[p].pc = "remove"
    /\ \/ \E c \in found :
             conts' = ContainerRemove(c) /\ GoWith(p, "create", None, NoSummary)
       \/ found = {} /\ Exit(p, "error") /\ UNCHANGED conts
    /\ UNCHANGED nets

RemoveDrifted(p) ==
    /\ proc[p].pc = "remove"
    /\ IF Exists(proc[p].id)
         THEN conts' = ContainerRemove(proc[p].id) /\ GoWith(p, "create", None, NoSummary)
         ELSE Exit(p, "error") /\ UNCHANGED conts
    /\ UNCHANGED nets

\* Mutant of CreateNode: the daemon invents the container's name.
CreateNodeUnnamed(p) ==
    LET node == CurrentNode(p) l == proc[p].lab IN
    /\ proc[p].pc = "create"
    /\ \E c \in NewCids :
          /\ conts' = [ContainerCreate(c, l, node.name, node.ip, node.spec)
                         EXCEPT ![c].name = None]
          /\ GoWith(p, "start", c, NoSummary)
    /\ UNCHANGED nets

CreateNode(p) ==
    LET node == CurrentNode(p) l == proc[p].lab IN
    /\ proc[p].pc = "create"
    /\ IF NameFree(NameOf[<<l, node.name>>])
         THEN \E c \in NewCids :
                 /\ conts' = ContainerCreate(c, l, node.name, node.ip, node.spec)
                 /\ GoWith(p, "start", c, NoSummary)
         ELSE Exit(p, "error") /\ UNCHANGED conts
    /\ UNCHANGED nets

\* Mutant of StartNode: its error is dropped.
StartNodeLenient(p) ==
    /\ proc[p].pc = "start"
    /\ NextNode(p)
    /\ \/ CanStart(proc[p].id) /\ ContainerStart(proc[p].id)
       \/ ~CanStart(proc[p].id) /\ UNCHANGED conts
    /\ UNCHANGED nets

\* The last call of createNode.
StartNode(p) ==
    /\ proc[p].pc = "start"
    /\ \/ CanStart(proc[p].id) /\ ContainerStart(proc[p].id) /\ NextNode(p)
       \/ ~CanStart(proc[p].id) /\ Exit(p, "error") /\ UNCHANGED conts
    /\ UNCHANGED nets

\* The first call of reconcile on a container seen stopped.
RestartNode(p) ==
    /\ proc[p].pc = "restart"
    /\ \/ /\ CanStart(proc[p].id)
          /\ ContainerStart(proc[p].id)
          /\ Goto(p, AttachPc(proc[p].seen, CurrentNode(p)))
       \/ ~CanStart(proc[p].id) /\ Exit(p, "error") /\ UNCHANGED conts
    /\ UNCHANGED nets

\* The error of NetworkDisconnect is dropped.
DisconnectNode(p) ==
    /\ proc[p].pc = "disconnect"
    /\ conts' = IF Attached(proc[p].id) THEN NetworkDisconnect(proc[p].id)
                ELSE conts
    /\ Goto(p, "connect")
    /\ UNCHANGED nets

\* reconcile returns after this call: no drift is looked for.
ConnectNode(p) ==
    LET c == proc[p].id l == proc[p].lab ip == CurrentNode(p).ip IN
    /\ proc[p].pc = "connect"
    /\ \/ CanConnect(c, l, ip) /\ NetworkConnect(c, l, ip) /\ NextNode(p)
       \/ ~CanConnect(c, l, ip) /\ Exit(p, "error") /\ UNCHANGED conts
    /\ UNCHANGED nets

\* Mutant of WarnDrift: a node without drift clears the warnings before it.
WarnDriftLast(p) ==
    /\ proc[p].pc = "warn"
    /\ Visit(p, proc[p].i + 1,
             IF Drifted(proc[p].id, CurrentNode(p).spec) THEN {CurrentNode(p).name} ELSE {})
    /\ UNCHANGED <<conts, nets>>

WarnDrift(p) ==
    /\ proc[p].pc = "warn"
    /\ Visit(p, proc[p].i + 1,
             IF Drifted(proc[p].id, CurrentNode(p).spec)
               THEN proc[p].warned \cup {CurrentNode(p).name}
               ELSE proc[p].warned)
    /\ UNCHANGED <<conts, nets>>

-----------------------------------------------------------------------------
(* vabbe down and vabbe down --all. *)

StartDown(p, l, keepNet) ==
    /\ proc[p].pc = "idle"
    /\ proc' = [proc EXCEPT ![p] = [Idle EXCEPT
                   !.pc = "list", !.lab = l, !.keepNet = keepNet]]
    /\ UNCHANGED <<conts, nets>>

\* Mutant of ListContainers: a list without All, of running containers only.
ListContainersRunning(p) ==
    /\ proc[p].pc = "list"
    /\ proc' = [proc EXCEPT ![p].pc = "rmConts",
                   ![p].todo = {c \in LabContainers(proc[p].lab) : conts[c].state = "running"}]
    /\ UNCHANGED <<conts, nets>>

ListContainers(p) ==
    /\ proc[p].pc = "list"
    /\ proc' = [proc EXCEPT ![p].pc = "rmConts",
                            ![p].todo = LabContainers(proc[p].lab)]
    /\ UNCHANGED <<conts, nets>>

\* The code goes by name; the order decides only where a failure stops it.
RemoveContainer(p) ==
    /\ proc[p].pc = "rmConts"
    /\ \E c \in proc[p].todo :
          IF Exists(c)
            THEN /\ conts' = ContainerRemove(c)
                 /\ proc' = [proc EXCEPT ![p].todo = @ \ {c}]
            ELSE Exit(p, "error") /\ UNCHANGED conts
    /\ UNCHANGED nets

\* Mutant of ListNetworks: --keep-net is always on.
ListNetworksKept(p) ==
    /\ proc[p].pc = "rmConts"
    /\ proc[p].todo = {}
    /\ Exit(p, "ok")
    /\ UNCHANGED <<conts, nets>>

ListNetworks(p) ==
    /\ proc[p].pc = "rmConts"
    /\ proc[p].todo = {}
    /\ IF proc[p].keepNet
         THEN Exit(p, "ok")
         ELSE proc' = [proc EXCEPT ![p].pc = "rmNets",
                                   ![p].todo = LabNetworks(proc[p].lab)]
    /\ UNCHANGED <<conts, nets>>

RemoveNetwork(p) ==
    /\ proc[p].pc = "rmNets"
    /\ \/ /\ proc[p].todo = {}
          /\ Exit(p, "ok")
          /\ UNCHANGED nets
       \/ \E n \in proc[p].todo :
             IF CanRemoveNet(n)
               THEN /\ nets' = NetworkRemove(n)
                    /\ proc' = [proc EXCEPT ![p].todo = @ \ {n}]
               ELSE Exit(p, "error") /\ UNCHANGED nets
    /\ UNCHANGED conts

-----------------------------------------------------------------------------
(* Failures of the calls themselves, and what others do meanwhile. *)

\* Ctrl-C, a kill, or an API call whose error the command returns.
Abort(p) ==
    /\ proc[p].pc # "idle"
    /\ Exit(p, "error")
    /\ UNCHANGED <<conts, nets>>

\* drift drops the error of ContainerInspect and reports nothing.
InspectFails(p) ==
    /\ \/ proc[p].pc = "drift" /\ Goto(p, ReconcilePc(proc[p].seen, CurrentNode(p)))
       \/ proc[p].pc = "warn" /\ NextNode(p)
    /\ UNCHANGED <<conts, nets>>

\* reconcile drops the error of NetworkDisconnect.
DisconnectFails(p) ==
    /\ proc[p].pc = "disconnect"
    /\ Goto(p, "connect")
    /\ UNCHANGED <<conts, nets>>

EditYaml(l) ==
    /\ yaml' \in {[yaml EXCEPT ![l] = cfg] : cfg \in Configs[l]}
    /\ yaml' # yaml
    /\ UNCHANGED <<conts, nets>>

\* docker stop, or a node that powers off.
NodeStops(c) ==
    /\ conts[c].state = "running"
    /\ conts' = [conts EXCEPT ![c].state = "exited", ![c].addr = None]
    /\ UNCHANGED <<nets, yaml>>

\* docker start, or the restart policy.
NodeStarts(c) ==
    /\ conts[c].state = "exited"
    /\ CanStart(c)
    /\ ContainerStart(c)
    /\ UNCHANGED <<nets, yaml>>

\* Another tool creates a container or a network of its own.
ForeignContainer(name) ==
    /\ NameFree(name)
    /\ \E c \in NewCids :
          conts' = [conts EXCEPT ![c] =
                       [NoContainer EXCEPT !.state = "running", !.name = name]]
    /\ UNCHANGED <<nets, yaml>>

ForeignNetwork(l) ==
    /\ NetNamed(l) = {}
    /\ \E n \in NewNids : nets' = [nets EXCEPT ![n] = [NoNetwork EXCEPT !.name = l]]
    /\ UNCHANGED <<conts, yaml>>

-----------------------------------------------------------------------------
(* What the commands promise; also what the history variable wasUp records.  *)

\* What a lab that is up looks like: its network is there, and each node of the
\* configuration runs, attached, at its address when it has one.
NodeUp(l, node) ==
    \E c \in NodeContainers(l, node.name) :
        /\ conts[c].state = "running"
        /\ conts[c].attached
        /\ conts[c].addr # None
        /\ node.ip # None => conts[c].addr = node.ip

LabUp(l, cfg) ==
    /\ \E n \in NetNamed(l) : Usable(n, l, cfg)
    /\ \A i \in 1..Len(cfg.nodes) : NodeUp(l, cfg.nodes[i])

DriftedNodes(l, cfg) ==
    {cfg.nodes[i].name : i \in {j \in 1..Len(cfg.nodes) :
        \E c \in NodeContainers(l, cfg.nodes[j].name) :
            Drifted(c, cfg.nodes[j].spec)}}

LabDown(l) == LabContainers(l) = {} /\ LabNetworks(l) = {}

-----------------------------------------------------------------------------
UpStep(p) ==
    \/ InspectNet(p) \/ CreateNet(p) \/ FindNode(p) \/ CheckDrift(p)
    \/ RemoveDrifted(p) \/ CreateNode(p) \/ StartNode(p) \/ RestartNode(p)
    \/ DisconnectNode(p) \/ ConnectNode(p) \/ WarnDrift(p)

DownStep(p) ==
    \/ ListContainers(p) \/ RemoveContainer(p) \/ ListNetworks(p)
    \/ RemoveNetwork(p)

AsWanted(l, cfg, recreate) ==
    LabUp(l, cfg) /\ (recreate => DriftedNodes(l, cfg) = {})

Begin(p) ==
    /\ \/ \E l \in Labs, r \in BOOLEAN :
             /\ StartUp(p, l, r)
             /\ wasUp' = (AllIdle /\ AsWanted(l, yaml[l], r))
       \/ \E l \in Labs \cup {None}, k \in BOOLEAN :
             StartDown(p, l, k) /\ wasUp' = FALSE
    /\ clean' = IF AllIdle THEN p ELSE None

Continue(p) ==
    /\ UpStep(p) \/ DownStep(p)
    /\ clean' = IF clean = p /\ proc'[p].pc # "idle" THEN p ELSE None
    /\ wasUp' = (wasUp /\ clean = p)

Disturbed == clean' = None /\ wasUp' = FALSE

Fault(p) == (Abort(p) \/ InspectFails(p) \/ DisconnectFails(p)) /\ Disturbed

Environment ==
    /\ \/ \E l \in Labs : EditYaml(l)
       \/ \E c \in Cids : NodeStops(c) \/ NodeStarts(c)
       \/ \E name \in ForeignNames : ForeignContainer(name)
       \/ \E l \in ForeignNets : ForeignNetwork(l)
    /\ Disturbed
    /\ UNCHANGED proc

Init ==
    /\ conts = [c \in Cids |-> NoContainer]
    /\ nets = [n \in Nids |-> NoNetwork]
    /\ yaml \in {y \in [Labs -> AllConfigs] :
                    \A l \in Labs : y[l] \in Configs[l]}
    /\ proc = [p \in Procs |-> Idle]
    /\ clean = None
    /\ wasUp = FALSE

Next ==
    \/ \E p \in Procs : (Begin(p) \/ Continue(p) \/ Fault(p)) /\ UNCHANGED yaml
    \/ Environment

Spec == Init /\ [][Next]_vars

-----------------------------------------------------------------------------
(* Properties. *)

\* What a command at hand keeps track of.
CommandOK(r) ==
    /\ r.pc \in UpPcs => r.lab \in Labs
    /\ r.pc \in NodePcs => r.i \in 1..Len(r.cfg.nodes)
    /\ r.pc \in ContainerPcs => r.id \in Cids
    /\ r.pc = "rmConts" => r.todo \subseteq Cids
    /\ r.pc = "rmNets" => r.todo \subseteq Nids

TypeOK ==
    /\ DaemonTypeOK
    /\ yaml \in [Labs -> AllConfigs]
    /\ \A l \in Labs : yaml[l] \in Configs[l]
    /\ proc \in [Procs -> Command]
    /\ \A p \in Procs : CommandOK(proc[p])
    /\ clean \in Procs \cup {None}
    /\ wasUp \in BOOLEAN

\* However many commands run, a node of a lab never has two containers, although
\* up only looks before it creates (findContainer, then ContainerCreate): the
\* container name, made of the lab and the node, is what keeps it so.
OneContainerPerNode ==
    \A c, d \in Cids :
        /\ Exists(c) /\ Exists(d)
        /\ conts[c].owner # None
        /\ conts[c].owner = conts[d].owner
        /\ conts[c].node = conts[d].node
        => c = d

Moves(p) == proc'[p] # proc[p]
IsUp(p) == proc[p].pc \in UpPcs
IsDown(p) == proc[p].pc \in DownPcs

\* Command p exits with success, undisturbed since it started.
Succeeds(p) == clean = p /\ proc[p].pc # "idle" /\ proc'[p].exit = "ok"

\* An up that ran undisturbed and exits with success leaves the lab up, from
\* whatever state crashes, races and edits had left it in; with --recreate, no
\* node is left with drift.
UpDelivers ==
    [][\A p \in Procs, l \in Labs : \A cfg \in Configs[l], r \in BOOLEAN :
        /\ Succeeds(p) /\ IsUp(p)
        /\ proc[p].lab = l /\ proc[p].cfg = cfg /\ proc[p].recreate = r
        => AsWanted(l, cfg, r)']_vars

\* An up that finds the lab up, runs undisturbed and exits with success has warned
\* of every node whose settings drifted, however many nodes it looked at since.
\* (One that has to move a node to another address returns from reconcile before
\* it looks for drift: that node's drift waits for the next up.)
DriftReported ==
    [][\A p \in Procs, l \in Labs : \A cfg \in Configs[l] :
        /\ Succeeds(p) /\ IsUp(p) /\ wasUp'
        /\ proc[p].lab = l /\ proc[p].cfg = cfg
        => DriftedNodes(l, cfg)' = proc'[p].warned]_vars

\* A down that ran undisturbed and exits with success leaves no container with
\* its label and, unless --keep-net, no network with it.
DownDelivers ==
    [][\A p \in Procs, l \in Labs \cup {None} :
        /\ Succeeds(p) /\ IsDown(p)
        /\ proc[p].lab = l
        => /\ LabContainers(l)' = {}
           /\ ~proc[p].keepNet => LabNetworks(l)' = {}]_vars

\* Idempotence: an up that finds the lab as its configuration wants it, and that
\* runs undisturbed, changes no container and no network in any of its steps.
Idempotent ==
    [][\A p \in Procs :
        (IsUp(p) /\ Moves(p) /\ clean = p /\ wasUp) => UNCHANGED daemonVars]_vars

\* up destroys a container only with --recreate, only a container of the node it
\* works on, and only one that differs from the configuration up loaded, even
\* when other commands and edits came between the inspection and the removal.
UpSparesNodes ==
    [][\A p \in Procs, c \in Cids :
        (IsUp(p) /\ Moves(p) /\ Exists(c) /\ ~Exists(c)') =>
            /\ proc[p].recreate
            /\ conts[c].owner = proc[p].lab
            /\ conts[c].node = CurrentNode(p).name
            /\ Drifted(c, CurrentNode(p).spec)]_vars

\* A command of one lab touches no container and no network of another lab, and
\* none that carries no vabbe label; down --all touches labelled ones only.
LabIsolation ==
    [][\A p \in Procs : Moves(p) =>
        /\ \A c \in Cids :
              (Exists(c) /\ conts'[c] # conts[c]) =>
                  IF proc[p].lab # None THEN conts[c].owner = proc[p].lab
                                        ELSE conts[c].owner # None
        /\ \A n \in Nids :
              (nets[n].name # None /\ nets'[n] # nets[n]) =>
                  IF proc[p].lab # None THEN nets[n].owner = proc[p].lab
                                        ELSE nets[n].owner # None]_vars

=============================================================================
