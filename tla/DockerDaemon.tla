---------------------------- MODULE DockerDaemon ----------------------------
(***************************************************************************)
(* The Docker daemon as vabbe sees it: the containers and the networks it  *)
(* holds, and what the Engine API calls made by src/cmd/vabbe/docker.go do *)
(* to them.  The daemon is not part of the repository, so everything here  *)
(* is external: it is modelled from the calls vabbe makes and from the     *)
(* answers vabbe is written to handle.                                     *)
(*                                                                         *)
(* Each call is one atomic step of the daemon.  A call comes as a pair: a  *)
(* predicate that says when the daemon accepts it, and the new value of    *)
(* `conts' or `nets' when it does.  A refused call changes nothing.        *)
(***************************************************************************)
EXTENDS Naturals, FiniteSets

CONSTANTS
    Labs,       \* lab names; a lab's network has the lab's name
    Nodes,      \* node names
    Names,      \* container names, unique on a daemon
    NameOf,     \* lab.Name + "." + node.Name
    Cids,       \* container ids
    Nids,       \* network ids
    Subnets,    \* the subnets a network can have
    Addresses,  \* IPv4 addresses
    Addrs,      \* the addresses the daemon hands out on each subnet
    Images,     \* images a node can run
    Opts,       \* settings of a node: entrypoint, cmd, an env entry, a mount...
    None        \* the absent label, address, subnet or id

\* NameOf need not be injective: a dot may occur in a lab's and in a node's name.
ASSUME DaemonAssumption ==
    /\ NameOf \in [Labs \X Nodes -> Names]
    /\ Addrs \in [Subnets -> SUBSET Addresses]
    /\ None \notin Labs \cup Nodes \cup Cids \cup Nids \cup Subnets \cup Addresses

VARIABLES
    conts,      \* id -> container
    nets        \* id -> network

daemonVars == <<conts, nets>>

\* What createNode asks for and drift compares.
NodeSpec == [image : Images, opts : SUBSET Opts]

Container ==
    [state    : {"absent", "created", "running", "exited"},
     owner    : Labs \cup {None},        \* label vabbe.lab; None: not vabbe's
     node     : Nodes \cup {None},       \* label vabbe.node
     name     : Names \cup {None},
     spec     : NodeSpec \cup {None},
     attached : BOOLEAN,                 \* has an endpoint on the lab's network
     netId    : Nids \cup {None},        \* NetworkID of the endpoint, once it was live
     pin      : Addresses \cup {None},   \* IPAMConfig.IPv4Address of the endpoint
     addr     : Addresses \cup {None}]   \* its live IPAddress

NoContainer ==
    [state |-> "absent", owner |-> None, node |-> None, name |-> None,
     spec |-> None, attached |-> FALSE, netId |-> None, pin |-> None, addr |-> None]

\* A network with name None does not exist.
Network ==
    [name   : Labs \cup {None},
     owner  : Labs \cup {None},          \* label vabbe.lab
     subnet : Subnets \cup {None}]

NoNetwork == [name |-> None, owner |-> None, subnet |-> None]

DaemonTypeOK ==
    /\ conts \in [Cids -> Container]
    /\ nets \in [Nids -> Network]

-----------------------------------------------------------------------------
(* What the list and inspect calls answer. *)

Exists(c) == conts[c].state # "absent"

\* ContainerList with the filters vabbe.lab=l and vabbe.node=n.
NodeContainers(l, n) ==
    {c \in Cids : Exists(c) /\ conts[c].owner = l /\ conts[c].node = n}

\* Mutant of LabContainers: a label filter without value.
LabContainersAnyLab(l) == {c \in Cids : Exists(c) /\ conts[c].owner # None}

\* ContainerList by label: vabbe.lab=l, or the bare key vabbe.lab when l is None.
LabContainers(l) ==
    {c \in Cids : /\ Exists(c)
                  /\ conts[c].owner # None
                  /\ l # None => conts[c].owner = l}

NetNamed(l) == {n \in Nids : nets[n].name = l}

\* Mutant of LabNetworks: by the name in place of the label.
LabNetworksByName(l) ==
    {n \in Nids : nets[n].name # None /\ (l # None => nets[n].name = l)}

\* NetworkList by the same labels.
LabNetworks(l) ==
    {n \in Nids : /\ nets[n].name # None
                  /\ nets[n].owner # None
                  /\ l # None => nets[n].owner = l}

\* Running containers with an endpoint on lab l's network.
Members(l) ==
    {c \in Cids : /\ conts[c].state = "running"
                  /\ conts[c].attached
                  /\ conts[c].owner = l}

Held(l) == {conts[c].addr : c \in Members(l)}

\* Address a can be leased on lab l's network to an endpoint pinned to pin.
CanLease(l, pin, a) ==
    /\ \E n \in NetNamed(l) : /\ nets[n].subnet \in Subnets
                              /\ a \in Addrs[nets[n].subnet]
    /\ a \notin Held(l)
    /\ pin # None => a = pin

-----------------------------------------------------------------------------
(* Containers. *)

NameFree(name) == \A c \in Cids : Exists(c) => conts[c].name # name

ContainerCreate(c, l, n, pin, spec) ==
    [conts EXCEPT ![c] =
        [state |-> "created", owner |-> l, node |-> n, name |-> NameOf[<<l, n>>],
         spec |-> spec, attached |-> TRUE, netId |-> None, pin |-> pin, addr |-> None]]

\* A start finds its network by the id that the endpoint got when it was first live,
\* and by the name only when it never was: a network that was removed and made anew
\* is not found.
FindsNet(c, n) ==
    /\ n \in NetNamed(conts[c].owner)
    /\ conts[c].netId # None => n = conts[c].netId

\* The network and the address container c gets when it starts: none when it is not
\* attached.
StartLease(c, n, a) ==
    IF conts[c].attached
      THEN FindsNet(c, n) /\ CanLease(conts[c].owner, conts[c].pin, a)
      ELSE n = None /\ a = None

CanStart(c) ==
    /\ Exists(c)
    /\ \/ conts[c].state = "running"
       \/ \E n \in Nids \cup {None}, a \in Addresses \cup {None} : StartLease(c, n, a)

\* Starting a running container is accepted and does nothing.
ContainerStart(c) ==
    IF conts[c].state = "running"
      THEN conts' = conts
      ELSE \E n \in Nids \cup {None}, a \in Addresses \cup {None} :
              /\ StartLease(c, n, a)
              /\ conts' = [conts EXCEPT ![c].state = "running", ![c].netId = n,
                                        ![c].addr = a]

\* Force-remove, with its volumes.
ContainerRemove(c) == [conts EXCEPT ![c] = NoContainer]

-----------------------------------------------------------------------------
(* Networks. *)

CanCreateNet(l, s) ==
    /\ NetNamed(l) = {}
    /\ \A n \in Nids : nets[n].name # None => nets[n].subnet # s

NetworkCreate(n, l, s) ==
    [nets EXCEPT ![n] = [name |-> l, owner |-> l, subnet |-> s]]

\* Refused while a running container has an endpoint on it.
CanRemoveNet(n) == nets[n].name # None /\ Members(nets[n].name) = {}

NetworkRemove(n) == [nets EXCEPT ![n] = NoNetwork]

Attached(c) == Exists(c) /\ conts[c].attached

NetworkDisconnect(c) ==
    [conts EXCEPT ![c].attached = FALSE, ![c].netId = None, ![c].pin = None,
                  ![c].addr = None]

\* A running container needs a lease and must not be attached yet; a stopped
\* one only has its endpoint configuration replaced, by one without NetworkID.
ConnectLease(c, l, pin, n, a) ==
    IF conts[c].state = "running"
      THEN ~conts[c].attached /\ n \in NetNamed(l) /\ CanLease(l, pin, a)
      ELSE n = None /\ a = None

CanConnect(c, l, pin) ==
    /\ Exists(c)
    /\ NetNamed(l) # {}
    /\ \E n \in Nids \cup {None}, a \in Addresses \cup {None} : ConnectLease(c, l, pin, n, a)

NetworkConnect(c, l, pin) ==
    \E n \in Nids \cup {None}, a \in Addresses \cup {None} :
        /\ ConnectLease(c, l, pin, n, a)
        /\ conts' = [conts EXCEPT ![c].attached = TRUE, ![c].netId = n, ![c].pin = pin,
                                  ![c].addr = a]

=============================================================================
