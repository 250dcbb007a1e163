---------------------- MODULE VabbeLabMachines_proofs ----------------------
(***************************************************************************)
(* VabbeLab implements LabMachines, for any sets of labs, nodes,           *)
(* terminals, ids, configurations and foreign names.                       *)
(***************************************************************************)
EXTENDS VabbeLabMachines, VabbeLab_proofs

USE DEF NodePcs, ContainerPcs, UpPcs, DownPcs

-----------------------------------------------------------------------------
(* What the machines show of the containers. *)

OffSlots == [state |-> "none", spec |-> None, addr |-> None]

\* What container c shows as a machine.
Face(c) ==
    [state |-> IF conts[c].state = "running" THEN "on" ELSE "off",
     spec  |-> conts[c].spec,
     addr  |-> conts[c].addr]

Shown ==
    \A l \in Labs, n \in Nodes :
        /\ NodeContainers(l, n) = {} => MachineOf(l, n) = OffSlots
        /\ \A c \in NodeContainers(l, n) : MachineOf(l, n) = Face(c)

LEMMA SlotShown == (TypeOK /\ OneContainerPerNode) => Shown
<1>1. SUFFICES ASSUME TypeOK, OneContainerPerNode, NEW l \in Labs, NEW n \in Nodes
      PROVE  /\ NodeContainers(l, n) = {} => MachineOf(l, n) = OffSlots
             /\ \A c \in NodeContainers(l, n) : MachineOf(l, n) = Face(c)
  BY DEF Shown
<1>2. NodeContainers(l, n) = {} => MachineOf(l, n) = OffSlots
  BY DEF MachineOf, OffSlots
<1>3. ASSUME NEW c \in NodeContainers(l, n)
      PROVE  MachineOf(l, n) = Face(c)
  <2>1. \A d \in NodeContainers(l, n) : d = c
    BY <1>1, <1>3, DaemonAssumption DEF NodeContainers, OneContainerPerNode
  <2>2. (CHOOSE d \in NodeContainers(l, n) : TRUE) = c
    BY <2>1
  <2> QED BY <2>2 DEF MachineOf, Face
<1> QED BY <1>2, <1>3

\* After a step, too.
LEMMA SlotShownNext == (TypeOK /\ OneContainerPerNode)' => Shown'
BY SlotShown, PTL

LEMMA OnePerNode == IInv => OneContainerPerNode
BY DEF IInv, NamesUnique, NamedByNode, OneContainerPerNode

LEMMA InvShown == IInv => Shown
BY SlotShown, OnePerNode DEF IInv

LEMMA InvShownNext == IInv' => Shown'
BY InvShown, PTL

\* A call that acts on container c alone leaves the machines it is no part of.
LEMMA SlotStays ==
    ASSUME IInv, IInv', NEW c \in Cids, \A d \in Cids \ {c} : conts'[d] = conts[d],
           NEW l \in Labs, NEW n \in Nodes,
           c \notin NodeContainers(l, n), c \notin NodeContainers(l, n)'
    PROVE  MachineOf(l, n)' = MachineOf(l, n)
<1>1. NodeContainers(l, n)' = NodeContainers(l, n)
  BY DEF NodeContainers, Exists
<1>2. CASE NodeContainers(l, n) = {}
  BY <1>1, <1>2, InvShown, InvShownNext DEF Shown, OffSlots
<1>3. CASE NodeContainers(l, n) # {}
  <2>1. PICK d \in NodeContainers(l, n) : TRUE
    BY <1>3
  <2>2. MachineOf(l, n) = Face(d) /\ MachineOf(l, n)' = Face(d)'
    BY <1>1, <2>1, InvShown, InvShownNext DEF Shown
  <2>3. d \in Cids \ {c}
    BY <2>1 DEF NodeContainers
  <2> QED BY <2>2, <2>3 DEF Face
<1> QED BY <1>2, <1>3

LEMMA AllSlotsStay ==
    ASSUME IInv, IInv', NEW c \in Cids, \A d \in Cids \ {c} : conts'[d] = conts[d],
           \A l \in Labs, n \in Nodes :
               c \notin NodeContainers(l, n) /\ c \notin NodeContainers(l, n)'
    PROVE  MachinesNow' = MachinesNow
BY SlotStays DEF MachinesNow

LEMMA OneSlotChanges ==
    ASSUME IInv, IInv', NEW c \in Cids, \A d \in Cids \ {c} : conts'[d] = conts[d],
           NEW l \in Labs, NEW n \in Nodes,
           \A k \in Labs, m \in Nodes : (k # l \/ m # n) =>
               c \notin NodeContainers(k, m) /\ c \notin NodeContainers(k, m)'
    PROVE  MachinesNow' = [MachinesNow EXCEPT ![<<l, n>>] = MachineOf(l, n)']
<1>1. \A s \in Labs \X Nodes : s # <<l, n>> => MachineOf(s[1], s[2])' = MachineOf(s[1], s[2])
  <2>1. SUFFICES ASSUME NEW k \in Labs, NEW m \in Nodes, k # l \/ m # n
                 PROVE  MachineOf(k, m)' = MachineOf(k, m)
    OBVIOUS
  <2> QED BY <2>1, SlotStays
<1> DEFINE old == [s \in Labs \X Nodes |-> MachineOf(s[1], s[2])]
<1> DEFINE new == [s \in Labs \X Nodes |-> MachineOf(s[1], s[2])']
<1>2. \A s \in Labs \X Nodes :
          new[s] = [old EXCEPT ![<<l, n>>] = MachineOf(l, n)'][s]
  BY <1>1
<1>3. new = [old EXCEPT ![<<l, n>>] = MachineOf(l, n)']
  BY <1>2
<1> QED BY <1>3 DEF MachinesNow

\* What such a call shows when the container stays what it is.
LEMMA TouchShown ==
    ASSUME IInv, IInv', NEW c \in Cids, Exists(c), Touches(c)
    PROVE  \/ MachinesNow' = MachinesNow
           \/ \E l \in Labs, n \in Nodes :
                 /\ c \in NodeContainers(l, n)
                 /\ MachinesNow[<<l, n>>] = Face(c)
                 /\ MachinesNow' = [MachinesNow EXCEPT ![<<l, n>>] = Face(c)']
<1>1. \A k \in Labs, m \in Nodes : c \in NodeContainers(k, m) <=> c \in NodeContainers(k, m)'
  BY DEF Touches, SameIdentity, NodeContainers, Exists
<1>2. CASE \A l \in Labs, n \in Nodes : c \notin NodeContainers(l, n)
  BY <1>1, <1>2, AllSlotsStay DEF Touches
<1>3. ASSUME NEW l \in Labs, NEW n \in Nodes, c \in NodeContainers(l, n)
      PROVE  /\ MachinesNow[<<l, n>>] = Face(c)
             /\ MachinesNow' = [MachinesNow EXCEPT ![<<l, n>>] = Face(c)']
  <2>1. \A k \in Labs, m \in Nodes : (k # l \/ m # n) =>
            c \notin NodeContainers(k, m) /\ c \notin NodeContainers(k, m)'
    BY <1>1, <1>3 DEF NodeContainers
  <2>2. MachineOf(l, n) = Face(c) /\ MachineOf(l, n)' = Face(c)'
    BY <1>1, <1>3, InvShown, InvShownNext DEF Shown
  <2>3. MachinesNow' = [MachinesNow EXCEPT ![<<l, n>>] = MachineOf(l, n)']
    BY <2>1, OneSlotChanges DEF Touches
  <2> QED BY <2>2, <2>3 DEF MachinesNow
<1> QED BY <1>2, <1>3

-----------------------------------------------------------------------------
(* What the machines need beyond IInv. *)

\* Only a running, attached container has an address.
Leased ==
    \A c \in Cids : conts[c].addr # None => conts[c].state = "running" /\ conts[c].attached

\* A network's name is its own, and vabbe's bear their lab's name.
NetsOwned ==
    \A n \in Nids : nets[n].name # None =>
        /\ nets[n].owner \in {None, nets[n].name}
        /\ \A m \in Nids : nets[m].name = nets[n].name => m = n

Wired == Leased /\ NetsOwned

\* One step of the machines, or none.
MachineStep == [Machines!Next]_(Machines!vars)

\* What every step of VabbeLab does to the daemon is to be shown to keep Wired and
\* to be such a step.
Implements == Wired' /\ MachineStep

\* An address the daemon leases on lab l's network may be taken there.
LEMMA LeaseMayTake ==
    ASSUME IInv, Wired, NEW l \in Labs, NEW n \in Nodes, NEW pin, NEW a,
           CanLease(l, pin, a)
    PROVE  Machines!MayTake(<<l, n>>, a) /\ a \in Addresses
<1>1. NetsNow[l] # "none" /\ a \in Addresses
  BY DaemonAssumption DEF NetsNow, NetOf, CanLease
<1>2. ASSUME NEW m \in Nodes, MachinesNow[<<l, m>>].addr = a
      PROVE  FALSE
  <2>1. MachineOf(l, m).addr = a
    BY <1>2 DEF MachinesNow
  <2>2. a # None
    BY <1>1, DaemonAssumption
  <2>3. NodeContainers(l, m) # {}
    BY <2>1, <2>2, InvShown DEF Shown, OffSlots
  <2>4. PICK c \in NodeContainers(l, m) : TRUE
    BY <2>3
  <2>5. conts[c].addr = a
    BY <2>1, <2>4, InvShown DEF Shown, Face
  <2>6. c \in Cids /\ conts[c].owner = l
    BY <2>4 DEF NodeContainers
  <2>7. c \in Members(l)
    BY <2>2, <2>5, <2>6 DEF Wired, Leased, Members
  <2> QED BY <2>5, <2>7 DEF CanLease, Held
<1> QED BY <1>1, <1>2 DEF Machines!MayTake

\* A call that leaves the networks keeps what Wired says of them.
LEMMA NetsKept ==
    ASSUME Wired, UNCHANGED nets
    PROVE  NetsOwned' /\ NetsNow' = NetsNow
BY DEF Wired, NetsOwned, NetsNow, NetOf, NetNamed

LEMMA ContsKept ==
    ASSUME Wired, UNCHANGED conts
    PROVE  Leased' /\ MachinesNow' = MachinesNow
BY DEF Wired, Leased, MachinesNow, MachineOf, NodeContainers, Exists

-----------------------------------------------------------------------------
(* What each kind of step does to the machines. *)

\* A step of machine s.
LEMMA SlotStep ==
    ASSUME NEW s \in Labs \X Nodes, MachinesNow'[s] # MachinesNow[s],
           \/ Machines!Build(s) \/ Machines!SwitchOn(s) \/ Machines!SwitchOff(s)
           \/ Machines!Unplug(s) \/ Machines!Plug(s) \/ Machines!Scrap(s)
    PROVE  MachineStep
BY DEF MachineStep, Machines!Next, Machines!Slots

LEMMA NoStep ==
    ASSUME Wired, MachinesNow' = MachinesNow, NetsNow' = NetsNow
    PROVE  MachineStep
BY DEF MachineStep, Machines!vars

LEMMA QuietImplements ==
    ASSUME Wired, UNCHANGED <<conts, nets>>
    PROVE  Implements
BY NetsKept, ContsKept, NoStep DEF Implements, Wired

LEMMA FaceTyped ==
    ASSUME IInv, NEW l \in Labs, NEW n \in Nodes
    PROVE  <<l, n>> \in Labs \X Nodes /\ <<l, n>> \in DOMAIN MachinesNow
BY DEF MachinesNow

LEMMA StopImplements ==
    ASSUME IInv, IInv', Wired, NEW c \in Cids, NodeStops(c)
    PROVE  Implements
<1>1. Exists(c) /\ Touches(c)
  BY StopTouches DEF NodeStops, Exists, IInv, TypeOK
<1>2. Leased' /\ conts'[c].state = "exited" /\ conts'[c].addr = None
      /\ conts'[c].spec = conts[c].spec
  BY <1>1 DEF NodeStops, IInv, TypeOK, DaemonTypeOK, Container, Wired, Leased
<1>3. NetsOwned' /\ NetsNow' = NetsNow
  BY NetsKept DEF NodeStops
<1>4. CASE MachinesNow' = MachinesNow
  BY <1>2, <1>3, <1>4, NoStep DEF Implements, Wired
<1>5. ASSUME NEW l \in Labs, NEW n \in Nodes, MachinesNow[<<l, n>>] = Face(c),
             MachinesNow' = [MachinesNow EXCEPT ![<<l, n>>] = Face(c)']
      PROVE  MachineStep
  <2>1. /\ Face(c).state = "on"
        /\ Face(c)' = [state |-> "off", spec |-> Face(c).spec, addr |-> None]
    BY <1>2 DEF Face, NodeStops
  <2>2. Machines!SwitchOff(<<l, n>>)
    BY <1>3, <1>5, <2>1 DEF Machines!SwitchOff, Machines!Becomes
  <2>3. MachinesNow'[<<l, n>>] # MachinesNow[<<l, n>>]
    BY <1>5, <2>1, FaceTyped
  <2> QED BY <2>2, <2>3, SlotStep, FaceTyped
<1> QED BY <1>1, <1>2, <1>3, <1>4, <1>5, TouchShown DEF Implements, Wired

LEMMA StartImplements ==
    ASSUME IInv, IInv', Wired, NEW c \in Cids, CanStart(c), ContainerStart(c), UNCHANGED nets
    PROVE  Implements
<1>1. CASE conts[c].state = "running"
  BY <1>1, QuietImplements DEF ContainerStart
<1>2. CASE conts[c].state # "running"
  <2>1. Exists(c) /\ Touches(c)
    BY StartTouches DEF CanStart, IInv, TypeOK
  <2>2. PICK w \in Nids \cup {None}, a \in Addresses \cup {None} :
           /\ StartLease(c, w, a)
           /\ conts' = [conts EXCEPT ![c].state = "running", ![c].netId = w,
                                       ![c].addr = a]
    BY <1>2 DEF ContainerStart
  <2>3. /\ conts'[c].state = "running" /\ conts'[c].addr = a
        /\ conts'[c].attached = conts[c].attached /\ conts'[c].spec = conts[c].spec
    BY <2>2 DEF IInv, TypeOK, DaemonTypeOK, Container
  <2>4. Leased'
    BY <2>1, <2>2, <2>3 DEF Wired, Leased, Touches, StartLease
  <2>5. NetsOwned' /\ NetsNow' = NetsNow
    BY NetsKept
  <2>6. CASE MachinesNow' = MachinesNow
    BY <2>4, <2>5, <2>6, NoStep DEF Implements, Wired
  <2>7. ASSUME NEW l \in Labs, NEW n \in Nodes, c \in NodeContainers(l, n),
               MachinesNow[<<l, n>>] = Face(c),
               MachinesNow' = [MachinesNow EXCEPT ![<<l, n>>] = Face(c)']
        PROVE  MachineStep
    <3>1. /\ Face(c).state = "off"
          /\ Face(c)' = [state |-> "on", spec |-> Face(c).spec, addr |-> a]
      BY <1>2, <2>3 DEF Face
    <3>2. Machines!MayTake(<<l, n>>, a)
      <4>1. CASE a = None
        BY <4>1 DEF Machines!MayTake
      <4>2. CASE a # None
        BY <2>2, <2>7, <4>2, LeaseMayTake DEF StartLease, NodeContainers
      <4> QED BY <4>1, <4>2
    <3>3. Machines!SwitchOn(<<l, n>>)
      BY <2>5, <2>7, <3>1, <3>2 DEF Machines!SwitchOn, Machines!Becomes
    <3>4. MachinesNow'[<<l, n>>] # MachinesNow[<<l, n>>]
      BY <2>7, <3>1, FaceTyped
    <3> QED BY <3>3, <3>4, SlotStep, FaceTyped
  <2> QED BY <2>1, <2>4, <2>5, <2>6, <2>7, TouchShown DEF Implements, Wired
<1> QED BY <1>1, <1>2

LEMMA DisconnectImplements ==
    ASSUME IInv, IInv', Wired, NEW c \in Cids, Exists(c), conts' = NetworkDisconnect(c),
           UNCHANGED nets
    PROVE  Implements
<1>1. Touches(c)
  BY DisconnectTouches DEF IInv, TypeOK
<1>2. /\ conts'[c].state = conts[c].state /\ conts'[c].addr = None
      /\ conts'[c].spec = conts[c].spec
  BY DEF NetworkDisconnect, IInv, TypeOK, DaemonTypeOK, Container
<1>3. Leased'
  BY <1>1, <1>2 DEF Wired, Leased, Touches
<1>4. NetsOwned' /\ NetsNow' = NetsNow
  BY NetsKept
<1>5. CASE MachinesNow' = MachinesNow
  BY <1>3, <1>4, <1>5, NoStep DEF Implements, Wired
<1>6. ASSUME NEW l \in Labs, NEW n \in Nodes, MachinesNow[<<l, n>>] = Face(c),
             MachinesNow' = [MachinesNow EXCEPT ![<<l, n>>] = Face(c)'],
             MachinesNow' # MachinesNow
      PROVE  MachineStep
  <2>1. Face(c)' = [Face(c) EXCEPT !.addr = None]
    BY <1>2 DEF Face
  <2>2. Face(c)' # Face(c)
    BY <1>6, FaceTyped DEF MachinesNow
  <2>3. Face(c).state = "on"
    BY <1>2, <2>2 DEF Face, Wired, Leased
  <2>4. Machines!Unplug(<<l, n>>)
    BY <1>4, <1>6, <2>1, <2>3 DEF Machines!Unplug, Machines!Becomes
  <2>5. MachinesNow'[<<l, n>>] # MachinesNow[<<l, n>>]
    BY <1>6, <2>2, FaceTyped
  <2> QED BY <2>4, <2>5, SlotStep, FaceTyped
<1> QED BY <1>1, <1>3, <1>4, <1>5, <1>6, TouchShown DEF Implements, Wired

LEMMA ConnectImplements ==
    ASSUME IInv, IInv', Wired, NEW c \in Cids, Exists(c), NEW pin \in Addresses \cup {None},
           NetworkConnect(c, conts[c].owner, pin), UNCHANGED nets
    PROVE  Implements
<1>1. Touches(c)
  BY ConnectTouches DEF IInv, TypeOK
<1>2. PICK w \in Nids \cup {None}, a \in Addresses \cup {None} :
         /\ ConnectLease(c, conts[c].owner, pin, w, a)
         /\ conts' = [conts EXCEPT ![c].attached = TRUE, ![c].netId = w, ![c].pin = pin,
                                   ![c].addr = a]
  BY DEF NetworkConnect
<1>3. /\ conts'[c].state = conts[c].state /\ conts'[c].addr = a
      /\ conts'[c].attached = TRUE /\ conts'[c].spec = conts[c].spec
  BY <1>2 DEF IInv, TypeOK, DaemonTypeOK, Container
<1>4. Leased'
  BY <1>1, <1>2, <1>3 DEF Wired, Leased, Touches, ConnectLease
<1>5. NetsOwned' /\ NetsNow' = NetsNow
  BY NetsKept
<1>6. CASE MachinesNow' = MachinesNow
  BY <1>4, <1>5, <1>6, NoStep DEF Implements, Wired
<1>7. ASSUME NEW l \in Labs, NEW n \in Nodes, c \in NodeContainers(l, n),
             MachinesNow[<<l, n>>] = Face(c),
             MachinesNow' = [MachinesNow EXCEPT ![<<l, n>>] = Face(c)'],
             MachinesNow' # MachinesNow
      PROVE  MachineStep
  <2>1. Face(c)' = [Face(c) EXCEPT !.addr = a]
    BY <1>3 DEF Face
  <2>2. Face(c)' # Face(c)
    BY <1>7, FaceTyped DEF MachinesNow
  <2>3. conts[c].state = "running"
    BY <1>2, <1>3, <2>2 DEF Face, Wired, Leased, ConnectLease
  <2>4. ~conts[c].attached /\ CanLease(l, pin, a)
    BY <1>2, <1>7, <2>3 DEF ConnectLease, NodeContainers
  <2>5. Face(c).state = "on" /\ Face(c).addr = None
    BY <2>3, <2>4 DEF Face, Wired, Leased
  <2>6. Machines!Plug(<<l, n>>)
    BY <1>5, <1>7, <2>1, <2>4, <2>5, LeaseMayTake DEF Machines!Plug, Machines!Becomes
  <2>7. MachinesNow'[<<l, n>>] # MachinesNow[<<l, n>>]
    BY <1>7, <2>2, FaceTyped
  <2> QED BY <2>6, <2>7, SlotStep, FaceTyped
<1> QED BY <1>1, <1>4, <1>5, <1>6, <1>7, TouchShown DEF Implements, Wired

LEMMA RemoveImplements ==
    ASSUME IInv, IInv', Wired, NEW c \in Cids, Exists(c), conts' = ContainerRemove(c),
           UNCHANGED nets
    PROVE  Implements
<1>1. /\ ~Exists(c)' /\ \A d \in Cids \ {c} : conts'[d] = conts[d]
      /\ conts'[c].addr = None
  BY RemoveTyped DEF IInv, TypeOK, DaemonTypeOK, ContainerRemove, NoContainer
<1>2. Leased'
  BY <1>1 DEF Wired, Leased
<1>3. NetsOwned' /\ NetsNow' = NetsNow
  BY NetsKept
<1>4. CASE \A l \in Labs, n \in Nodes : c \notin NodeContainers(l, n)
  <2>1. \A l \in Labs, n \in Nodes : c \notin NodeContainers(l, n)'
    BY <1>1 DEF NodeContainers
  <2>2. MachinesNow' = MachinesNow
    BY <1>1, <1>4, <2>1, AllSlotsStay
  <2> QED BY <1>2, <1>3, <2>2, NoStep DEF Implements, Wired
<1>5. ASSUME NEW l \in Labs, NEW n \in Nodes, c \in NodeContainers(l, n)
      PROVE  MachineStep
  <2>1. \A k \in Labs, m \in Nodes : (k # l \/ m # n) =>
            c \notin NodeContainers(k, m) /\ c \notin NodeContainers(k, m)'
    BY <1>1, <1>5 DEF NodeContainers
  <2>2. \A d \in NodeContainers(l, n) : d = c
    BY <1>5, OnePerNode, DaemonAssumption DEF NodeContainers, OneContainerPerNode
  <2>3. NodeContainers(l, n)' = {}
    BY <1>1, <2>2 DEF NodeContainers, Exists
  <2>4. MachineOf(l, n)' = OffSlots /\ MachineOf(l, n) = Face(c)
    BY <1>5, <2>3, InvShown, InvShownNext DEF Shown, OffSlots
  <2>5. MachinesNow' = [MachinesNow EXCEPT ![<<l, n>>] = OffSlots]
    BY <1>1, <2>1, <2>4, OneSlotChanges
  <2>6. MachinesNow[<<l, n>>].state # "none" /\ OffSlots.state = "none"
    BY <2>4 DEF MachinesNow, Face, OffSlots
  <2>7. Machines!Scrap(<<l, n>>)
    BY <1>3, <2>5, <2>6
    DEF Machines!Scrap, Machines!Becomes, Machines!NoMachine, OffSlots
  <2>8. MachinesNow'[<<l, n>>] # MachinesNow[<<l, n>>]
    BY <2>5, <2>6, FaceTyped
  <2> QED BY <2>7, <2>8, SlotStep, FaceTyped
<1> QED BY <1>2, <1>3, <1>4, <1>5 DEF Implements, Wired

LEMMA CreateImplements ==
    ASSUME IInv, IInv', Wired, NEW c \in NewCids, NEW l \in Labs, NEW n \in Nodes,
           NEW pin \in Addresses \cup {None}, NEW spec \in NodeSpec,
           NameFree(NameOf[<<l, n>>]), conts' = ContainerCreate(c, l, n, pin, spec),
           UNCHANGED nets
    PROVE  Implements
<1>1. c \in Cids /\ ~Exists(c)
  BY DEF NewCids
<1>2. /\ \A d \in Cids \ {c} : conts'[d] = conts[d]
      /\ conts'[c].owner = l /\ conts'[c].node = n /\ conts'[c].spec = spec
  BY <1>1, CreateTyped DEF IInv, TypeOK
<1>3. conts'[c].state = "created" /\ conts'[c].addr = None
  BY <1>1 DEF ContainerCreate, IInv, TypeOK, DaemonTypeOK
<1>4. Leased'
  BY <1>2, <1>3 DEF Wired, Leased
<1>5. NetsOwned' /\ NetsNow' = NetsNow
  BY NetsKept
<1>6. \A k \in Labs, m \in Nodes : (k # l \/ m # n) =>
          c \notin NodeContainers(k, m) /\ c \notin NodeContainers(k, m)'
  BY <1>1, <1>2 DEF NodeContainers
<1>7. NodeContainers(l, n) = {}
  BY DaemonAssumption DEF NodeContainers, NameFree, IInv, NamedByNode
<1>8. c \in NodeContainers(l, n)'
  BY <1>1, <1>2, <1>3 DEF NodeContainers, Exists
<1>9. MachineOf(l, n) = OffSlots /\ MachineOf(l, n)' = Face(c)'
  BY <1>7, <1>8, InvShown, InvShownNext DEF Shown
<1>10. Face(c)' = [state |-> "off", spec |-> spec, addr |-> None]
  BY <1>2, <1>3 DEF Face
<1>11. MachinesNow' = [MachinesNow EXCEPT ![<<l, n>>] = Face(c)']
  BY <1>1, <1>2, <1>6, <1>9, OneSlotChanges
<1>12. MachinesNow[<<l, n>>].state = "none"
  BY <1>9 DEF MachinesNow, OffSlots
<1>13. Machines!Build(<<l, n>>)
  BY <1>5, <1>10, <1>11, <1>12 DEF Machines!Build, Machines!Becomes
<1>14. MachinesNow'[<<l, n>>] # MachinesNow[<<l, n>>]
  BY <1>10, <1>11, <1>12, FaceTyped
<1> QED BY <1>4, <1>5, <1>13, <1>14, SlotStep, FaceTyped DEF Implements, Wired

LEMMA ForeignContainerImplements ==
    ASSUME IInv, IInv', Wired, NEW name \in ForeignNames, ForeignContainer(name)
    PROVE  Implements
<1>1. PICK c \in NewCids :
         conts' = [conts EXCEPT ![c] = [NoContainer EXCEPT !.state = "running", !.name = name]]
  BY DEF ForeignContainer
<1>2. c \in Cids /\ ~Exists(c)
  BY DEF NewCids
<1>3. /\ \A d \in Cids \ {c} : conts'[d] = conts[d]
      /\ conts'[c].owner = None /\ conts'[c].addr = None
  BY <1>1, <1>2 DEF NoContainer, IInv, TypeOK, DaemonTypeOK
<1>4. Leased'
  BY <1>3 DEF Wired, Leased
<1>5. NetsOwned' /\ NetsNow' = NetsNow
  BY NetsKept DEF ForeignContainer
<1>6. \A l \in Labs, n \in Nodes :
          c \notin NodeContainers(l, n) /\ c \notin NodeContainers(l, n)'
  BY <1>2, <1>3, DaemonAssumption DEF NodeContainers
<1>7. MachinesNow' = MachinesNow
  BY <1>2, <1>3, <1>6, AllSlotsStay
<1> QED BY <1>4, <1>5, <1>7, NoStep DEF Implements, Wired

\* A call on network n, which has lab l's name, leaves the other labs' networks alone.
LEMMA OneNetChanges ==
    ASSUME NEW n \in Nids, NEW l \in Labs, \A m \in Nids \ {n} : nets'[m] = nets[m],
           nets[n].name \in {None, l}, nets'[n].name \in {None, l}
    PROVE  NetsNow' = [NetsNow EXCEPT ![l] = NetOf(l)']
<1>1. ASSUME NEW k \in Labs, k # l
      PROVE  NetOf(k)' = NetOf(k)
  <2>1. NetNamed(k)' = NetNamed(k) /\ n \notin NetNamed(k)
    BY <1>1, DaemonAssumption DEF NetNamed
  <2>2. \A m \in NetNamed(k) : nets'[m] = nets[m]
    BY <2>1 DEF NetNamed
  <2> QED BY <2>1, <2>2 DEF NetOf
<1> DEFINE new == [k \in Labs |-> NetOf(k)']
<1>2. new = [[k \in Labs |-> NetOf(k)] EXCEPT ![l] = NetOf(l)']
  BY <1>1
<1> QED BY <1>2 DEF NetsNow

\* A step of the network of lab l's name.
LEMMA NetStep ==
    ASSUME NEW l \in Labs, NetsNow'[l] # NetsNow[l],
           Machines!LayNet(l) \/ Machines!TakeUpNet(l)
    PROVE  MachineStep
BY DEF MachineStep, Machines!Next

\* Somebody makes a network of lab l's name: vabbe, or another tool.
LEMMA NewNetImplements ==
    ASSUME IInv, Wired, NEW l \in Labs, NEW n \in NewNids, NetNamed(l) = {},
           NEW v \in Network, v.name = l, v.owner \in {None, l},
           nets' = [nets EXCEPT ![n] = v], UNCHANGED conts
    PROVE  Implements
<1>1. n \in Nids /\ nets[n].name = None
  BY DEF NewNids
<1>2. nets'[n] = v /\ \A m \in Nids \ {n} : nets'[m] = nets[m]
  BY <1>1 DEF IInv, TypeOK, DaemonTypeOK
<1>3. NetsOwned'
  BY <1>1, <1>2 DEF Wired, NetsOwned, NetNamed
<1>4. Leased' /\ MachinesNow' = MachinesNow
  BY ContsKept
<1>5. NetsNow' = [NetsNow EXCEPT ![l] = NetOf(l)']
  BY <1>1, <1>2, OneNetChanges
<1>6. NetOf(l) = "none" /\ NetOf(l)' \in {"ours", "other"}
  <2>1. n \in NetNamed(l)'
    BY <1>1, <1>2 DEF NetNamed
  <2> QED BY <2>1 DEF NetOf
<1>7. Machines!LayNet(l)
  BY <1>4, <1>5, <1>6 DEF Machines!LayNet, Machines!NetState, NetsNow
<1>8. NetsNow'[l] # NetsNow[l]
  BY <1>5, <1>6 DEF NetsNow
<1> QED BY <1>3, <1>4, <1>7, <1>8, NetStep DEF Implements, Wired

LEMMA NetworkRemoveImplements ==
    ASSUME IInv, Wired, NEW n \in Nids, CanRemoveNet(n), nets[n].owner # None,
           nets' = NetworkRemove(n), UNCHANGED conts
    PROVE  Implements
<1>1. PICK l \in Labs : l = nets[n].name /\ nets[n].owner = l
  BY DEF CanRemoveNet, Wired, NetsOwned, IInv, TypeOK, DaemonTypeOK, Network
<1>2. nets'[n].name = None /\ \A m \in Nids \ {n} : nets'[m] = nets[m]
  BY DEF NetworkRemove, NoNetwork, IInv, TypeOK, DaemonTypeOK
<1>3. NetsOwned'
  BY <1>2 DEF Wired, NetsOwned
<1>4. Leased' /\ MachinesNow' = MachinesNow
  BY ContsKept
<1>5. NetsNow' = [NetsNow EXCEPT ![l] = NetOf(l)']
  BY <1>1, <1>2, OneNetChanges
<1>6. NetNamed(l) = {n}
  BY <1>1 DEF NetNamed, Wired, NetsOwned, CanRemoveNet
<1>7. NetNamed(l)' = {}
  BY <1>1, <1>2, <1>6, DaemonAssumption DEF NetNamed
<1>8. NetOf(l) = "ours" /\ NetOf(l)' = "none"
  BY <1>1, <1>6, <1>7 DEF NetOf
<1>9. ASSUME NEW m \in Nodes
      PROVE  MachinesNow[<<l, m>>].addr = None
  <2>1. Members(l) = {}
    BY <1>1 DEF CanRemoveNet
  <2>2. CASE NodeContainers(l, m) = {}
    BY <1>1, <2>2, InvShown DEF Shown, OffSlots, MachinesNow
  <2>3. ASSUME NEW c \in NodeContainers(l, m)
        PROVE  MachinesNow[<<l, m>>].addr = None
    <3>1. c \in Cids /\ conts[c].owner = l
      BY <2>3 DEF NodeContainers
    <3>2. conts[c].addr = None
      BY <2>1, <3>1 DEF Wired, Leased, Members
    <3> QED BY <1>1, <2>3, <3>2, InvShown DEF Shown, Face, MachinesNow
  <2> QED BY <2>2, <2>3
<1>10. Machines!TakeUpNet(l)
  BY <1>1, <1>4, <1>5, <1>8, <1>9 DEF Machines!TakeUpNet, NetsNow
<1>11. NetsNow'[l] # NetsNow[l]
  BY <1>1, <1>5, <1>8 DEF NetsNow
<1> QED BY <1>1, <1>3, <1>4, <1>10, <1>11, NetStep DEF Implements, Wired

-----------------------------------------------------------------------------
(* The steps of VabbeLab. *)

LEMMA CreateNetImplements ==
    ASSUME IInv, Wired, NEW p \in Procs, CreateNet(p)
    PROVE  Implements
<1>1. CASE UNCHANGED nets
  BY <1>1, QuietImplements DEF CreateNet
<1>2. CASE nets' # nets
  <2>1. proc[p].lab \in Labs
    BY DEF CreateNet, IInv, TypeOK, CommandOK
  <2>2. PICK n \in NewNids, s \in Subnets :
           /\ NetNamed(proc[p].lab) = {}
           /\ nets' = [nets EXCEPT ![n] =
                          [name |-> proc[p].lab, owner |-> proc[p].lab, subnet |-> s]]
    BY <1>2 DEF CreateNet, CanCreateNet, NetworkCreate
  <2> DEFINE v == [name |-> proc[p].lab, owner |-> proc[p].lab, subnet |-> s]
  <2>3. v \in Network /\ v.name = proc[p].lab /\ v.owner = proc[p].lab
    BY <2>1 DEF Network
  <2> HIDE DEF v
  <2>4. nets' = [nets EXCEPT ![n] = v]
    BY <2>2 DEF v
  <2> QED BY <2>1, <2>2, <2>3, <2>4, NewNetImplements DEF CreateNet
<1> QED BY <1>1, <1>2

LEMMA ForeignNetworkImplements ==
    ASSUME IInv, Wired, NEW l \in ForeignNets, ForeignNetwork(l)
    PROVE  Implements
<1>1. l \in Labs
  BY LabAssumption
<1>2. PICK n \in NewNids : nets' = [nets EXCEPT ![n] = [NoNetwork EXCEPT !.name = l]]
  BY DEF ForeignNetwork
<1> DEFINE v == [NoNetwork EXCEPT !.name = l]
<1>3. v \in Network /\ v.name = l /\ v.owner = None
  BY <1>1 DEF Network, NoNetwork
<1> HIDE DEF v
<1>4. nets' = [nets EXCEPT ![n] = v]
  BY <1>2 DEF v
<1> QED BY <1>1, <1>3, <1>4, NewNetImplements DEF ForeignNetwork

LEMMA CreateNodeImplements ==
    ASSUME IInv, IInv', Wired, NEW p \in Procs, CreateNode(p)
    PROVE  Implements
<1>1. CASE UNCHANGED conts
  BY <1>1, QuietImplements DEF CreateNode
<1>2. CASE conts' # conts
  <2>1. CurrentNode(p) \in NodeCfg /\ proc[p].lab \in Labs
    BY CurrentNodeTyped DEF CreateNode, IInv
  <2>2. /\ CurrentNode(p).name \in Nodes /\ CurrentNode(p).spec \in NodeSpec
        /\ CurrentNode(p).ip \in Addresses \cup {None}
    BY <2>1 DEF NodeCfg
  <2> QED BY <1>2, <2>1, <2>2, CreateImplements DEF CreateNode
<1> QED BY <1>1, <1>2

\* The calls up makes on the container it holds.
LEMMA HeldImplements ==
    ASSUME IInv, IInv', Wired, NEW p \in Procs,
           RemoveDrifted(p) \/ StartNode(p) \/ RestartNode(p) \/ DisconnectNode(p)
    PROVE  Implements
<1>1. UNCHANGED nets
  BY DEF RemoveDrifted, StartNode, RestartNode, DisconnectNode
<1>2. proc[p].id \in Cids
  BY DEF RemoveDrifted, StartNode, RestartNode, DisconnectNode, IInv, TypeOK, CommandOK
<1>3. CASE UNCHANGED conts
  BY <1>1, <1>3, QuietImplements
<1>4. CASE Exists(proc[p].id) /\ conts' = ContainerRemove(proc[p].id)
  BY <1>1, <1>2, <1>4, RemoveImplements
<1>5. CASE CanStart(proc[p].id) /\ ContainerStart(proc[p].id)
  BY <1>1, <1>2, <1>5, StartImplements
<1>6. CASE Exists(proc[p].id) /\ conts' = NetworkDisconnect(proc[p].id)
  BY <1>1, <1>2, <1>6, DisconnectImplements
<1> QED BY <1>3, <1>4, <1>5, <1>6
        DEF RemoveDrifted, StartNode, RestartNode, DisconnectNode, Attached

LEMMA ConnectNodeImplements ==
    ASSUME IInv, IInv', Wired, NEW p \in Procs, ConnectNode(p)
    PROVE  Implements
<1>1. CASE UNCHANGED conts
  BY <1>1, QuietImplements DEF ConnectNode
<1>2. CASE conts' # conts
  <2>1. /\ proc[p].id \in Cids /\ Exists(proc[p].id)
        /\ NetworkConnect(proc[p].id, proc[p].lab, CurrentNode(p).ip)
    BY <1>2 DEF ConnectNode, CanConnect, IInv, TypeOK, CommandOK
  <2>2. conts[proc[p].id].owner = proc[p].lab
    BY <2>1 DEF ConnectNode, IInv, Safe, Holding
  <2>3. CurrentNode(p).ip \in Addresses \cup {None}
    BY CurrentNodeTyped DEF ConnectNode, IInv, NodeCfg
  <2> QED BY <2>1, <2>2, <2>3, ConnectImplements DEF ConnectNode
<1> QED BY <1>1, <1>2

LEMMA DownImplements ==
    ASSUME IInv, IInv', Wired, NEW p \in Procs, RemoveContainer(p) \/ RemoveNetwork(p)
    PROVE  Implements
<1>1. CASE UNCHANGED <<conts, nets>>
  BY <1>1, QuietImplements
<1>2. ASSUME NEW c \in proc[p].todo, proc[p].pc = "rmConts", Exists(c),
             conts' = ContainerRemove(c), UNCHANGED nets
      PROVE  Implements
  <2>1. c \in Cids
    BY <1>2 DEF IInv, TypeOK, CommandOK
  <2> QED BY <1>2, <2>1, RemoveImplements
<1>3. ASSUME NEW n \in proc[p].todo, proc[p].pc = "rmNets", CanRemoveNet(n),
             nets' = NetworkRemove(n), UNCHANGED conts
      PROVE  Implements
  <2>1. n \in Nids
    BY <1>3 DEF IInv, TypeOK, CommandOK
  <2>2. nets[n].owner # None
    BY <1>3 DEF IInv, Safe, Listed, OwnedBy, CanRemoveNet
  <2> QED BY <1>3, <2>1, <2>2, NetworkRemoveImplements
<1> QED BY <1>1, <1>2, <1>3 DEF RemoveContainer, RemoveNetwork

LEMMA ActsImplements ==
    ASSUME IInv, IInv', Wired, NEW p \in Procs, Acts(p)
    PROVE  Implements
<1>1. CASE UNCHANGED <<conts, nets>>
  BY <1>1, QuietImplements
<1>2. CASE ~UNCHANGED <<conts, nets>>
  <2>1. \/ CreateNet(p) \/ CreateNode(p) \/ RemoveDrifted(p) \/ StartNode(p)
        \/ RestartNode(p) \/ DisconnectNode(p) \/ ConnectNode(p)
        \/ RemoveContainer(p) \/ RemoveNetwork(p)
    BY <1>2 DEF Acts, StartUp, StartDown, UpStep, DownStep, Abort, InspectFails,
       DisconnectFails, InspectNet, FindNode, CheckDrift, WarnDrift, ListContainers,
       ListNetworks
  <2> QED BY <2>1, CreateNetImplements, CreateNodeImplements, HeldImplements,
          ConnectNodeImplements, DownImplements
<1> QED BY <1>1, <1>2

LEMMA EnvironmentImplements ==
    ASSUME IInv, IInv', Wired, Environment
    PROVE  Implements
<1>1. CASE \E l \in Labs : EditYaml(l)
  BY <1>1, QuietImplements DEF EditYaml
<1>2. ASSUME NEW c \in Cids, NodeStarts(c) PROVE Implements
  BY <1>2, StartImplements DEF NodeStarts
<1> QED BY <1>1, <1>2, StopImplements, ForeignContainerImplements,
        ForeignNetworkImplements DEF Environment

LEMMA StepImplements == (IInv /\ IInv' /\ Wired /\ [Next]_vars) => Implements
<1>1. CASE UNCHANGED vars
  BY <1>1, QuietImplements DEF vars
<1> QED BY <1>1, StepCases, ActsImplements, EnvironmentImplements

LEMMA InitImplements == Init => Wired /\ Machines!Init
<1>1. Init => Wired
  BY DEF Init, Wired, Leased, NetsOwned, NoContainer, NoNetwork
<1>2. SUFFICES ASSUME Init PROVE Machines!Init
  BY <1>1
<1>3. ASSUME NEW l \in Labs, NEW n \in Nodes
      PROVE  MachineOf(l, n) = OffSlots
  BY <1>2 DEF Init, MachineOf, NodeContainers, Exists, NoContainer, OffSlots
<1>4. ASSUME NEW l \in Labs
      PROVE  NetOf(l) = "none"
  BY <1>2, DaemonAssumption DEF Init, NetOf, NetNamed, NoNetwork
<1> QED BY <1>3, <1>4
        DEF Machines!Init, Machines!Slots, Machines!NoMachine, OffSlots, MachinesNow, NetsNow

\* Wherever the commands interleave, fail or are killed, and whatever nodes and other
\* tools do meanwhile, each step of VabbeLab is a step of LabMachines or none at all.
THEOREM Implementation == Spec => ImplementsMachines
<1>1. (IInv /\ Wired /\ [Next]_vars /\ IInv') => Wired' /\ [Machines!Next]_(Machines!vars)
  BY StepImplements DEF Implements, MachineStep
<1>2. Init => Wired /\ Machines!Init
  BY InitImplements
<1> QED BY <1>1, <1>2, Invariance, PTL DEF Spec, ImplementsMachines, Machines!Spec

Proved == INSTANCE LabMachines_proofs WITH
    Specs <- NodeSpec, machine <- MachinesNow, net <- NetsNow

\* So an address of a lab's network is never two nodes', only a running node has one,
\* and its network is there.
THEOREM NodesAddressed == Spec => []Machines!Addressed
<1>1. Machines!Spec => []Machines!Addressed
  <2>1. Machines!Init => Machines!Addressed
    BY Proved!InitAddressed
    DEF Machines!Init, Proved!Init, Machines!Addressed, Proved!Addressed,
        Machines!Slots, Proved!Slots, Machines!Machine, Proved!Machine, Machines!NoMachine,
        Proved!NoMachine, Machines!NetState, Proved!NetState
  <2>2. Machines!Addressed /\ [Machines!Next]_(Machines!vars) => Machines!Addressed'
    BY Proved!NextAddressed
    DEF Machines!Addressed, Proved!Addressed, Machines!Next, Proved!Next, Machines!vars,
        Proved!vars, Machines!Slots, Proved!Slots, Machines!Machine, Proved!Machine,
        Machines!NoMachine, Proved!NoMachine, Machines!NetState, Proved!NetState,
        Machines!MayTake, Proved!MayTake, Machines!Becomes, Proved!Becomes, Machines!Build,
        Proved!Build, Machines!SwitchOn, Proved!SwitchOn, Machines!SwitchOff,
        Proved!SwitchOff, Machines!Unplug, Proved!Unplug, Machines!Plug, Proved!Plug,
        Machines!Scrap, Proved!Scrap, Machines!LayNet, Proved!LayNet, Machines!TakeUpNet,
        Proved!TakeUpNet
  <2> QED BY <2>1, <2>2, PTL DEF Machines!Spec
<1> QED BY <1>1, Implementation, PTL DEF ImplementsMachines
=============================================================================
