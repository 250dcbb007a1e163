---------------------------- MODULE LabMachines ----------------------------
(***************************************************************************)
(* What vabbe makes of a Docker daemon, seen from outside: every node of   *)
(* every lab is one machine, which is built with its settings and keeps    *)
(* them until it is scrapped, is switched on and off, and is plugged into  *)
(* its lab's network at an address nobody else has there.  No container    *)
(* ids, no list or inspect calls, no terminals.                            *)
(***************************************************************************)
CONSTANTS
    Labs,
    Nodes,
    Specs,      \* the settings a machine can be built with
    Addresses,
    None

VARIABLES
    machine,    \* one per lab and node
    net         \* the network of each lab's name

vars == <<machine, net>>

Slots == Labs \X Nodes

Machine ==
    [state : {"none", "off", "on"},
     spec  : Specs \cup {None},
     addr  : Addresses \cup {None}]

NoMachine == [state |-> "none", spec |-> None, addr |-> None]

\* "other": a network of that name somebody else made.
NetState == {"none", "ours", "other"}

\* A machine may take address a: its network is there and nobody has it.
MayTake(s, a) ==
    \/ a = None
    \/ /\ net[s[1]] # "none"
       /\ \A n \in Nodes : machine[<<s[1], n>>].addr # a

Becomes(s, m) == machine' = [machine EXCEPT ![s] = m] /\ UNCHANGED net

Build(s) ==
    /\ machine[s].state = "none"
    /\ \E spec \in Specs : Becomes(s, [state |-> "off", spec |-> spec, addr |-> None])

SwitchOn(s) ==
    /\ machine[s].state = "off"
    /\ \E a \in Addresses \cup {None} :
          /\ MayTake(s, a)
          /\ Becomes(s, [state |-> "on", spec |-> machine[s].spec, addr |-> a])

SwitchOff(s) ==
    /\ machine[s].state = "on"
    /\ Becomes(s, [state |-> "off", spec |-> machine[s].spec, addr |-> None])

Unplug(s) ==
    /\ machine[s].state = "on"
    /\ Becomes(s, [machine[s] EXCEPT !.addr = None])

Plug(s) ==
    /\ machine[s].state = "on"
    /\ machine[s].addr = None
    /\ \E a \in Addresses :
          MayTake(s, a) /\ Becomes(s, [machine[s] EXCEPT !.addr = a])

Scrap(s) ==
    /\ machine[s].state # "none"
    /\ Becomes(s, NoMachine)

LayNet(l) ==
    /\ net[l] = "none"
    /\ \E k \in NetState \ {"none"} : net' = [net EXCEPT ![l] = k]
    /\ UNCHANGED machine

\* Ours only, and only while no machine is plugged in.
TakeUpNet(l) ==
    /\ net[l] = "ours"
    /\ \A n \in Nodes : machine[<<l, n>>].addr = None
    /\ net' = [net EXCEPT ![l] = "none"]
    /\ UNCHANGED machine

Init ==
    /\ machine = [s \in Slots |-> NoMachine]
    /\ net = [l \in Labs |-> "none"]

\* A step changes one machine or one network.
Next ==
    \/ \E s \in Slots :
          /\ machine'[s] # machine[s]
          /\ Build(s) \/ SwitchOn(s) \/ SwitchOff(s) \/ Unplug(s) \/ Plug(s) \/ Scrap(s)
    \/ \E l \in Labs :
          /\ net'[l] # net[l]
          /\ LayNet(l) \/ TakeUpNet(l)

Spec == Init /\ [][Next]_vars

\* What holds of the machines: an address is one machine's, on a network that is
\* there, and only a machine that is on has one.
Addressed ==
    /\ machine \in [Slots -> Machine]
    /\ net \in [Labs -> NetState]
    /\ \A s \in Slots :
          /\ machine[s].state = "none" => machine[s] = NoMachine
          /\ machine[s].addr # None =>
                /\ machine[s].state = "on"
                /\ net[s[1]] # "none"
                /\ \A n \in Nodes : machine[<<s[1], n>>].addr = machine[s].addr => n = s[2]
=============================================================================
