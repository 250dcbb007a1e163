------------------------- MODULE LabMachines_proofs -------------------------
(***************************************************************************)
(* What LabMachines guarantees, for any labs, nodes, settings and          *)
(* addresses.                                                              *)
(***************************************************************************)
EXTENDS LabMachines, TLAPS

\* An address is plugged into a network that is there, by one machine, which is on.
Plugged(s) ==
    machine[s].addr # None =>
        /\ machine[s].state = "on"
        /\ net[s[1]] # "none"
        /\ \A n \in Nodes : machine[<<s[1], n>>].addr = machine[s].addr => n = s[2]

\* A machine that changes its address only to one it may take leaves the others theirs.
LEMMA BecomesAddressed ==
    ASSUME Addressed, NEW s \in Slots, NEW m \in Machine, Becomes(s, m),
           m.state = "none" => m = NoMachine,
           m.addr # None => m.state = "on" /\ (m.addr = machine[s].addr \/ MayTake(s, m.addr))
    PROVE  Addressed'
<1>1. machine' \in [Slots -> Machine] /\ net' \in [Labs -> NetState]
  BY DEF Becomes, Addressed
<1>2. machine'[s] = m /\ net' = net /\ \A t \in Slots \ {s} : machine'[t] = machine[t]
  BY DEF Becomes, Addressed
<1>3. SUFFICES ASSUME NEW t \in Slots
               PROVE  /\ machine'[t].state = "none" => machine'[t] = NoMachine
                      /\ Plugged(t)'
  BY <1>1 DEF Addressed, Plugged
<1>4. machine'[t].state = "none" => machine'[t] = NoMachine
  BY <1>2 DEF Addressed
<1>5. PICK l \in Labs, k \in Nodes : t = <<l, k>>
  BY DEF Slots
<1>6. PICK ls \in Labs, ks \in Nodes : s = <<ls, ks>>
  BY DEF Slots
<1>7. ASSUME machine'[t].addr # None
      PROVE  /\ machine'[t].state = "on"
             /\ net'[l] # "none"
             /\ \A n \in Nodes : machine'[<<l, n>>].addr = machine'[t].addr => n = k
  <2>1. \A n \in Nodes : <<l, n>> \in Slots /\ (<<l, n>> = s <=> l = ls /\ n = ks)
    BY <1>6 DEF Slots
  <2>2. CASE t = s
    <3>1. m.addr # None
      BY <1>2, <1>7, <2>2
    <3>2. net[l] # "none" /\ \A n \in Nodes \ {k} : machine[<<l, n>>].addr # m.addr
      <4>1. CASE m.addr = machine[s].addr
        BY <3>1, <4>1, <1>5, <2>2 DEF Addressed
      <4>2. CASE MayTake(s, m.addr)
        BY <3>1, <4>2, <1>5, <2>2 DEF MayTake
      <4> QED BY <4>1, <4>2, <3>1
    <3> QED BY <1>2, <1>5, <1>6, <2>1, <2>2, <3>1, <3>2
  <2>3. CASE t # s
    <3>1. machine'[t] = machine[t]
      BY <1>2, <2>3
    <3>2. /\ machine[t].state = "on" /\ net[l] # "none"
          /\ \A n \in Nodes : machine[<<l, n>>].addr = machine[t].addr => n = k
      BY <1>5, <1>7, <3>1 DEF Addressed
    <3>3. l = ls => m.addr # machine[t].addr
      <4>1. CASE m.addr = machine[s].addr
        BY <3>2, <4>1, <1>5, <1>6, <2>3
      <4>2. CASE MayTake(s, m.addr)
        BY <3>1, <4>2, <1>5, <1>6, <1>7 DEF MayTake
      <4>3. CASE m.addr = None
        BY <4>3, <3>1, <1>7
      <4> QED BY <4>1, <4>2, <4>3
    <3> QED BY <1>2, <2>1, <3>1, <3>2, <3>3
  <2> QED BY <2>2, <2>3
<1> QED BY <1>4, <1>5, <1>7 DEF Plugged

\* A network comes or, when nothing is plugged in, goes.
LEMMA NetAddressed ==
    ASSUME Addressed, NEW l \in Labs, LayNet(l) \/ TakeUpNet(l)
    PROVE  Addressed'
<1>1. PICK k \in NetState : net' = [net EXCEPT ![l] = k]
  BY DEF LayNet, TakeUpNet, NetState
<1>2. machine' = machine /\ net' \in [Labs -> NetState]
  BY <1>1 DEF Addressed, LayNet, TakeUpNet
<1>3. \A s \in Slots : machine[s].addr # None => net'[s[1]] # "none"
  <2>1. SUFFICES ASSUME NEW s \in Slots, machine[s].addr # None
                 PROVE  net'[s[1]] # "none"
    OBVIOUS
  <2>2. PICK ls \in Labs, ks \in Nodes : s = <<ls, ks>>
    BY DEF Slots
  <2>3. net[ls] # "none"
    BY <2>1, <2>2 DEF Addressed
  <2>4. CASE ls # l
    BY <1>1, <2>2, <2>3, <2>4 DEF Addressed
  <2>5. CASE ls = l
    BY <2>1, <2>2, <2>3, <2>5 DEF Addressed, LayNet, TakeUpNet
  <2> QED BY <2>4, <2>5
<1> QED BY <1>2, <1>3 DEF Addressed

LEMMA InitAddressed == Init => Addressed
BY DEF Init, Addressed, NoMachine, Machine, NetState, Slots

LEMMA NextAddressed == Addressed /\ [Next]_vars => Addressed'
<1>1. SUFFICES ASSUME Addressed, [Next]_vars PROVE Addressed'
  OBVIOUS
<1>2. ASSUME NEW s \in Slots, Build(s) PROVE Addressed'
  <2>1. PICK spec \in Specs : Becomes(s, [state |-> "off", spec |-> spec, addr |-> None])
    BY <1>2 DEF Build
  <2> QED BY <1>1, <2>1, BecomesAddressed DEF Machine
<1>3. ASSUME NEW s \in Slots, SwitchOn(s) PROVE Addressed'
  <2>1. PICK a \in Addresses \cup {None} :
           /\ MayTake(s, a)
           /\ Becomes(s, [state |-> "on", spec |-> machine[s].spec, addr |-> a])
    BY <1>3 DEF SwitchOn
  <2>2. machine[s] \in Machine
    BY <1>1 DEF Addressed
  <2> QED BY <1>1, <2>1, <2>2, BecomesAddressed DEF Machine
<1>4. ASSUME NEW s \in Slots, SwitchOff(s) PROVE Addressed'
  <2>1. machine[s] \in Machine
    BY <1>1 DEF Addressed
  <2> QED BY <1>1, <1>4, <2>1, BecomesAddressed DEF Machine, SwitchOff
<1>5. ASSUME NEW s \in Slots, Unplug(s) PROVE Addressed'
  <2>1. machine[s] \in Machine
    BY <1>1 DEF Addressed
  <2> QED BY <1>1, <1>5, <2>1, BecomesAddressed DEF Machine, Unplug
<1>6. ASSUME NEW s \in Slots, Plug(s) PROVE Addressed'
  <2>1. PICK a \in Addresses :
           MayTake(s, a) /\ Becomes(s, [machine[s] EXCEPT !.addr = a])
    BY <1>6 DEF Plug
  <2>2. machine[s] \in Machine
    BY <1>1 DEF Addressed
  <2> QED BY <1>1, <1>6, <2>1, <2>2, BecomesAddressed DEF Machine, Plug
<1>7. ASSUME NEW s \in Slots, Scrap(s) PROVE Addressed'
  BY <1>1, <1>7, BecomesAddressed DEF Machine, NoMachine, Scrap
<1>8. CASE UNCHANGED vars
  BY <1>1, <1>8 DEF vars, Addressed
<1> QED BY <1>1, <1>2, <1>3, <1>4, <1>5, <1>6, <1>7, <1>8, NetAddressed DEF Next

\* However the machines are built, switched, plugged and scrapped, an address belongs to
\* one machine, which is on, and its network is there.
THEOREM AddressedAlways == Spec => []Addressed
BY InitAddressed, NextAddressed, PTL DEF Spec

=============================================================================
