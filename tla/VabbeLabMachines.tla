-------------------------- MODULE VabbeLabMachines --------------------------
(***************************************************************************)
(* The commands of VabbeLab, however many run at once and wherever they    *)
(* fail, do nothing to the machines of a lab that LabMachines does not     *)
(* allow.                                                                  *)
(***************************************************************************)
EXTENDS VabbeLab

\* Node n of lab l, as the containers with its labels show it.
MachineOf(l, n) ==
    LET found == NodeContainers(l, n) IN
    IF found = {} THEN [state |-> "none", spec |-> None, addr |-> None]
    ELSE LET c == CHOOSE c \in found : TRUE IN
         [state |-> IF conts[c].state = "running" THEN "on" ELSE "off",
          spec  |-> conts[c].spec,
          addr  |-> conts[c].addr]

NetOf(l) ==
    IF NetNamed(l) = {} THEN "none"
    ELSE IF \E n \in NetNamed(l) : nets[n].owner = l THEN "ours" ELSE "other"

MachinesNow == [s \in Labs \X Nodes |-> MachineOf(s[1], s[2])]
NetsNow == [l \in Labs |-> NetOf(l)]

Machines == INSTANCE LabMachines WITH
    Specs <- NodeSpec, machine <- MachinesNow, net <- NetsNow

\* Up, up --recreate and down implement the machines: whatever the terminals
\* interleave and wherever a command stops between two calls, a node is one machine,
\* each call changes one machine or one network, settings are never changed in
\* place, an address is given up before another is taken, and vabbe takes up only
\* networks of its own that nothing is plugged into.
ImplementsMachines == Machines!Spec
=============================================================================
