------------------------------ MODULE MCLabKeys ------------------------------
(* A small instance of LabKeys.                                             *)
EXTENDS LabKeys, TLC

\* Two commands at once is about the files: while the lab has nodes, one terminal
\* at a time runs a command.
Pristine(p) == proc[p] = Idle
RacesWithoutNodes ==
    \/ \A n \in Nodes : node[n].state = "absent"
    \/ Cardinality({p \in Procs : ~Pristine(p)}) <= 1

KeysSymmetry == Permutations(Procs) \cup Permutations(Nodes)
=============================================================================
