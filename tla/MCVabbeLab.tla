----------------------------- MODULE MCVabbeLab -----------------------------
(* Small instances of VabbeLab.  Lab l1 is called "a" and lab l2 "a.b", so   *)
(* that node "b.c" of the first (n2) and node "c" of the second (n1) would   *)
(* both be container a.b.c.                                                  *)
EXTENDS VabbeLabMachines, TLC

CONSTANTS l1, l2, n1, n2, a1, a2, a3, s1, s2, i1, i2, o1

MCNames == (Labs \X Nodes) \ {<<l2, n1>>}
MCNameOf == [ln \in Labs \X Nodes |-> IF ln = <<l2, n1>> THEN <<l1, n2>> ELSE ln]
MCAddrs == [s \in Subnets |-> IF s = s1 THEN {a1, a2} \cap Addresses ELSE {a3}]

Node(name, ip, image, opts) ==
    [name |-> name, ip |-> ip, spec |-> [image |-> image, opts |-> opts]]
Cfg(subnet, nodes) == [subnet |-> subnet, nodes |-> nodes]

\* One node, whose address, settings and network are edited.
RaceConfigs ==
    [l \in Labs |-> {Cfg(s1, <<Node(n1, a1, i1, {})>>),
                     Cfg(None, <<Node(n1, None, i1, {o1})>>)}]

\* Two labs: nodes are added and removed, take and leave fixed addresses, change
\* image; the labs may ask for one subnet.
ShapeConfigs ==
    l1 :> {Cfg(None, <<Node(n1, None, i1, {})>>),
           Cfg(s1, <<Node(n1, a2, i2, {}), Node(n2, a1, i1, {o1})>>)}
    @@ l2 :> {Cfg(s1, <<Node(n1, None, i1, {})>>)}

RaceSymmetry == Permutations(Procs) \cup Permutations(Cids) \cup Permutations(Nids)
ShapeSymmetry == Permutations(Cids) \cup Permutations(Nids)
=============================================================================
