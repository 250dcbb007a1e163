------------------------- MODULE MCVabbeLabRecovery -------------------------
(* Small instances of VabbeLabRecovery. *)
EXTENDS VabbeLabRecovery, TLC

CONSTANTS l1, n1, n2, a1, a2, s1, i1, o1

MCNames == Labs \X Nodes
MCNameOf == [ln \in Labs \X Nodes |-> ln]
MCAddrs == [s \in Subnets |-> Addresses]

Node(name, ip, opts) == [name |-> name, ip |-> ip, spec |-> [image |-> i1, opts |-> opts]]
Cfg(subnet, nodes) == [subnet |-> subnet, nodes |-> nodes]

\* A node is added, and the other one takes a fixed address and a new setting.
GrowConfigs ==
    [l \in Labs |-> {Cfg(None, <<Node(n1, None, {})>>),
                     Cfg(s1, <<Node(n1, a1, {o1}), Node(n2, a2, {})>>)}]

\* One node with one setting.
PairConfigs == [l \in Labs |-> {Cfg(None, <<Node(n1, None, {})>>)}]

\* Two nodes exchange their addresses.
SwapConfigs ==
    [l \in Labs |-> {Cfg(s1, <<Node(n1, a1, {}), Node(n2, a2, {})>>),
                     Cfg(s1, <<Node(n1, a2, {}), Node(n2, a1, {})>>)}]
=============================================================================
