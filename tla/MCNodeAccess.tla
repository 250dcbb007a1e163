---------------------------- MODULE MCNodeAccess ----------------------------
EXTENDS NodeAccess

CONSTANTS n1, n2, a1, a2

MCOrder == <<n1, n2>>
MCPin == [n \in Nodes |-> IF n = n1 THEN a1 ELSE None]

Faulty(n) == node[n].kmodErr \/ node[n].storeErr \/ node[n].noMods \/ node[n].noStore

\* Bound: these labs; a script fails in the micro-VM of one lab at any time, in that of
\* the other before the command starts; nothing follows the end of the command.
Bound ==
    /\ <<kind[n1], kind[n2]>> \in {<<"vm", "runc">>, <<"runner", "vm">>, <<"runc", "runner">>}
    /\ Faulty(n1) => kind[n1] = "vm" /\ cli.pc = "idle"
    /\ Faulty(n2) => kind[n2] = "vm"
    /\ cli.pc \notin {"ok", "failed", "timeout"}
=============================================================================
