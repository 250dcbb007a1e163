-------------------------- MODULE VabbeLabRecovery --------------------------
(***************************************************************************)
(* VabbeLab with a quiet end: from some point on no call fails, nothing    *)
(* else touches the lab, vabbe.yaml stays as it is, and everybody repeats  *)
(* one command - `vabbe up', `vabbe up --recreate' or `vabbe down'.  What  *)
(* came before, crashes and races included, is any behaviour of VabbeLab.  *)
(* Commands in flight when the quiet begins run to their end.              *)
(***************************************************************************)
EXTENDS VabbeLab

VARIABLE phase      \* "busy", or the command that is repeated

RecoveryVars == <<vars, phase>>

SettleDown ==
    /\ phase = "busy"
    /\ phase' \in {"up", "recreate", "down"}
    /\ UNCHANGED vars

\* Terminal p runs the repeated command on lab l once more.
Repeat(p, l) ==
    /\ phase # "busy"
    /\ Begin(p)
    /\ proc'[p].lab = l
    /\ IF phase = "down"
         THEN proc'[p].pc = "list" /\ ~proc'[p].keepNet
         ELSE proc'[p].pc = "inspectNet" /\ proc'[p].recreate = (phase = "recreate")
    /\ UNCHANGED <<yaml, phase>>

RunOn(p) == Continue(p) /\ UNCHANGED <<yaml, phase>>

RecoveryNext ==
    \/ phase = "busy" /\ Next /\ UNCHANGED phase
    \/ SettleDown
    \/ \E p \in Procs : (phase # "busy" /\ RunOn(p)) \/ \E l \in Labs : Repeat(p, l)

\* A started command gets its turn: it is an OS process whose calls return.  The
\* command is repeated: that is what the property is about.
Fairness ==
    \A p \in Procs : WF_RecoveryVars(RunOn(p))
                     /\ \A l \in Labs : WF_RecoveryVars(Repeat(p, l))

RecoverySpec ==
    Init /\ phase = "busy" /\ [][RecoveryNext]_RecoveryVars /\ Fairness

-----------------------------------------------------------------------------
\* A node of the lab is stranded: its container stopped, a down removed the network
\* under it, and the endpoint still holds that network's id, so that no start of it
\* can succeed although an up may have made the network anew.
Stranded(l, cfg) ==
    \E i \in 1..Len(cfg.nodes) : \E c \in NodeContainers(l, cfg.nodes[i].name) :
        /\ conts[c].state # "running"
        /\ conts[c].netId # None
        /\ conts[c].netId \notin NetNamed(l)

\* Whatever state killed commands, racing commands, stopped nodes and edits of
\* vabbe.yaml left behind, repeating up brings the lab up for good, and repeating
\* up --recreate also rids it of drift.
RecoversUp ==
    \A l \in Labs :
        (phase \in {"up", "recreate"}) ~> []AsWanted(l, yaml[l], phase = "recreate")

\* A down that listed the containers before an up created one removes the network all
\* the same, if the new node has stopped by then.  But for nodes stranded like that,
\* which up can neither start nor build anew, repeating up brings the lab up for good
\* however many terminals raced before or race while they do.
RecoversUnlessStranded ==
    \A l \in Labs :
        (phase \in {"up", "recreate"}) ~>
            (\/ []AsWanted(l, yaml[l], phase = "recreate")
             \/ []Stranded(l, yaml[l]))

\* Repeating down leaves nothing of the lab, not even what an up that was still
\* running created after the first down had made its list.
RecoversDown ==
    \A l \in Labs : (phase = "down") ~> []LabDown(l)

=============================================================================
