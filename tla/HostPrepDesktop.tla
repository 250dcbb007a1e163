--------------------------- MODULE HostPrepDesktop ---------------------------
(***************************************************************************)
(* vabbe host-prep --run and host-prep --restore --run on Docker Desktop:  *)
(* the command runs a script in the VM by way of a privileged helper       *)
(* container of a fixed name, and judges by the helper's exit code and     *)
(* output whether the script ran.  Several terminals may do so at once; a  *)
(* terminal that is killed leaves its helper, and the script in it, alive. *)
(***************************************************************************)
EXTENDS Naturals, FiniteSets

CONSTANTS
    Procs,      \* terminals
    Devices,    \* the VM's swap devices
    Fstab,      \* those that a boot and `swapon -a' turn on
    None        \* no snapshot file, no terminal

ASSUME DesktopAssumption ==
    /\ Fstab \subseteq Devices
    /\ None \notin Procs
    /\ \A S \in SUBSET Devices : S # None

VARIABLES
    helper,     \* the container named vabbe-host-prep
    on,         \* the VM's active swap devices
    snap,       \* the snapshot file in the VM's /run
    proc,       \* the command each terminal runs
    clean,      \* history: the command that has run alone since it started
    off,        \* history: what a script turned off and nobody on again
    preps,      \* history: snapshots taken since off was last empty, up to 2
    calm,       \* history: since the first of them no swap call failed, and no
                \* reboot and no administrator came in the middle of a script
    orphaned    \* history: the helper is there because someone was cut short, or
                \* because its removal failed

vm == <<on, snap>>
history == <<clean, off, preps, calm, orphaned>>
vars == <<helper, vm, proc, history>>

Verbs == {"prep", "restore"}

\* Names are unique, so there is one helper at a time; its creator knows it by id.
Helper ==
    [state  : {"absent", "created", "running", "exited"},
     by     : Procs \cup {None},
     verb   : Verbs,
     at     : {"exec", "list", "swapoff", "swapon", "echo"},  \* line of its script
     todo   : SUBSET Devices,          \* what is left to turn on
     marked : BOOLEAN]                 \* it has printed hostPrepMarker

NoHelper == [state |-> "absent", by |-> None, verb |-> "prep", at |-> "exec",
             todo |-> {}, marked |-> FALSE]

Command ==
    [pc     : {"idle", "clear", "create", "wait", "start", "logs", "judge", "cleanup"},
     verb   : Verbs,
     out    : BOOLEAN,                 \* the marker is in the captured output
     exit   : {"none", "ok", "error"}]

Idle == [pc |-> "idle", verb |-> "prep", out |-> FALSE, exit |-> "none"]
AllIdle == \A p \in Procs : proc[p].pc = "idle"

Exists == helper.state # "absent"
Mine(p) == Exists /\ helper.by = p

Goto(p, pc) == proc' = [proc EXCEPT ![p].pc = pc]
Exit(p, code) == proc' = [proc EXCEPT ![p] = [Idle EXCEPT !.exit = code]]

\* Once the helper is created, the way out leads through its removal.
Leave(p, code) == proc' = [proc EXCEPT ![p].pc = "cleanup", ![p].exit = code]

-----------------------------------------------------------------------------
(* prepDockerDesktop. *)

StartHostPrep(p, verb) ==
    /\ proc[p].pc = "idle"
    /\ proc' = [proc EXCEPT ![p] = [Idle EXCEPT !.pc = "clear", !.verb = verb]]
    /\ UNCHANGED <<helper, vm>>

\* Force-remove whatever has the name; the error is dropped.
ClearLeftover(p) ==
    /\ proc[p].pc = "clear"
    /\ Goto(p, "create")
    /\ helper' \in {NoHelper, helper}
    /\ UNCHANGED vm

CreateHelper(p) ==
    /\ proc[p].pc = "create"
    /\ IF Exists
         THEN Exit(p, "error") /\ UNCHANGED helper
         ELSE /\ helper' = [NoHelper EXCEPT !.state = "created", !.by = p,
                                            !.verb = proc[p].verb]
              /\ Goto(p, "wait")
    /\ UNCHANGED vm

\* Wait for not-running: a container that was only created is not running, so the
\* answer is there at once, with code 0.
WaitHelper(p) ==
    /\ proc[p].pc = "wait"
    /\ Goto(p, "start")
    /\ UNCHANGED <<helper, vm>>

\* Mutant of StartHelper: the removal is deferred only after the start.
StartHelperUndeferred(p) ==
    /\ proc[p].pc = "start"
    /\ \/ /\ Mine(p)
          /\ helper' = [helper EXCEPT !.state = "running"]
          /\ Goto(p, "logs")
       \/ Exit(p, "error") /\ UNCHANGED helper
    /\ UNCHANGED vm

StartHelper(p) ==
    /\ proc[p].pc = "start"
    /\ \/ /\ Mine(p)
          /\ helper' = [helper EXCEPT !.state = "running"]
          /\ Goto(p, "logs")
       \/ Leave(p, "error") /\ UNCHANGED helper
    /\ UNCHANGED vm

\* The log stream ends with the container; what a removed one had printed may not
\* have come through.
ReadLogs(p) ==
    /\ proc[p].pc = "logs"
    /\ ~(Mine(p) /\ helper.state = "running")
    /\ proc' = [proc EXCEPT ![p].pc = "judge", ![p].out = Mine(p) /\ helper.marked]
    /\ UNCHANGED <<helper, vm>>

\* The stream breaks or cannot be had: nothing is captured, and it is no error.
LogsFail(p) ==
    /\ proc[p].pc = "logs"
    /\ Goto(p, "judge")
    /\ UNCHANGED <<helper, vm>>

\* Mutant of Judge: only the exit code counts.
JudgeByCode(p) ==
    /\ proc[p].pc = "judge"
    /\ Leave(p, "ok")
    /\ UNCHANGED <<helper, vm>>

\* The code, taken from the early answer, is always 0; the marker decides.
Judge(p) ==
    /\ proc[p].pc = "judge"
    /\ Leave(p, IF proc[p].out THEN "ok" ELSE "error")
    /\ UNCHANGED <<helper, vm>>

\* The deferred removal, by id; its error is dropped.
RemoveHelper(p) ==
    /\ proc[p].pc = "cleanup"
    /\ helper' \in {IF Mine(p) THEN NoHelper ELSE helper, helper}
    /\ Exit(p, proc[p].exit)
    /\ UNCHANGED vm

CliStep(p) ==
    \/ ClearLeftover(p) \/ CreateHelper(p) \/ WaitHelper(p) \/ StartHelper(p)
    \/ ReadLogs(p) \/ Judge(p) \/ RemoveHelper(p)

-----------------------------------------------------------------------------
(* nsenter1PrepCmd and nsenter1RestoreCmd, in the helper. *)

At(line) == helper.state = "running" /\ helper.at = line
Proceed(line) == helper' = [helper EXCEPT !.at = line]
Dies == helper' = [helper EXCEPT !.state = "exited"]

\* Mutant of Replay: fstab swap only.
ReplayFstab == Fstab

\* [ -s file ]: an empty snapshot counts as none.
Replay == IF snap = None \/ snap = {} THEN Fstab ELSE snap

EnterVM ==
    /\ At("exec")
    /\ \/ helper.verb = "prep" /\ Proceed("list")
       \/ /\ helper.verb = "restore"
          /\ helper' = [helper EXCEPT !.at = "swapon", !.todo = Replay]
       \/ Dies      \* the shell cannot be executed
    /\ UNCHANGED vm

\* Mutant of Snapshot: --noheadings is left out, and the heading is a line like others.
SnapshotHeading ==
    /\ At("list")
    /\ snap' \in {on \cup {None}, {}}
    /\ Proceed("swapoff")
    /\ UNCHANGED on

\* swapon --show > file || true: when it fails the file is empty.
Snapshot ==
    /\ At("list")
    /\ snap' \in {on, {}}
    /\ Proceed("swapoff")
    /\ UNCHANGED on

\* Under set -e a failure ends the script before the marker.
SwapOff ==
    /\ At("swapoff")
    /\ \/ on' = {} /\ Proceed("echo")
       \/ on' \in SUBSET on /\ Dies
    /\ UNCHANGED snap

SwapOn ==
    /\ At("swapon")
    /\ \/ \E d \in helper.todo :
             /\ on' \in {on, on \cup {d}}
             /\ helper' = [helper EXCEPT !.todo = @ \ {d}]
       \/ helper.todo = {} /\ Proceed("echo") /\ UNCHANGED on
    /\ UNCHANGED snap

EchoMarker ==
    /\ At("echo")
    /\ helper' = [helper EXCEPT !.state = "exited", !.marked = TRUE]
    /\ UNCHANGED vm

ScriptStep == EnterVM \/ Snapshot \/ SwapOff \/ SwapOn \/ EchoMarker

-----------------------------------------------------------------------------
(* The rest of the world. *)

Killed(p) ==
    /\ proc[p].pc # "idle"
    /\ Exit(p, "error")
    /\ UNCHANGED <<helper, vm>>

\* /run is a tmpfs.  Docker goes down with the VM, and with it every command.
RebootVM ==
    /\ on' = Fstab
    /\ snap' = None
    /\ helper' = IF helper.state = "running" THEN [helper EXCEPT !.state = "exited"]
                 ELSE helper
    /\ proc' = [p \in Procs |-> Idle]

\* Somebody runs swapon or swapoff in the VM.
AdminVM ==
    /\ \E d \in Devices : on' \in {on \cup {d}, on \ {d}}
    /\ on' # on
    /\ UNCHANGED <<helper, snap, proc>>

-----------------------------------------------------------------------------
(* A swap call fails that leaves its device as it was, or its list empty. *)
Refused ==
    \/ At("list") /\ snap' # on
    \/ At("swapoff") /\ on' # {}
    \/ At("swapon") /\ ~(helper.todo \ helper'.todo \subseteq on')

\* The removal that p owes fails, and nobody hears of it.
RemovalFails(p) == proc[p].pc = "cleanup" /\ Mine(p) /\ UNCHANGED helper

Begin(p) ==
    /\ \E verb \in Verbs : StartHostPrep(p, verb)
    /\ clean' = IF AllIdle THEN p ELSE None
    /\ UNCHANGED <<off, preps, calm, orphaned>>

Continue(p) ==
    /\ CliStep(p)
    /\ clean' = IF clean = p /\ proc'[p].pc # "idle" THEN p ELSE None
    /\ orphaned' = ((orphaned \/ RemovalFails(p)) /\ Exists')
    /\ UNCHANGED <<off, preps, calm>>

Script ==
    /\ ScriptStep
    /\ off' = (off \cup (on \ on')) \ on'
    /\ preps' = IF ~At("list") THEN preps ELSE IF off = {} THEN 1 ELSE 2
    /\ calm' = ((calm \/ (At("list") /\ off = {})) /\ ~Refused)
    /\ UNCHANGED <<proc, clean, orphaned>>

Fault(p) ==
    /\ \/ LogsFail(p) /\ UNCHANGED orphaned
       \/ Killed(p) /\ orphaned' = (orphaned \/ Exists)
    /\ clean' = None
    /\ UNCHANGED <<off, preps, calm>>

World ==
    /\ \/ RebootVM /\ off' = {} /\ orphaned' = Exists
       \/ AdminVM /\ off' = off \ on' /\ UNCHANGED orphaned
    /\ clean' = None
    /\ calm' = (calm /\ helper.state # "running")
    /\ UNCHANGED preps

Init ==
    /\ helper = NoHelper
    /\ on \in {Fstab, Devices}
    /\ snap = None
    /\ proc = [p \in Procs |-> Idle]
    /\ clean = None
    /\ off = {}
    /\ preps = 0
    /\ calm = TRUE
    /\ orphaned = FALSE

Next ==
    \/ \E p \in Procs : Begin(p) \/ Continue(p) \/ Fault(p)
    \/ Script
    \/ World

Spec == Init /\ [][Next]_vars

-----------------------------------------------------------------------------
(* Properties. *)

TypeOK ==
    /\ helper \in Helper
    /\ on \subseteq Devices
    /\ snap = None \/ snap \in SUBSET Devices
    /\ proc \in [Procs -> Command]
    /\ clean \in Procs \cup {None}
    /\ off \subseteq Devices \ on
    /\ preps \in 0..2
    /\ calm \in BOOLEAN
    /\ orphaned \in BOOLEAN
    /\ Exists <=> helper.by # None

Ends(p) == proc[p].pc # "idle" /\ proc'[p].pc = "idle"

\* The next two are about a command that nothing disturbed but leftovers of
\* killed ones, among them a helper that still runs its script.

\* A prep that exits with success leaves no swap on, although the exit code it
\* looks at says nothing about the script.
PrepDelivers ==
    [][\A p \in Procs :
        (clean = p /\ Ends(p) /\ proc[p].verb = "prep" /\ proc'[p].exit = "ok")
            => on' = {}]_vars

\* After one prep, a restore that exits with success has turned on all that scripts
\* turned off, unless something disturbed a script (calm), however many commands
\* were killed.
RestoreDelivers ==
    [][\A p \in Procs :
        ( /\ clean = p /\ Ends(p) /\ proc[p].verb = "restore" /\ proc'[p].exit = "ok"
          /\ calm /\ preps <= 1 )
            => off' = {}]_vars

\* Whichever way a command ends once it has created the helper, it has tried to remove
\* it: what is left when all are done was left by a command that was cut short or by a
\* removal that failed, even when commands take each other's helper away.
NoHelperLeft == (AllIdle /\ ~orphaned) => ~Exists

=============================================================================
