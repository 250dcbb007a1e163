---------------------------- MODULE HostPrepLinux ----------------------------
(***************************************************************************)
(* vabbe host-prep --run and vabbe host-prep --restore --run on Linux: the *)
(* swap devices of the host and the snapshot file that --restore replays.  *)
(* Every command vabbe runs may fail, and vabbe goes on; only swap is      *)
(* modelled: modprobe and sysctl touch nothing that --restore looks at.    *)
(***************************************************************************)
EXTENDS Naturals, FiniteSets

CONSTANTS
    Procs,      \* root's terminals
    Devices,    \* swap devices and files
    Fstab,      \* those that a boot and `swapon -a' turn on
    None        \* no snapshot file

ASSUME HostAssumption ==
    /\ Fstab \subseteq Devices
    /\ \A S \in SUBSET Devices : S # None

VARIABLES
    on,         \* the active swap devices
    snap,       \* the snapshot file: the devices it lists, or None
    proc,       \* the command each terminal runs
    off,        \* history: what host-prep turned off and nobody on again
    preps,      \* history: preps started since off was last empty, up to 2
    calm        \* history: no call failed and nothing overlapped since then

vars == <<on, snap, proc, off, preps, calm>>

PrepPcs == {"list", "open", "write", "swapoff"}
RestorePcs == {"read", "swapon"}

\* todo: what swapon --show listed, or what is left to turn on.
Command == [pc : {"idle"} \cup PrepPcs \cup RestorePcs, todo : SUBSET Devices]

Idle == [pc |-> "idle", todo |-> {}]
AllIdle == \A p \in Procs : proc[p].pc = "idle"

Goto(p, pc, todo) == proc' = [proc EXCEPT ![p] = [pc |-> pc, todo |-> todo]]

-----------------------------------------------------------------------------
(* host-prep --run: saveLinuxSwapState, then swapoff -a. *)

StartPrep(p) ==
    /\ proc[p].pc = "idle"
    /\ Goto(p, "list", {})
    /\ UNCHANGED <<on, snap>>

ListSwap(p) ==
    /\ proc[p].pc = "list"
    /\ Goto(p, "open", on)
    /\ UNCHANGED <<on, snap>>

\* WriteFile empties the file, whatever an earlier run had put there, ...
OpenSnap(p) ==
    /\ proc[p].pc = "open"
    /\ snap' = {}
    /\ Goto(p, "write", proc[p].todo)
    /\ UNCHANGED on

\* ... and writes it.
WriteSnap(p) ==
    /\ proc[p].pc = "write"
    /\ snap' = proc[p].todo
    /\ Goto(p, "swapoff", {})
    /\ UNCHANGED on

\* A device whose pages do not fit into memory stays on; host-prep goes on.
SwapOff(p) ==
    /\ proc[p].pc = "swapoff"
    /\ on' \in SUBSET on
    /\ Goto(p, "idle", {})
    /\ UNCHANGED snap

\* swapon --show or the writing of the file fails: swapoff -a comes next.
SaveFails(p) ==
    /\ proc[p].pc \in {"list", "open", "write"}
    /\ Goto(p, "swapoff", {})
    /\ UNCHANGED <<on, snap>>

-----------------------------------------------------------------------------
(* host-prep --restore --run: restoreLinux. *)

StartRestore(p) ==
    /\ proc[p].pc = "idle"
    /\ Goto(p, "read", {})
    /\ UNCHANGED <<on, snap>>

\* Mutants of ReadSnap: no snapshot is looked for; an empty one is taken
\* for a list with an empty name.
ReadSnapNever(p) ==
    /\ proc[p].pc = "read"
    /\ Goto(p, "swapon", Fstab)
    /\ UNCHANGED <<on, snap>>
ReadSnapSplit(p) ==
    /\ proc[p].pc = "read"
    /\ Goto(p, "swapon", IF snap = None \/ snap = {} THEN {None} ELSE snap)
    /\ UNCHANGED <<on, snap>>

\* The listed devices, or those of swapon -a when none is listed.
ReadSnap(p) ==
    /\ proc[p].pc = "read"
    /\ Goto(p, "swapon", IF snap = None \/ snap = {} THEN Fstab ELSE snap)
    /\ UNCHANGED <<on, snap>>

\* One after the other; a failure is reported and skipped.
SwapOn(p) ==
    /\ proc[p].pc = "swapon"
    /\ \/ \E d \in proc[p].todo :
             /\ on' \in {on, on \cup {d}}
             /\ Goto(p, "swapon", proc[p].todo \ {d})
       \/ proc[p].todo = {} /\ Goto(p, "idle", {}) /\ UNCHANGED on
    /\ UNCHANGED snap

-----------------------------------------------------------------------------
(* The rest of the world. *)

Killed(p) ==
    /\ proc[p].pc # "idle"
    /\ Goto(p, "idle", {})
    /\ UNCHANGED <<on, snap>>

\* The snapshot is in the temporary directory, which a boot may empty.
Reboot ==
    /\ on' = Fstab
    /\ snap' \in {snap, None}
    /\ proc' = [p \in Procs |-> Idle]

\* Somebody runs swapon or swapoff.
Admin ==
    /\ \E d \in Devices : on' \in {on \cup {d}, on \ {d}}
    /\ on' # on
    /\ UNCHANGED <<snap, proc>>

-----------------------------------------------------------------------------
Begin(p) ==
    /\ StartPrep(p) \/ StartRestore(p)
    /\ off' = off
    /\ preps' = IF proc'[p].pc = "read" THEN preps
                ELSE IF off = {} /\ AllIdle THEN 1 ELSE 2
    /\ calm' = (AllIdle /\ (calm \/ off = {}))

\* A swapoff or swapon that leaves a device as it was has failed.
Refused(p) ==
    \/ proc[p].pc = "swapoff" /\ on' # {}
    \/ proc[p].pc = "swapon" /\ ~(proc[p].todo \ proc'[p].todo \subseteq on')

Step(p) ==
    /\ \/ ListSwap(p) \/ OpenSnap(p) \/ WriteSnap(p) \/ SwapOff(p)
       \/ ReadSnap(p) \/ SwapOn(p)
    /\ off' = (off \cup (on \ on')) \ on'
    /\ preps' = preps
    /\ calm' = (calm /\ ~Refused(p))

Fault(p) ==
    /\ SaveFails(p) \/ Killed(p)
    /\ off' = off
    /\ preps' = preps
    /\ calm' = FALSE

\* What is on after a boot is no longer host-prep's doing.
World ==
    /\ \/ Reboot /\ off' = {}
       \/ Admin /\ off' = off \ on'
    /\ preps' = preps
    /\ calm' = (calm /\ AllIdle)

Init ==
    /\ on \in {Fstab, Devices}
    /\ snap = None
    /\ proc = [p \in Procs |-> Idle]
    /\ off = {}
    /\ preps = 0
    /\ calm = TRUE

Next == (\E p \in Procs : Begin(p) \/ Step(p) \/ Fault(p)) \/ World

Spec == Init /\ [][Next]_vars

-----------------------------------------------------------------------------
(* Properties. *)

TypeOK ==
    /\ on \subseteq Devices
    /\ snap = None \/ snap \in SUBSET Devices
    /\ proc \in [Procs -> Command]
    /\ off \subseteq Devices \ on
    /\ preps \in 0..2
    /\ calm \in BOOLEAN

\* The last step of a restore.
Restored(p) == proc[p].pc = "swapon" /\ proc'[p].pc = "idle" /\ calm'

\* Host-prep, run once, can be undone: a restore that no failing call and no other
\* command disturbed turns on all that the prep had turned off.
ReversibleOnce ==
    [][\A p \in Procs : (Restored(p) /\ preps <= 1) => off' = {}]_vars

\* What docs/host-prep.md says without that restriction: "Reversible. `vabbe
\* host-prep --restore` re-enables the swap it disabled."  A second prep lists what
\* is on by then and overwrites the snapshot with that.
Reversible == [][\A p \in Procs : Restored(p) => off' = {}]_vars

=============================================================================
