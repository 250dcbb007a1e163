------------------------ MODULE HostPrepLinux_proofs ------------------------
(***************************************************************************)
(* Proofs about HostPrepLinux, for any number of terminals and devices.    *)
(***************************************************************************)
EXTENDS HostPrepLinux, TLAPS

USE DEF PrepPcs, RestorePcs

\* What a command knows while nothing went wrong: a prep starts with nothing to undo
\* and lists what is on; a restore still has on its list all that is off.
Knows(p) ==
    /\ proc[p].pc \in PrepPcs => off = {}
    /\ proc[p].pc \in {"open", "write"} => proc[p].todo = on
    /\ proc[p].pc = "swapoff" => snap = on
    /\ proc[p].pc = "swapon" => off \subseteq proc[p].todo

\* Calls that do not fail, one command at a time, and one prep.
Orderly == calm /\ preps <= 1

Undoable ==
    /\ \A p, q \in Procs : (proc[p].pc # "idle" /\ proc[q].pc # "idle") => p = q
    /\ off # {} => snap # None /\ off \subseteq snap
    /\ \A p \in Procs : Knows(p)

IInv == TypeOK /\ (Orderly => Undoable)

LEMMA InitInv == Init => IInv
<1> SUFFICES ASSUME Init PROVE IInv
  OBVIOUS
<1>1. proc \in [Procs -> Command] /\ \A p \in Procs : proc[p].pc = "idle"
  BY DEF Init, Idle, Command
<1>2. on \subseteq Devices /\ off \subseteq Devices \ on
  BY HostAssumption DEF Init
<1>3. snap = None /\ preps \in 0..2 /\ off = {}
  BY DEF Init
<1>4. calm \in BOOLEAN
  BY DEF Init
<1> QED BY <1>1, <1>2, <1>3, <1>4 DEF IInv, TypeOK, Undoable, Knows

\* A command moves to pc with the list todo.
LEMMA GotoTyped ==
    ASSUME TypeOK, NEW p \in Procs, NEW pc \in {"idle"} \cup PrepPcs \cup RestorePcs,
           NEW todo \in SUBSET Devices, Goto(p, pc, todo)
    PROVE  /\ proc' \in [Procs -> Command]
           /\ proc'[p].pc = pc /\ proc'[p].todo = todo
           /\ \A q \in Procs \ {p} : proc'[q] = proc[q]
BY DEF TypeOK, Goto, Command

-----------------------------------------------------------------------------
LEMMA BeginInv ==
    ASSUME IInv, NEW p \in Procs, Begin(p)
    PROVE  IInv'
<1>1. PICK pc \in {"list", "read"} : Goto(p, pc, {}) /\ proc[p].pc = "idle"
  BY DEF Begin, StartPrep, StartRestore
<1>2. /\ proc' \in [Procs -> Command] /\ proc'[p].pc = pc
      /\ \A q \in Procs \ {p} : proc'[q] = proc[q]
      /\ UNCHANGED <<on, snap, off>>
  BY <1>1, GotoTyped DEF Begin, StartPrep, StartRestore, IInv
<1>3. preps' \in 0..2
  BY DEF Begin, IInv, TypeOK
<1>4. calm' \in BOOLEAN
  BY DEF Begin, AllIdle
<1>5. TypeOK'
  BY <1>2, <1>3, <1>4 DEF IInv, TypeOK
<1>6. ASSUME Orderly' PROVE Undoable'
  <2>1. AllIdle /\ (calm \/ off = {})
    BY <1>6 DEF Begin, Orderly
  <2>2. \A q \in Procs \ {p} : proc'[q].pc = "idle"
    BY <1>2, <2>1 DEF AllIdle
  <2>3. pc = "list" => off = {}
    BY <1>2, <1>6, <2>1 DEF Begin, Orderly
  <2>4. off # {} => snap # None /\ off \subseteq snap
    <3>1. CASE off = {}
      BY <3>1
    <3>2. CASE off # {}
      BY <1>2, <1>6, <2>1, <2>3, <3>2 DEF Begin, Orderly, IInv, Undoable
    <3> QED BY <3>1, <3>2
  <2> QED BY <1>2, <2>2, <2>3, <2>4 DEF Undoable, Knows
<1> QED BY <1>5, <1>6 DEF IInv

\* What every step of a command keeps, and what is left to show of it.
LEMMA StepTyped ==
    ASSUME IInv, NEW p \in Procs, Step(p)
    PROVE  /\ TypeOK'
           /\ \A q \in Procs \ {p} : proc'[q] = proc[q]
           /\ Orderly' => /\ Orderly /\ Undoable /\ ~Refused(p)
                          /\ \A q \in Procs \ {p} : proc'[q].pc = "idle"
           /\ off' = (off \cup (on \ on')) \ on'
<1> USE DEF IInv
<1>1. proc[p].todo \in SUBSET Devices
  BY DEF TypeOK, Command
<1>2. /\ proc' \in [Procs -> Command] /\ \A q \in Procs \ {p} : proc'[q] = proc[q]
      /\ proc[p].pc # "idle"
      /\ on' \subseteq Devices
      /\ snap' = None \/ snap' \in SUBSET Devices
  <2>1. CASE ListSwap(p)
    BY <2>1, GotoTyped DEF ListSwap, TypeOK
  <2>2. CASE OpenSnap(p)
    BY <1>1, <2>2, GotoTyped DEF OpenSnap, TypeOK
  <2>3. CASE WriteSnap(p)
    BY <1>1, <2>3, GotoTyped DEF WriteSnap, TypeOK
  <2>4. CASE SwapOff(p)
    BY <2>4, GotoTyped DEF SwapOff, TypeOK
  <2>5. CASE ReadSnap(p)
    <3>1. (IF snap = None \/ snap = {} THEN Fstab ELSE snap) \in SUBSET Devices
      BY HostAssumption DEF TypeOK
    <3> QED BY <2>5, <3>1, GotoTyped DEF ReadSnap, TypeOK
  <2>6. CASE SwapOn(p)
    <3>1. ASSUME NEW d \in proc[p].todo, on' \in {on, on \cup {d}},
                 Goto(p, "swapon", proc[p].todo \ {d})
          PROVE  /\ proc' \in [Procs -> Command] /\ \A q \in Procs \ {p} : proc'[q] = proc[q]
                 /\ on' \subseteq Devices
      <4>1. proc[p].todo \ {d} \in SUBSET Devices /\ d \in Devices
        BY <1>1, <3>1
      <4>2. on' \subseteq Devices
        BY <3>1, <4>1 DEF TypeOK
      <4> QED BY <3>1, <4>1, <4>2, GotoTyped
    <3>2. CASE Goto(p, "idle", {}) /\ UNCHANGED on
      BY <2>6, <3>2, GotoTyped DEF SwapOn, TypeOK
    <3> QED BY <2>6, <3>1, <3>2 DEF SwapOn, TypeOK
  <2> QED BY <2>1, <2>2, <2>3, <2>4, <2>5, <2>6 DEF Step
<1>3. off' = (off \cup (on \ on')) \ on' /\ preps' = preps /\ calm' = (calm /\ ~Refused(p))
  BY DEF Step
<1>4. calm' \in BOOLEAN
  BY <1>3
<1>5. TypeOK'
  BY <1>2, <1>3, <1>4 DEF TypeOK
<1>6. Orderly' => Orderly /\ Undoable /\ ~Refused(p)
  BY <1>3 DEF Orderly
<1>7. Undoable => \A q \in Procs \ {p} : proc'[q].pc = "idle"
  BY <1>2 DEF Undoable
<1> QED BY <1>2, <1>3, <1>5, <1>6, <1>7

LEMMA StepInv ==
    ASSUME IInv, NEW p \in Procs, Step(p)
    PROVE  IInv'
<1> SUFFICES ASSUME Orderly' PROVE Undoable'
  BY StepTyped DEF IInv
<1>1. /\ Undoable /\ ~Refused(p) /\ \A q \in Procs \ {p} : proc'[q].pc = "idle"
      /\ off' = (off \cup (on \ on')) \ on'
      /\ \A q \in Procs \ {p} : proc'[q] = proc[q]
  BY StepTyped
<1>2. SUFFICES Knows(p)' /\ (off' # {} => snap' # None /\ off' \subseteq snap')
  BY <1>1 DEF Undoable, Knows
<1>3. Knows(p) /\ (off # {} => snap # None /\ off \subseteq snap) /\ off \cap on = {}
  BY <1>1 DEF Undoable, IInv, TypeOK
<1>4. proc[p].todo \in SUBSET Devices
  BY DEF IInv, TypeOK, Command
<1>5. CASE ListSwap(p)
  <2>1. proc'[p].pc = "open" /\ proc'[p].todo = on
    BY <1>5, GotoTyped DEF ListSwap, IInv, TypeOK
  <2> QED BY <1>1, <1>3, <1>5, <2>1 DEF ListSwap, Knows
<1>6. CASE OpenSnap(p)
  <2>1. proc'[p].pc = "write" /\ proc'[p].todo = proc[p].todo
    BY <1>4, <1>6, GotoTyped DEF OpenSnap, IInv
  <2> QED BY <1>1, <1>3, <1>6, <2>1 DEF OpenSnap, Knows
<1>7. CASE WriteSnap(p)
  <2>1. proc'[p].pc = "swapoff"
    BY <1>7, GotoTyped DEF WriteSnap, IInv
  <2> QED BY <1>1, <1>3, <1>7, <2>1 DEF WriteSnap, Knows
<1>8. CASE SwapOff(p)
  <2>1. proc'[p].pc = "idle"
    BY <1>8, GotoTyped DEF SwapOff, IInv
  <2>2. on' = {} /\ off = {} /\ snap = on /\ snap' = snap
    BY <1>1, <1>3, <1>8 DEF SwapOff, Refused, Knows
  <2>3. off' \subseteq snap' /\ (off' # {} => snap' # None)
    BY <1>1, <2>2, HostAssumption DEF IInv, TypeOK
  <2> QED BY <2>1, <2>3 DEF Knows
<1>9. CASE ReadSnap(p)
  <2> DEFINE todo == IF snap = None \/ snap = {} THEN Fstab ELSE snap
  <2>1. todo \in SUBSET Devices
    BY HostAssumption DEF IInv, TypeOK
  <2>2. off \subseteq todo
    BY <1>3
  <2>3. Goto(p, "swapon", todo) /\ UNCHANGED <<on, snap>>
    BY <1>9 DEF ReadSnap
  <2> HIDE DEF todo
  <2>4. proc'[p].pc = "swapon" /\ proc'[p].todo = todo
    BY <2>1, <2>3, GotoTyped DEF IInv
  <2> QED BY <1>1, <1>3, <2>2, <2>3, <2>4 DEF Knows
<1>10. CASE SwapOn(p)
  <2>1. UNCHANGED snap /\ proc[p].pc = "swapon" /\ off \subseteq proc[p].todo
    BY <1>3, <1>10 DEF SwapOn, Knows
  <2>2. ASSUME NEW d \in proc[p].todo, on' \in {on, on \cup {d}},
               Goto(p, "swapon", proc[p].todo \ {d})
        PROVE  Knows(p)' /\ off' \subseteq off
    <3>1. proc'[p].pc = "swapon" /\ proc'[p].todo = proc[p].todo \ {d}
      BY <1>4, <2>2, GotoTyped DEF IInv
    <3>2. d \in on'
      BY <1>1, <2>1, <3>1, <2>2 DEF Refused
    <3>3. off' \subseteq off /\ off' \subseteq proc'[p].todo
      BY <1>1, <2>1, <2>2, <3>1, <3>2
    <3> QED BY <3>1, <3>3 DEF Knows
  <2>3. CASE Goto(p, "idle", {}) /\ UNCHANGED on
    <3>1. proc'[p].pc = "idle"
      BY <2>3, GotoTyped DEF IInv
    <3> QED BY <1>1, <1>3, <2>1, <2>3, <3>1 DEF Knows
  <2> QED BY <1>3, <1>10, <2>1, <2>2, <2>3 DEF SwapOn
<1> QED BY <1>5, <1>6, <1>7, <1>8, <1>9, <1>10 DEF Step

\* A failing call or a kill: no promise any more.
LEMMA FaultInv ==
    ASSUME IInv, NEW p \in Procs, Fault(p)
    PROVE  IInv'
<1>1. PICK pc \in {"idle", "swapoff"} : Goto(p, pc, {}) /\ UNCHANGED <<on, snap>>
  BY DEF Fault, SaveFails, Killed
<1>2. proc' \in [Procs -> Command]
  BY <1>1, GotoTyped DEF IInv
<1>3. calm' \in BOOLEAN /\ ~Orderly'
  BY DEF Fault, Orderly
<1> QED BY <1>1, <1>2, <1>3 DEF Fault, IInv, TypeOK

LEMMA WorldInv ==
    ASSUME IInv, World
    PROVE  IInv'
<1>1. proc' \in [Procs -> Command] /\ (AllIdle => \A p \in Procs : proc'[p].pc = "idle")
  BY DEF World, Reboot, Admin, AllIdle, Idle, Command, IInv, TypeOK
<1>2. on' \subseteq Devices /\ snap' \in {snap, None}
  BY HostAssumption DEF World, Reboot, Admin, IInv, TypeOK
<1>3. off' \subseteq Devices \ on'
  BY <1>2 DEF World, IInv, TypeOK
<1>4. calm' \in BOOLEAN /\ preps' = preps
  BY DEF World
<1>5. TypeOK'
  BY <1>1, <1>2, <1>3, <1>4 DEF IInv, TypeOK
<1>6. ASSUME Orderly' PROVE Undoable'
  <2>1. AllIdle /\ Undoable
    BY <1>4, <1>6 DEF World, Orderly, IInv
  <2>2. off' = {} \/ (off' \subseteq off /\ snap' = snap)
    BY DEF World, Admin
  <2> QED BY <1>1, <2>1, <2>2 DEF Undoable, Knows
<1> QED BY <1>5, <1>6 DEF IInv

LEMMA NextInv == IInv /\ [Next]_vars => IInv'
<1> SUFFICES ASSUME IInv, [Next]_vars PROVE IInv'
  OBVIOUS
<1>1. CASE UNCHANGED vars
  BY <1>1 DEF vars, IInv, TypeOK, Orderly, Undoable, Knows
<1> QED BY <1>1, BeginInv, StepInv, FaultInv, WorldInv DEF Next

\* The inductive invariant: types, and what an undisturbed snapshot still restores.
THEOREM Invariance == Spec => []IInv
BY InitInv, NextInv, PTL DEF Spec

\* Every state is well typed.
THEOREM TypeCorrect == Spec => []TypeOK
BY Invariance, PTL DEF IInv

\* A prep, run once, can be undone, for any devices, any fstab and any number of
\* terminals: a restore that no failing call and no other command disturbed turns on all
\* that the prep turned off, whatever happened before the prep.
THEOREM UndoneOnce == Spec => ReversibleOnce
<1>1. ASSUME IInv, [Next]_vars
      PROVE  \A p \in Procs : (Restored(p) /\ preps <= 1) => off' = {}
  <2>1. SUFFICES ASSUME NEW p \in Procs, Restored(p), preps <= 1
                 PROVE  off' = {}
    OBVIOUS
  <2>2. proc[p].pc = "swapon" /\ proc'[p].pc = "idle" /\ calm' /\ proc'[p] # proc[p]
    BY <2>1 DEF Restored
  <2>3. CASE World
    BY <2>2, <2>3 DEF World, Admin
  <2>4. ASSUME NEW q \in Procs, Begin(q) PROVE FALSE
    <3>1. proc[q].pc = "idle" /\ AllIdle
      BY <2>2, <2>4 DEF Begin, StartPrep, StartRestore
    <3> QED BY <2>2, <3>1 DEF AllIdle
  <2>5. ASSUME NEW q \in Procs, Fault(q) PROVE FALSE
    BY <2>2, <2>5 DEF Fault
  <2>6. ASSUME NEW q \in Procs, Step(q) PROVE off' = {}
    <3>1. q = p
      BY <1>1, <2>2, <2>6, StepTyped
    <3>2. calm
      BY <2>2, <2>6 DEF Step
    <3>3. Undoable
      BY <1>1, <2>1, <3>2 DEF IInv, Orderly
    <3>4. SwapOn(p)
      BY <2>2, <2>6, <3>1 DEF Step, ListSwap, OpenSnap, WriteSnap, SwapOff, ReadSnap
    <3>5. ASSUME NEW d \in proc[p].todo, Goto(p, "swapon", proc[p].todo \ {d}) PROVE FALSE
      <4>1. proc[p].todo \ {d} \in SUBSET Devices
        BY <1>1 DEF IInv, TypeOK, Command
      <4> QED BY <1>1, <2>2, <3>5, <4>1, GotoTyped DEF IInv
    <3>6. proc[p].todo = {} /\ UNCHANGED on
      BY <3>4, <3>5 DEF SwapOn
    <3>7. off = {}
      BY <2>2, <3>3, <3>6 DEF Undoable, Knows
    <3> QED BY <2>6, <3>6, <3>7 DEF Step
  <2>7. proc' # proc
    BY <2>2
  <2> QED BY <1>1, <2>3, <2>4, <2>5, <2>6, <2>7 DEF Next, vars
<1> QED BY <1>1, Invariance, PTL DEF Spec, ReversibleOnce
=============================================================================
