----------------------- MODULE HostPrepDesktop_proofs -----------------------
(***************************************************************************)
(* Proofs about HostPrepDesktop, for any number of terminals and devices.  *)
(***************************************************************************)
EXTENDS HostPrepDesktop, TLAPS

\* The terminals that still have to remove the helper they made.
Minding == {p \in Procs : proc[p].pc \in {"wait", "start", "logs", "judge", "cleanup"}}

\* A helper nobody was cut short over is minded by its maker.
Minded == (Exists /\ ~orphaned) => helper.by \in Minding

IInv == TypeOK /\ Minded

LEMMA InitInv == Init => IInv
<1> SUFFICES ASSUME Init PROVE IInv
  OBVIOUS
<1>1. helper \in Helper /\ ~Exists /\ helper.by = None
  BY DEF Init, Exists, NoHelper, Helper, Verbs
<1>2. proc \in [Procs -> Command]
  BY DEF Init, Idle, Command, Verbs
<1>3. on \subseteq Devices /\ off \subseteq Devices \ on /\ snap = None
  BY DesktopAssumption DEF Init
<1>4. clean \in Procs \cup {None} /\ preps \in 0..2
  BY DEF Init
<1>5. calm \in BOOLEAN /\ orphaned \in BOOLEAN
  BY DEF Init
<1>6. Exists <=> helper.by # None
  BY <1>1
<1> QED BY <1>1, <1>2, <1>3, <1>4, <1>5, <1>6 DEF IInv, TypeOK, Minded

-----------------------------------------------------------------------------
(* How a step changes the commands. *)

LEMMA GotoTyped ==
    ASSUME TypeOK, NEW p \in Procs, NEW pc \in {"clear", "create", "wait", "start", "logs",
                                                "judge", "cleanup"}, Goto(p, pc)
    PROVE  /\ proc' \in [Procs -> Command] /\ proc'[p].pc = pc
           /\ \A q \in Procs \ {p} : proc'[q] = proc[q]
BY DEF TypeOK, Goto, Command

LEMMA LeaveTyped ==
    ASSUME TypeOK, NEW p \in Procs, NEW code \in {"ok", "error"}, Leave(p, code)
    PROVE  /\ proc' \in [Procs -> Command] /\ proc'[p].pc = "cleanup"
           /\ \A q \in Procs \ {p} : proc'[q] = proc[q]
<1> DEFINE r == [proc[p] EXCEPT !.pc = "cleanup", !.exit = code]
<1>1. proc[p] \in Command
  BY DEF TypeOK
<1>2. r \in Command /\ r.pc = "cleanup"
  BY <1>1 DEF Command
<1> HIDE DEF r
<1>3. proc' = [proc EXCEPT ![p] = r]
  BY DEF Leave, r
<1> QED BY <1>2, <1>3 DEF TypeOK

LEMMA ExitTyped ==
    ASSUME TypeOK, NEW p \in Procs, NEW code \in {"none", "ok", "error"}, Exit(p, code)
    PROVE  /\ proc' \in [Procs -> Command] /\ proc'[p].pc = "idle"
           /\ \A q \in Procs \ {p} : proc'[q] = proc[q]
BY DEF TypeOK, Exit, Idle, Command, Verbs

\* What a command or a fault must do to the helper and the commands to keep IInv.
Keeps ==
    /\ helper' \in Helper
    /\ Exists' <=> helper'.by # None
    /\ proc' \in [Procs -> Command]
    /\ Minded'

\* A step of p that leaves the helper alone, and p minding if p was.
LEMMA GoesOn ==
    ASSUME IInv, NEW p \in Procs, UNCHANGED helper, orphaned => orphaned' \/ ~Exists',
           proc' \in [Procs -> Command], \A q \in Procs \ {p} : proc'[q] = proc[q],
           p \in Minding => p \in Minding' \/ ~Mine(p) \/ orphaned'
    PROVE  Keeps
<1>1. \A q \in Procs \ {p} : q \in Minding => q \in Minding'
  BY DEF Minding
<1>2. Minded'
  <2>1. SUFFICES ASSUME Exists', ~orphaned' PROVE helper'.by \in Minding'
    BY DEF Minded
  <2>2. Exists /\ helper.by \in Minding
    BY <2>1 DEF IInv, Minded, Exists
  <2>3. CASE helper.by = p
    BY <2>1, <2>2, <2>3 DEF Mine
  <2>4. CASE helper.by # p
    BY <1>1, <2>2, <2>4 DEF Minding
  <2> QED BY <2>3, <2>4
<1> QED BY <1>2 DEF IInv, TypeOK, Keeps, Exists

\* The helper is removed.
LEMMA Gone ==
    ASSUME helper' = NoHelper, proc' \in [Procs -> Command]
    PROVE  Keeps
BY DEF Keeps, NoHelper, Helper, Verbs, Minded, Exists

-----------------------------------------------------------------------------
(* The steps. *)

LEMMA CliKeeps ==
    ASSUME IInv, NEW p \in Procs, CliStep(p),
           orphaned' = ((orphaned \/ RemovalFails(p)) /\ Exists')
    PROVE  Keeps
<1> USE DEF IInv
<1>1. CASE ClearLeftover(p)
  <2>1. /\ proc' \in [Procs -> Command] /\ \A q \in Procs \ {p} : proc'[q] = proc[q]
    BY <1>1, GotoTyped DEF ClearLeftover
  <2>2. CASE helper' = NoHelper
    BY <2>1, <2>2, Gone
  <2>3. CASE helper' = helper
    BY <1>1, <2>1, <2>3, GoesOn DEF ClearLeftover, Minding
  <2> QED BY <1>1, <2>2, <2>3 DEF ClearLeftover
<1>2. CASE CreateHelper(p)
  <2>1. CASE Exists
    <3>1. Exit(p, "error") /\ UNCHANGED helper
      BY <1>2, <2>1 DEF CreateHelper
    <3> QED BY <1>2, <3>1, ExitTyped, GoesOn DEF CreateHelper, Minding
  <2>2. CASE ~Exists
    <3>1. /\ helper' = [NoHelper EXCEPT !.state = "created", !.by = p, !.verb = proc[p].verb]
          /\ Goto(p, "wait")
      BY <1>2, <2>2 DEF CreateHelper
    <3>2. proc' \in [Procs -> Command] /\ proc'[p].pc = "wait"
      BY <3>1, GotoTyped
    <3>3. proc[p].verb \in Verbs
      BY DEF TypeOK, Command
    <3>4. helper' = [state |-> "created", by |-> p, verb |-> proc[p].verb, at |-> "exec",
                     todo |-> {}, marked |-> FALSE]
      BY <3>1 DEF NoHelper
    <3>5. helper' \in Helper /\ helper'.by = p /\ Exists'
      BY <3>3, <3>4 DEF Helper, Exists
    <3>6. p \in Minding' /\ p # None
      BY <3>2, DesktopAssumption DEF Minding
    <3> QED BY <3>2, <3>5, <3>6 DEF Keeps, Minded
  <2> QED BY <2>1, <2>2
<1>3. CASE WaitHelper(p)
  BY <1>3, GotoTyped, GoesOn DEF WaitHelper, Minding
<1>4. CASE StartHelper(p)
  <2>1. CASE Mine(p) /\ helper' = [helper EXCEPT !.state = "running"] /\ Goto(p, "logs")
    <3>1. proc' \in [Procs -> Command] /\ proc'[p].pc = "logs"
      BY <2>1, GotoTyped
    <3>2. helper' \in Helper /\ helper'.by = helper.by /\ Exists'
      BY <2>1 DEF TypeOK, Helper, Exists
    <3>3. helper.by = p /\ p \in Minding'
      BY <2>1, <3>1 DEF Mine, Minding
    <3> QED BY <3>1, <3>2, <3>3, DesktopAssumption DEF Keeps, Minded
  <2>2. CASE Leave(p, "error") /\ UNCHANGED helper
    BY <2>2, LeaveTyped, GoesOn DEF Minding
  <2> QED BY <1>4, <2>1, <2>2 DEF StartHelper
<1>5. CASE ReadLogs(p)
  <2>1. UNCHANGED helper
    BY <1>5 DEF ReadLogs
  <2>2. (Mine(p) /\ helper.marked) \in BOOLEAN
    BY DEF Mine, Exists
  <2>3. PICK b \in BOOLEAN : proc' = [proc EXCEPT ![p].pc = "judge", ![p].out = b]
    BY <1>5, <2>2 DEF ReadLogs
  <2> DEFINE r == [proc[p] EXCEPT !.pc = "judge", !.out = b]
  <2>4. proc' = [proc EXCEPT ![p] = r]
    BY <2>3
  <2>5. r \in Command /\ r.pc = "judge"
    BY DEF TypeOK, Command
  <2> HIDE DEF r
  <2>6. /\ proc' \in [Procs -> Command] /\ proc'[p].pc = "judge"
        /\ \A q \in Procs \ {p} : proc'[q] = proc[q]
    BY <2>4, <2>5 DEF TypeOK
  <2> QED BY <2>1, <2>6, GoesOn DEF Minding
<1>6. CASE Judge(p)
  <2>1. PICK code \in {"ok", "error"} : Leave(p, code)
    BY <1>6 DEF Judge
  <2> QED BY <1>6, <2>1, LeaveTyped, GoesOn DEF Judge, Minding
<1>7. CASE RemoveHelper(p)
  <2>1. proc[p].exit \in {"none", "ok", "error"}
    BY DEF TypeOK, Command
  <2>2. proc' \in [Procs -> Command] /\ \A q \in Procs \ {p} : proc'[q] = proc[q]
    BY <1>7, <2>1, ExitTyped DEF RemoveHelper
  <2>3. CASE Mine(p) /\ helper' = NoHelper
    BY <2>2, <2>3, Gone
  <2>4. CASE Mine(p) /\ UNCHANGED helper
    <3>1. orphaned'
      BY <1>7, <2>4 DEF RemoveHelper, RemovalFails, Mine, Exists
    <3> QED BY <2>2, <2>4, <3>1, GoesOn
  <2>5. CASE ~Mine(p)
    BY <1>7, <2>2, <2>5, GoesOn DEF RemoveHelper
  <2> QED BY <1>7, <2>3, <2>4, <2>5 DEF RemoveHelper
<1> QED BY <1>1, <1>2, <1>3, <1>4, <1>5, <1>6, <1>7 DEF CliStep

\* The helper's script runs on whatever its maker does, and keeps to its own.
LEMMA ScriptTyped ==
    ASSUME IInv, ScriptStep
    PROVE  /\ helper' \in Helper /\ helper'.by = helper.by /\ Exists /\ Exists'
           /\ on' \subseteq Devices
           /\ snap' = None \/ snap' \in SUBSET Devices
<1>1. helper \in Helper /\ helper.state = "running"
  BY DEF IInv, TypeOK, ScriptStep, EnterVM, Snapshot, SwapOff, SwapOn, EchoMarker, At
<1>2. Replay \in SUBSET Devices
  BY DesktopAssumption DEF Replay, IInv, TypeOK
<1>3. CASE EnterVM
  <2>1. UNCHANGED vm
    BY <1>3 DEF EnterVM
  <2>2. CASE Proceed("list") \/ Dies
    BY <1>1, <2>1, <2>2 DEF vm, Proceed, Dies, Helper, Exists, IInv, TypeOK
  <2>3. CASE helper' = [helper EXCEPT !.at = "swapon", !.todo = Replay]
    BY <1>1, <1>2, <2>1, <2>3 DEF vm, Helper, Exists, IInv, TypeOK
  <2> QED BY <1>3, <2>2, <2>3 DEF EnterVM
<1>4. CASE Snapshot
  BY <1>1, <1>4 DEF Snapshot, Proceed, Helper, Exists, IInv, TypeOK
<1>5. CASE SwapOff
  BY <1>1, <1>5 DEF SwapOff, Proceed, Dies, Helper, Exists, IInv, TypeOK
<1>6. CASE SwapOn
  <2>1. UNCHANGED snap
    BY <1>6 DEF SwapOn
  <2>2. ASSUME NEW d \in helper.todo, on' \in {on, on \cup {d}},
               helper' = [helper EXCEPT !.todo = @ \ {d}]
        PROVE  /\ helper' \in Helper /\ helper'.by = helper.by /\ Exists /\ Exists'
               /\ on' \subseteq Devices
    <3>1. helper.todo \in SUBSET Devices
      BY <1>1 DEF Helper
    <3>2. helper.todo \ {d} \in SUBSET Devices /\ on' \subseteq Devices
      BY <2>2, <3>1 DEF IInv, TypeOK
    <3> QED BY <1>1, <2>2, <3>2 DEF Helper, Exists
  <2>3. CASE Proceed("echo") /\ UNCHANGED on
    BY <1>1, <2>1, <2>3 DEF Proceed, Helper, Exists, IInv, TypeOK
  <2> QED BY <1>6, <2>1, <2>2, <2>3 DEF SwapOn, IInv, TypeOK
<1>7. CASE EchoMarker
  <2>1. UNCHANGED vm
    BY <1>7 DEF EchoMarker
  <2>2. helper' = [state |-> "exited", by |-> helper.by, verb |-> helper.verb,
                   at |-> helper.at, todo |-> helper.todo, marked |-> TRUE]
    BY <1>1, <1>7 DEF EchoMarker, Helper
  <2>3. helper' \in Helper
    BY <1>1, <2>2 DEF Helper
  <2> QED BY <1>1, <2>1, <2>2, <2>3 DEF vm, Exists, IInv, TypeOK
<1> QED BY <1>3, <1>4, <1>5, <1>6, <1>7 DEF ScriptStep

LEMMA BeginTyped ==
    ASSUME IInv, NEW p \in Procs, NEW verb \in Verbs, StartHostPrep(p, verb)
    PROVE  /\ proc' \in [Procs -> Command] /\ proc[p].pc = "idle"
           /\ \A q \in Procs \ {p} : proc'[q] = proc[q]
<1> DEFINE r == [Idle EXCEPT !.pc = "clear", !.verb = verb]
<1>1. Idle \in Command
  BY DEF Idle, Command, Verbs
<1>2. r \in Command
  BY <1>1 DEF Command
<1> HIDE DEF r
<1>3. proc' = [proc EXCEPT ![p] = r]
  BY DEF StartHostPrep, r
<1> QED BY <1>2, <1>3 DEF IInv, TypeOK, StartHostPrep

\* Every step but one that changes nothing keeps the helper and its maker together.
LEMMA StepKeeps ==
    ASSUME IInv, Next
    PROVE  Keeps
<1>1. ASSUME NEW p \in Procs, Begin(p) PROVE Keeps
  <2>1. PICK verb \in Verbs : StartHostPrep(p, verb)
    BY <1>1 DEF Begin
  <2>2. p \notin Minding /\ UNCHANGED <<helper, orphaned>>
    BY <1>1, <2>1, BeginTyped DEF Begin, StartHostPrep, Minding
  <2> QED BY <2>1, <2>2, BeginTyped, GoesOn
<1>2. ASSUME NEW p \in Procs, Continue(p) PROVE Keeps
  BY <1>2, CliKeeps DEF Continue
<1>3. CASE Script
  <2>1. /\ helper' \in Helper /\ helper'.by = helper.by /\ Exists /\ Exists'
        /\ UNCHANGED <<proc, orphaned>>
    BY <1>3, ScriptTyped DEF Script
  <2>2. Minding' = Minding
    BY <2>1 DEF Minding
  <2> QED BY <2>1, <2>2 DEF IInv, TypeOK, Keeps, Minded
<1>4. ASSUME NEW p \in Procs, Fault(p) PROVE Keeps
  <2>1. CASE LogsFail(p) /\ UNCHANGED orphaned
    BY <2>1, GotoTyped, GoesOn DEF LogsFail, Minding, IInv
  <2>2. CASE Killed(p) /\ orphaned' = (orphaned \/ Exists)
    <3>1. /\ UNCHANGED helper /\ proc' \in [Procs -> Command]
          /\ \A q \in Procs \ {p} : proc'[q] = proc[q]
      BY <2>2, ExitTyped DEF Killed, IInv
    <3>2. orphaned' \/ ~Mine(p)
      BY <2>2 DEF Mine
    <3>3. orphaned => orphaned'
      BY <2>2
    <3> QED BY <3>1, <3>2, <3>3, GoesOn
  <2> QED BY <1>4, <2>1, <2>2 DEF Fault
<1>5. CASE World
  <2>1. CASE RebootVM /\ orphaned' = Exists
    <3>1. proc' \in [Procs -> Command]
      BY <2>1 DEF RebootVM, Idle, Command, Verbs
    <3>2. helper' \in Helper /\ helper'.by = helper.by /\ (Exists' <=> Exists)
      BY <2>1 DEF RebootVM, IInv, TypeOK, Helper, Exists
    <3> QED BY <2>1, <3>1, <3>2 DEF IInv, TypeOK, Keeps, Minded
  <2>2. CASE AdminVM /\ UNCHANGED orphaned
    BY <2>2 DEF AdminVM, IInv, TypeOK, Keeps, Minded, Minding, Exists
  <2> QED BY <1>5, <2>1, <2>2 DEF World
<1> QED BY <1>1, <1>2, <1>3, <1>4, <1>5 DEF Next

\* The rest of the state keeps its type.
LEMMA RestTyped ==
    ASSUME IInv, Next
    PROVE  /\ on' \subseteq Devices
           /\ snap' = None \/ snap' \in SUBSET Devices
           /\ clean' \in Procs \cup {None}
           /\ off' \subseteq Devices \ on'
           /\ preps' \in 0..2 /\ calm' \in BOOLEAN /\ orphaned' \in BOOLEAN
<1> USE DEF IInv
<1>1. ASSUME NEW p \in Procs, Begin(p) \/ Continue(p) \/ Fault(p)
      PROVE  UNCHANGED <<on, snap, off, preps, calm>>
  BY <1>1 DEF Begin, Continue, Fault, StartHostPrep, CliStep, ClearLeftover, CreateHelper,
     WaitHelper, StartHelper, ReadLogs, Judge, RemoveHelper, LogsFail, Killed, vm
<1>2. ASSUME NEW p \in Procs, Begin(p) \/ Continue(p) \/ Fault(p)
      PROVE  clean' \in Procs \cup {None} /\ orphaned' \in BOOLEAN
  BY <1>2 DEF Begin, Continue, Fault, TypeOK, Exists
<1>3. CASE Script
  <2>1. on' \subseteq Devices /\ (snap' = None \/ snap' \in SUBSET Devices)
    BY <1>3, ScriptTyped DEF Script
  <2>2. off' \subseteq Devices \ on'
    BY <1>3, <2>1 DEF Script, TypeOK
  <2>3. preps' \in 0..2
    BY <1>3 DEF Script, TypeOK
  <2>4. calm' \in BOOLEAN
    BY <1>3 DEF Script
  <2> QED BY <1>3, <2>1, <2>2, <2>3, <2>4 DEF Script, TypeOK
<1>4. CASE World
  <2>1. on' \subseteq Devices
    BY <1>4, DesktopAssumption DEF World, RebootVM, AdminVM, TypeOK
  <2>2. snap' = None \/ snap' = snap
    BY <1>4 DEF World, RebootVM, AdminVM
  <2>3. off' \subseteq Devices \ on'
    BY <1>4, <2>1 DEF World, TypeOK
  <2>4. calm' \in BOOLEAN /\ orphaned' \in BOOLEAN
    BY <1>4 DEF World, TypeOK, Exists
  <2> QED BY <1>4, <2>1, <2>2, <2>3, <2>4 DEF World, TypeOK
<1> QED BY <1>1, <1>2, <1>3, <1>4 DEF Next, TypeOK

LEMMA NextInv == IInv /\ [Next]_vars => IInv'
<1> SUFFICES ASSUME IInv, [Next]_vars PROVE IInv'
  OBVIOUS
<1>1. CASE Next
  BY <1>1, StepKeeps, RestTyped DEF IInv, TypeOK, Keeps
<1>2. CASE UNCHANGED vars
  BY <1>2 DEF vars, vm, history, IInv, TypeOK, Minded, Minding, Exists
<1> QED BY <1>1, <1>2

\* The inductive invariant: what each line of a script and each call can rely on.
THEOREM Invariance == Spec => []IInv
BY InitInv, NextInv, PTL DEF Spec

\* However many host-preps take each other's helper away, and whatever fails: a command
\* that created a helper tries to remove it, so what is left when all are done is there
\* because someone was cut short or a removal failed.
THEOREM NoneLeft == Spec => []NoHelperLeft
<1>1. IInv => NoHelperLeft
  BY DEF IInv, Minded, Minding, NoHelperLeft, AllIdle
<1> QED BY <1>1, Invariance, PTL

\* Every state is well typed.
THEOREM TypeCorrect == Spec => []TypeOK
BY Invariance, PTL DEF IInv

-----------------------------------------------------------------------------
(* What an undisturbed command may rely on. *)

\* The script's last line is reached by a prep with all swap off, and only there does
\* it print the marker.
HelperSound ==
    /\ helper.marked => helper.at = "echo"
    /\ helper.at = "swapon" => helper.verb = "restore"
    /\ (helper.verb = "prep" /\ helper.at = "echo") => on = {}

\* Command p runs alone: what it knows of its helper is so.
Trusting(p) ==
    /\ \A q \in Procs \ {p} : proc[q].pc = "idle"
    /\ proc[p].pc \in {"wait", "start", "logs"} =>
          Mine(p) /\ helper.verb = proc[p].verb /\ HelperSound
    /\ proc[p].pc = "judge" =>
          /\ helper.state # "running"
          /\ (proc[p].out /\ proc[p].verb = "prep") => on = {}
    /\ (proc[p].pc = "cleanup" /\ proc[p].exit = "ok") =>
          /\ helper.state # "running"
          /\ proc[p].verb = "prep" => on = {}

Alone == \A p \in Procs : clean = p => Trusting(p)

\* A terminal that begins while nobody else runs.
LEMMA BeginAlone ==
    ASSUME IInv, NEW p \in Procs, Begin(p)
    PROVE  Alone'
<1>1. PICK verb \in Verbs : StartHostPrep(p, verb)
  BY DEF Begin
<1>2. proc'[p].pc = "clear"
  BY <1>1 DEF StartHostPrep, IInv, TypeOK, Idle
<1>3. ASSUME NEW q \in Procs, clean' = q PROVE q = p /\ AllIdle
  BY <1>3, DesktopAssumption DEF Begin
<1>4. ASSUME AllIdle PROVE \A q \in Procs \ {p} : proc'[q].pc = "idle"
  BY <1>1, <1>4, BeginTyped DEF AllIdle
<1> QED BY <1>2, <1>3, <1>4 DEF Alone, Trusting

\* The script of the helper.
LEMMA ScriptAlone ==
    ASSUME IInv, Alone, Script
    PROVE  Alone'
<1>1. SUFFICES ASSUME NEW p \in Procs, clean = p, Trusting(p)
               PROVE  Trusting(p)'
  BY DEF Alone, Script
<1>2. /\ UNCHANGED proc /\ helper.state = "running" /\ helper \in Helper
      /\ helper'.by = helper.by /\ Exists'
  BY ScriptTyped DEF Script, ScriptStep, EnterVM, Snapshot, SwapOff, SwapOn, EchoMarker, At,
     IInv, TypeOK
<1>3. proc[p].pc \in {"wait", "start", "logs"} =>
          helper'.verb = helper.verb /\ HelperSound'
  <2>1. SUFFICES ASSUME HelperSound PROVE helper'.verb = helper.verb /\ HelperSound'
    BY <1>1 DEF Trusting
  <2>2. CASE EnterVM
    <3>1. ~helper.marked /\ helper.at = "exec"
      BY <2>1, <2>2 DEF EnterVM, At, HelperSound
    <3>2. CASE helper.verb = "prep" /\ Proceed("list")
      BY <1>2, <3>1, <3>2 DEF Proceed, Helper, HelperSound
    <3>3. CASE helper.verb = "restore" /\ helper' = [helper EXCEPT !.at = "swapon", !.todo = Replay]
      BY <1>2, <3>1, <3>3 DEF Helper, HelperSound
    <3>4. CASE Dies
      BY <1>2, <3>1, <3>4 DEF Dies, Helper, HelperSound
    <3> QED BY <2>2, <3>2, <3>3, <3>4 DEF EnterVM
  <2>3. CASE Snapshot
    BY <1>2, <2>1, <2>3 DEF Snapshot, At, Proceed, Helper, HelperSound
  <2>4. CASE SwapOff
    <3>1. ~helper.marked /\ helper.at = "swapoff"
      BY <2>1, <2>4 DEF SwapOff, At, HelperSound
    <3>2. CASE on' = {} /\ Proceed("echo")
      BY <1>2, <3>1, <3>2 DEF Proceed, Helper, HelperSound
    <3>3. CASE Dies
      BY <1>2, <3>1, <3>3 DEF Dies, Helper, HelperSound
    <3> QED BY <2>4, <3>2, <3>3 DEF SwapOff
  <2>5. CASE SwapOn
    <3>1. ~helper.marked /\ helper.at = "swapon" /\ helper.verb = "restore"
      BY <2>1, <2>5 DEF SwapOn, At, HelperSound
    <3>2. CASE Proceed("echo")
      BY <1>2, <3>1, <3>2 DEF Proceed, Helper, HelperSound
    <3>3. ASSUME NEW d, helper' = [helper EXCEPT !.todo = @ \ {d}]
          PROVE  helper'.verb = helper.verb /\ HelperSound'
      BY <1>2, <3>1, <3>3 DEF Helper, HelperSound
    <3> QED BY <2>5, <3>2, <3>3 DEF SwapOn
  <2>6. CASE EchoMarker
    <3>1. helper.at = "echo" /\ UNCHANGED on
      BY <2>6 DEF EchoMarker, At, vm
    <3>2. helper'.verb = helper.verb /\ helper'.at = helper.at
      BY <1>2, <2>6 DEF EchoMarker, Helper
    <3> QED BY <2>1, <3>1, <3>2 DEF HelperSound
  <2> QED BY <2>2, <2>3, <2>4, <2>5, <2>6 DEF Script, ScriptStep
<1> QED BY <1>1, <1>2, <1>3 DEF Trusting, Mine

\* The command's own calls.
LEMMA CliAlone ==
    ASSUME IInv, Alone, NEW p \in Procs, Continue(p)
    PROVE  Alone'
<1>1. SUFFICES ASSUME Trusting(p), proc'[p].pc # "idle"
               PROVE  Trusting(p)'
  BY DesktopAssumption DEF Continue, Alone
<1>2. CliStep(p) /\ helper \in Helper /\ proc[p] \in Command
  BY DEF Continue, IInv, TypeOK
<1>3. ASSUME \A q \in Procs \ {p} : proc'[q] = proc[q]
      PROVE  \A q \in Procs \ {p} : proc'[q].pc = "idle"
  BY <1>1, <1>3 DEF Trusting
<1>4. CASE ClearLeftover(p)
  BY <1>3, <1>4, GotoTyped DEF ClearLeftover, Trusting, IInv
<1>5. CASE CreateHelper(p)
  <2>1. CASE Exists
    BY <1>1, <1>5, <2>1, ExitTyped DEF CreateHelper, IInv
  <2>2. CASE ~Exists
    <3>1. /\ helper' = [NoHelper EXCEPT !.state = "created", !.by = p, !.verb = proc[p].verb]
          /\ Goto(p, "wait")
      BY <1>5, <2>2 DEF CreateHelper
    <3>2. /\ proc'[p].pc = "wait" /\ \A q \in Procs \ {p} : proc'[q] = proc[q]
          /\ proc'[p].verb = proc[p].verb
      BY <3>1, GotoTyped DEF Goto, IInv, TypeOK, Command
    <3>3. /\ Mine(p)' /\ helper'.verb = proc[p].verb /\ helper'.at = "exec"
          /\ helper'.marked = FALSE
      BY <3>1 DEF NoHelper, Mine, Exists
    <3> QED BY <1>3, <3>2, <3>3 DEF Trusting, HelperSound
  <2> QED BY <2>1, <2>2
<1>6. CASE WaitHelper(p)
  <2>1. /\ proc[p].pc = "wait" /\ UNCHANGED <<helper, on>> /\ proc'[p].pc = "start"
        /\ proc'[p].verb = proc[p].verb /\ \A q \in Procs \ {p} : proc'[q] = proc[q]
    BY <1>6, GotoTyped DEF WaitHelper, vm, Goto, IInv, TypeOK, Command
  <2> QED BY <1>1, <1>3, <2>1 DEF Trusting, Mine, Exists, HelperSound
<1>7. CASE StartHelper(p)
  <2>1. CASE helper' = [helper EXCEPT !.state = "running"] /\ Goto(p, "logs")
    <3>1. /\ proc[p].pc = "start" /\ UNCHANGED on /\ proc'[p].pc = "logs"
          /\ proc'[p].verb = proc[p].verb /\ \A q \in Procs \ {p} : proc'[q] = proc[q]
      BY <1>7, <2>1, GotoTyped DEF StartHelper, vm, Goto, IInv, TypeOK, Command
    <3>2. /\ helper'.by = helper.by /\ helper'.verb = helper.verb /\ helper'.at = helper.at
          /\ helper'.marked = helper.marked /\ helper'.state = "running"
      BY <1>2, <2>1 DEF Helper
    <3> QED BY <1>1, <1>3, <3>1, <3>2 DEF Trusting, Mine, Exists, HelperSound
  <2>2. CASE Leave(p, "error")
    <3>1. proc'[p].pc = "cleanup" /\ proc'[p].exit = "error"
      BY <1>2, <2>2 DEF Leave, IInv, TypeOK, Command
    <3> QED BY <1>3, <2>2, <3>1, LeaveTyped DEF Trusting, IInv
  <2> QED BY <1>7, <2>1, <2>2 DEF StartHelper
<1>8. CASE ReadLogs(p)
  <2>1. /\ proc[p].pc = "logs" /\ UNCHANGED <<helper, on>> /\ helper.state # "running"
        /\ Mine(p) /\ HelperSound /\ helper.verb = proc[p].verb
    BY <1>1, <1>8 DEF ReadLogs, vm, Trusting
  <2>2. PICK b \in BOOLEAN : /\ b => helper.marked
                             /\ proc' = [proc EXCEPT ![p].pc = "judge", ![p].out = b]
    BY <1>8, <2>1 DEF ReadLogs, Helper
  <2>3. /\ proc'[p].pc = "judge" /\ proc'[p].out = b /\ proc'[p].verb = proc[p].verb
        /\ \A q \in Procs \ {p} : proc'[q] = proc[q]
    BY <2>2 DEF IInv, TypeOK, Command
  <2>4. (b /\ proc[p].verb = "prep") => on = {}
    BY <2>1, <2>2 DEF HelperSound
  <2> QED BY <1>3, <2>1, <2>3, <2>4 DEF Trusting
<1>9. CASE Judge(p)
  <2>1. PICK code \in {"ok", "error"} : Leave(p, code) /\ (code = "ok" => proc[p].out)
    BY <1>9 DEF Judge
  <2>2. /\ proc'[p].pc = "cleanup" /\ proc'[p].exit = code /\ proc'[p].verb = proc[p].verb
    BY <1>2, <2>1 DEF Leave, IInv, TypeOK, Command
  <2>3. proc[p].pc = "judge" /\ UNCHANGED <<helper, on>>
    BY <1>9 DEF Judge, vm
  <2> QED BY <1>1, <1>3, <2>1, <2>2, <2>3, LeaveTyped DEF Trusting, IInv
<1>10. CASE RemoveHelper(p)
  <2>1. proc[p].exit \in {"none", "ok", "error"}
    BY <1>2 DEF Command
  <2> QED BY <1>1, <1>10, <2>1, ExitTyped DEF RemoveHelper, IInv
<1> QED BY <1>2, <1>4, <1>5, <1>6, <1>7, <1>8, <1>9, <1>10 DEF CliStep

LEMMA NextAlone == (IInv /\ Alone /\ [Next]_vars) => Alone'
<1> SUFFICES ASSUME IInv, Alone, [Next]_vars PROVE Alone'
  OBVIOUS
<1>1. ASSUME clean' = None PROVE Alone'
  BY <1>1, DesktopAssumption DEF Alone
<1>2. CASE UNCHANGED vars
  BY <1>2 DEF vars, vm, history, Alone, Trusting, Mine, Exists, HelperSound
<1> QED BY <1>1, <1>2, BeginAlone, CliAlone, ScriptAlone DEF Next, Fault, World

\* A command that runs alone succeeds by removing its helper.
LEMMA EndsByRemoval ==
    ASSUME IInv, NEW p \in Procs, Trusting(p), Next, Ends(p), proc'[p].exit = "ok"
    PROVE  RemoveHelper(p) /\ proc[p].exit = "ok"
<1>1. proc[p].pc # "idle" /\ proc'[p].pc = "idle" /\ proc'[p] # proc[p]
  BY DEF Ends
<1>2. proc[p] \in Command
  BY DEF IInv, TypeOK
<1>3. ASSUME NEW q \in Procs, Begin(q) PROVE FALSE
  BY <1>1, <1>3, BeginTyped DEF Begin
<1>4. ASSUME NEW q \in Procs, q # p, Continue(q) \/ Fault(q) PROVE FALSE
  <2>1. proc[q].pc = "idle"
    BY <1>4 DEF Trusting
  <2> QED BY <1>4, <2>1 DEF Continue, Fault, CliStep, ClearLeftover, CreateHelper,
          WaitHelper, StartHelper, ReadLogs, Judge, RemoveHelper, LogsFail, Killed
<1>5. ~Fault(p)
  <2>1. CASE LogsFail(p)
    BY <1>1, <2>1, GotoTyped DEF LogsFail, IInv
  <2>2. CASE Killed(p)
    <3>1. proc'[p].exit = "error"
      BY <2>2 DEF Killed, Exit, Idle, IInv, TypeOK
    <3> QED BY <3>1
  <2> QED BY <2>1, <2>2 DEF Fault
<1>6. ~Script
  BY <1>1 DEF Script
<1>7. ~World
  <2>1. CASE RebootVM
    BY <2>1 DEF RebootVM, Idle
  <2>2. CASE AdminVM
    BY <1>1, <2>2 DEF AdminVM
  <2> QED BY <2>1, <2>2 DEF World
<1>8. CliStep(p)
  BY <1>1, <1>3, <1>4, <1>5, <1>6, <1>7 DEF Next, Continue, vars
<1>9. ASSUME CreateHelper(p) PROVE FALSE
  <2>1. ASSUME NEW pc \in {"wait"}, Goto(p, pc) PROVE FALSE
    BY <1>1, <2>1, GotoTyped DEF IInv
  <2>2. Exit(p, "error")
    BY <1>9, <2>1 DEF CreateHelper
  <2>3. proc'[p].exit = "error"
    BY <2>2 DEF Exit, Idle, IInv, TypeOK
  <2> QED BY <2>3
<1>10. ~ClearLeftover(p) /\ ~WaitHelper(p)
  BY <1>1, GotoTyped DEF ClearLeftover, WaitHelper, IInv
<1>11. ~StartHelper(p)
  BY <1>1, GotoTyped, LeaveTyped DEF StartHelper, IInv
<1>12. ~ReadLogs(p)
  <2>1. SUFFICES ASSUME ReadLogs(p) PROVE FALSE
    OBVIOUS
  <2>2. PICK b : proc' = [proc EXCEPT ![p].pc = "judge", ![p].out = b]
    BY <2>1 DEF ReadLogs
  <2>3. proc'[p].pc = "judge"
    BY <1>2, <2>2 DEF IInv, TypeOK, Command
  <2> QED BY <1>1, <2>3
<1>13. ~Judge(p)
  BY <1>1, LeaveTyped DEF Judge, IInv
<1>14. RemoveHelper(p)
  BY <1>8, <1>9, <1>10, <1>11, <1>12, <1>13 DEF CliStep
<1> QED BY <1>14 DEF RemoveHelper, Exit, Idle, IInv, TypeOK

\* A prep that nothing disturbed and that exits with success leaves no swap on, whatever
\* leftover helpers it met: the marker it looks for is printed only with swap off, and
\* nothing turns swap on between that line and the exit.
THEOREM PrepSound == Spec => PrepDelivers
<1>1. Init => Alone
  BY DesktopAssumption DEF Init, Alone
<1>2. ASSUME IInv, Alone, [Next]_vars
      PROVE  \A p \in Procs :
                (clean = p /\ Ends(p) /\ proc[p].verb = "prep" /\ proc'[p].exit = "ok")
                    => on' = {}
  <2>1. SUFFICES ASSUME NEW p \in Procs, clean = p, Ends(p), proc[p].verb = "prep",
                        proc'[p].exit = "ok"
                 PROVE  on' = {}
    OBVIOUS
  <2>2. Trusting(p) /\ Next
    BY <1>2, <2>1 DEF Alone, Ends, vars
  <2>3. RemoveHelper(p) /\ proc[p].exit = "ok"
    BY <1>2, <2>1, <2>2, EndsByRemoval
  <2> QED BY <2>1, <2>2, <2>3 DEF Trusting, RemoveHelper, vm
<1> QED BY <1>1, <1>2, Invariance, NextAlone, PTL DEF Spec, PrepDelivers

-----------------------------------------------------------------------------
(* What a restore may rely on. *)

\* A helper runs its script once, from the first line; it is started only by the command
\* that made it, before anything else happened to it.
ScriptSound ==
    /\ helper.state = "created" => helper.at = "exec"
    /\ helper.marked => helper.at = "echo"
    /\ helper.at \in {"list", "swapoff"} => helper.verb = "prep"
    /\ helper.at = "swapon" => helper.verb = "restore"
    /\ \A p \in Procs :
          (Mine(p) /\ proc[p].pc \in {"wait", "start"}) => helper.state = "created"

\* There was one prep and nothing disturbed a script since.
Once == calm /\ preps <= 1

\* Then the snapshot has all that is off, a restore that has read it still has to turn
\* on all that is off, and at the last line of a restore nothing is.
Undoable ==
    Once =>
        /\ off # {} => snap # None /\ off \subseteq snap
        /\ At("swapoff") => off = {} /\ snap = on
        /\ At("swapon") => off \subseteq helper.todo
        /\ (helper.verb = "restore" /\ helper.at = "echo") => off = {}

\* A restore that runs alone and has seen the marker knows so.
Returning(p) ==
    ( /\ Once /\ proc[p].verb = "restore"
      /\ \/ proc[p].pc = "judge" /\ proc[p].out
         \/ proc[p].pc = "cleanup" /\ proc[p].exit = "ok" )
        => off = {}

Returned == \A p \in Procs : clean = p => Returning(p)

\* What the script's lines do to the helper.
LEMMA ScriptIs ==
    ASSUME TypeOK, ScriptStep
    PROVE  /\ helper.state = "running" /\ helper'.state \in {"running", "exited"}
           /\ helper'.by = helper.by /\ helper'.verb = helper.verb
           /\ (helper'.marked = helper.marked \/ (helper.at = "echo" /\ helper'.at = "echo"))
<1>1. helper \in Helper /\ helper.state = "running"
  BY DEF TypeOK, ScriptStep, EnterVM, Snapshot, SwapOff, SwapOn, EchoMarker, At
<1>2. CASE \E line : Proceed(line)
  BY <1>1, <1>2 DEF Proceed, Helper
<1>3. CASE Dies
  BY <1>1, <1>3 DEF Dies, Helper
<1>4. CASE helper' = [helper EXCEPT !.at = "swapon", !.todo = Replay]
  BY <1>1, <1>4 DEF Helper
<1>5. CASE \E d : helper' = [helper EXCEPT !.todo = @ \ {d}]
  BY <1>1, <1>5 DEF Helper
<1>6. CASE helper.at = "echo" /\ helper' = [helper EXCEPT !.state = "exited", !.marked = TRUE]
  BY <1>1, <1>6 DEF Helper
<1> QED BY <1>2, <1>3, <1>4, <1>5, <1>6
        DEF ScriptStep, EnterVM, Snapshot, SwapOff, SwapOn, EchoMarker, At

LEMMA ScriptUndo ==
    ASSUME IInv, ScriptSound, Undoable, Script
    PROVE  ScriptSound' /\ Undoable'
<1>1. /\ TypeOK /\ helper \in Helper /\ UNCHANGED proc
      /\ off \subseteq Devices \ on /\ on \subseteq Devices
      /\ off' = (off \cup (on \ on')) \ on'
  BY DEF IInv, TypeOK, Script
<1>2. /\ helper.state = "running" /\ helper'.state \in {"running", "exited"}
      /\ helper'.by = helper.by /\ helper'.verb = helper.verb
      /\ (helper'.marked = helper.marked \/ (helper.at = "echo" /\ helper'.at = "echo"))
  BY <1>1, ScriptIs DEF Script
<1>3. /\ helper'.state # "created"
      /\ \A p \in Procs : (Mine(p) /\ proc[p].pc \in {"wait", "start"})' =>
            helper'.state = "created"
  BY <1>1, <1>2 DEF ScriptSound, Mine, Exists
<1>4. ASSUME ~At("list"), Once'
      PROVE  Once /\ ~Refused
  BY <1>4 DEF Script, Once
<1>5. CASE EnterVM
  <2>1. /\ helper.at = "exec" /\ UNCHANGED <<on, snap>> /\ ~At("list")
        /\ ~helper.marked /\ off' = off
    BY <1>1, <1>5 DEF EnterVM, At, vm, ScriptSound
  <2>2. CASE (helper.verb = "prep" /\ Proceed("list")) \/ Dies
    <3>1. helper'.at = "exec" \/ (helper'.at = "list" /\ helper.verb = "prep")
      BY <1>1, <2>1, <2>2 DEF Proceed, Dies, Helper
    <3> QED BY <1>2, <1>3, <1>4, <2>1, <3>1 DEF ScriptSound, Undoable, At
  <2>3. CASE helper.verb = "restore" /\ helper' = [helper EXCEPT !.at = "swapon", !.todo = Replay]
    <3>1. helper'.at = "swapon" /\ helper'.todo = Replay
      BY <1>1, <2>3 DEF Helper
    <3>2. Once' => off \subseteq Replay
      BY <1>4, <2>1 DEF Undoable, Replay
    <3> QED BY <1>2, <1>3, <1>4, <2>1, <2>3, <3>1, <3>2 DEF ScriptSound, Undoable, At
  <2> QED BY <1>5, <2>2, <2>3 DEF EnterVM
<1>6. CASE Snapshot
  <2>1. helper.at = "list" /\ At("list") /\ UNCHANGED on /\ Proceed("swapoff")
    BY <1>6 DEF Snapshot, At
  <2>2. helper'.at = "swapoff" /\ off' = off /\ ~helper.marked /\ helper.verb = "prep"
    BY <1>1, <2>1 DEF Proceed, Helper, ScriptSound
  <2>3. Once' => off = {} /\ snap' = on
    <3>1. preps' = IF off = {} THEN 1 ELSE 2
      BY <2>1 DEF Script
    <3>2. calm' => snap' = on
      BY <2>1 DEF Script, Refused
    <3> QED BY <3>1, <3>2 DEF Once
  <2> QED BY <1>2, <1>3, <2>1, <2>2, <2>3 DEF ScriptSound, Undoable, At
<1>7. CASE SwapOff
  <2>1. helper.at = "swapoff" /\ At("swapoff") /\ UNCHANGED snap /\ ~At("list")
        /\ ~helper.marked /\ helper.verb = "prep"
    BY <1>7 DEF SwapOff, At, ScriptSound
  <2>2. /\ helper'.at \in {"echo", "swapoff"}
        /\ helper'.at = "swapoff" => helper'.state = "exited"
    BY <1>1, <1>7, <2>1 DEF SwapOff, Proceed, Dies, Helper
  <2>3. Once' => off = {} /\ snap = on /\ on' = {}
    BY <1>4, <2>1 DEF Undoable, Refused
  <2>4. Once' => off' = snap /\ snap # None
    BY <1>1, <2>3, DesktopAssumption
  <2> QED BY <1>2, <1>3, <2>1, <2>2, <2>4 DEF ScriptSound, Undoable, At
<1>8. CASE SwapOn
  <2>1. helper.at = "swapon" /\ At("swapon") /\ UNCHANGED snap /\ ~At("list")
        /\ ~helper.marked /\ helper.verb = "restore"
    BY <1>8 DEF SwapOn, At, ScriptSound
  <2>2. Once' => Once /\ off \subseteq helper.todo /\ helper.todo \ helper'.todo \subseteq on'
    BY <1>4, <2>1 DEF Undoable, Refused
  <2>3. ASSUME NEW d \in helper.todo, on' \in {on, on \cup {d}},
               helper' = [helper EXCEPT !.todo = @ \ {d}]
        PROVE  ScriptSound' /\ Undoable'
    <3>1. helper'.at = "swapon" /\ helper'.todo = helper.todo \ {d}
      BY <1>1, <2>1, <2>3 DEF Helper
    <3>2. off' \subseteq off /\ (Once' => off' \subseteq helper'.todo)
      BY <1>1, <2>2, <2>3, <3>1
    <3> QED BY <1>2, <1>3, <2>1, <2>2, <3>1, <3>2 DEF ScriptSound, Undoable, At
  <2>4. CASE helper.todo = {} /\ Proceed("echo") /\ UNCHANGED on
    <3>1. helper'.at = "echo" /\ off' = off
      BY <1>1, <2>4 DEF Proceed, Helper
    <3> QED BY <1>2, <1>3, <2>1, <2>2, <2>4, <3>1 DEF ScriptSound, Undoable, At
  <2> QED BY <1>8, <2>3, <2>4 DEF SwapOn
<1>9. CASE EchoMarker
  <2>1. helper.at = "echo" /\ UNCHANGED <<on, snap>> /\ ~At("list") /\ off' = off
        /\ helper'.at = "echo"
    BY <1>1, <1>9 DEF EchoMarker, At, vm, Helper
  <2> QED BY <1>2, <1>3, <1>4, <2>1 DEF ScriptSound, Undoable, At
<1> QED BY <1>5, <1>6, <1>7, <1>8, <1>9 DEF Script, ScriptStep

\* A step that leaves the helper alone or takes it away, and off no larger.
LEMMA HelperLeft ==
    ASSUME ScriptSound, helper' \in {helper, NoHelper},
           \A p \in Procs : proc'[p].pc \in {"wait", "start"} => proc[p].pc \in {"wait", "start"}
    PROVE  ScriptSound'
BY DEF ScriptSound, Mine, Exists, NoHelper

LEMMA SwapLeft ==
    ASSUME Undoable, UNCHANGED <<on, snap, off, preps, calm>>,
           \/ helper'.state \in {helper.state, "exited"} /\ helper'.at = helper.at
              /\ helper'.verb = helper.verb /\ helper'.todo = helper.todo
           \/ helper'.at = "exec"
    PROVE  Undoable'
BY DEF Undoable, Once, At

LEMMA CliUndo ==
    ASSUME IInv, ScriptSound, Undoable, NEW p \in Procs, Continue(p)
    PROVE  ScriptSound' /\ Undoable'
<1>1. TypeOK /\ helper \in Helper /\ proc[p] \in Command
      /\ UNCHANGED <<on, snap, off, preps, calm>>
  BY DEF IInv, TypeOK, Continue, CliStep, ClearLeftover, CreateHelper, WaitHelper, StartHelper,
     ReadLogs, Judge, RemoveHelper, vm
<1>2. NoHelper.at = "exec"
  BY DEF NoHelper
<1>3. ASSUME helper' \in {helper, NoHelper},
             \A q \in Procs : proc'[q].pc \in {"wait", "start"} => proc[q].pc \in {"wait", "start"}
      PROVE  ScriptSound' /\ Undoable'
  BY <1>1, <1>2, <1>3, HelperLeft, SwapLeft
<1>4. CASE ClearLeftover(p)
  BY <1>1, <1>3, <1>4, GotoTyped DEF ClearLeftover
<1>5. CASE CreateHelper(p)
  <2>1. CASE Exists
    BY <1>1, <1>3, <1>5, <2>1, ExitTyped DEF CreateHelper
  <2>2. CASE ~Exists
    <3>1. helper' = [NoHelper EXCEPT !.state = "created", !.by = p, !.verb = proc[p].verb]
      BY <1>5, <2>2 DEF CreateHelper
    <3>2. /\ helper'.state = "created" /\ helper'.at = "exec" /\ ~helper'.marked
      BY <3>1 DEF NoHelper
    <3>3. ScriptSound'
      BY <3>2 DEF ScriptSound
    <3> QED BY <1>1, <3>2, <3>3, SwapLeft
  <2> QED BY <2>1, <2>2
<1>6. CASE WaitHelper(p)
  <2>1. UNCHANGED helper /\ proc[p].pc = "wait" /\ \A q \in Procs \ {p} : proc'[q] = proc[q]
    BY <1>1, <1>6, GotoTyped DEF WaitHelper
  <2> QED BY <1>3, <2>1
<1>7. CASE StartHelper(p)
  <2>1. CASE Mine(p) /\ helper' = [helper EXCEPT !.state = "running"] /\ Goto(p, "logs")
    <3>1. helper.state = "created" /\ helper.at = "exec" /\ ~helper.marked
      BY <1>7, <2>1 DEF StartHelper, ScriptSound
    <3>2. /\ helper'.state = "running" /\ helper'.at = "exec" /\ helper'.by = p
          /\ helper'.marked = helper.marked
      BY <1>1, <2>1, <3>1 DEF Helper, Mine
    <3>3. proc'[p].pc = "logs"
      BY <1>1, <2>1, GotoTyped
    <3>4. ScriptSound'
      BY <3>1, <3>2, <3>3 DEF ScriptSound, Mine
    <3> QED BY <1>1, <3>2, <3>4, SwapLeft
  <2>2. CASE Leave(p, "error") /\ UNCHANGED helper
    BY <1>1, <1>3, <2>2, LeaveTyped
  <2> QED BY <1>7, <2>1, <2>2 DEF StartHelper
<1>8. CASE ReadLogs(p)
  <2>1. UNCHANGED helper /\ proc'[p].pc = "judge" /\ \A q \in Procs \ {p} : proc'[q] = proc[q]
    BY <1>1, <1>8 DEF ReadLogs, TypeOK, Command
  <2> QED BY <1>3, <2>1
<1>9. CASE Judge(p)
  BY <1>1, <1>3, <1>9, LeaveTyped DEF Judge
<1>10. CASE RemoveHelper(p)
  <2>1. proc[p].exit \in {"none", "ok", "error"}
    BY <1>1 DEF Command
  <2> QED BY <1>1, <1>3, <1>10, <2>1, ExitTyped DEF RemoveHelper
<1> QED BY <1>4, <1>5, <1>6, <1>7, <1>8, <1>9, <1>10 DEF Continue, CliStep

LEMMA RestUndo ==
    ASSUME IInv, ScriptSound, Undoable,
           (\E p \in Procs : Begin(p) \/ Fault(p)) \/ World \/ UNCHANGED vars
    PROVE  ScriptSound' /\ Undoable'
<1>1. TypeOK /\ helper \in Helper /\ off \subseteq Devices \ on
  BY DEF IInv, TypeOK
<1>2. ASSUME NEW p \in Procs, Begin(p) \/ Fault(p)
      PROVE  ScriptSound' /\ Undoable'
  <2>1. UNCHANGED <<helper, on, snap, off, preps, calm>>
    BY <1>2 DEF Begin, Fault, StartHostPrep, LogsFail, Killed, vm
  <2>2. proc'[p].pc \notin {"wait", "start"} /\ \A q \in Procs \ {p} : proc'[q] = proc[q]
    <3>1. CASE Begin(p)
      <4>1. PICK verb \in Verbs : StartHostPrep(p, verb)
        BY <3>1 DEF Begin
      <4> QED BY <1>1, <4>1, BeginTyped DEF StartHostPrep, Idle, TypeOK
    <3>2. CASE LogsFail(p)
      BY <1>1, <3>2, GotoTyped DEF LogsFail
    <3>3. CASE Killed(p)
      BY <1>1, <3>3, ExitTyped DEF Killed
    <3> QED BY <1>2, <3>1, <3>2, <3>3 DEF Fault
  <2> QED BY <2>1, <2>2, HelperLeft, SwapLeft
<1>3. CASE World
  <2>1. CASE RebootVM /\ off' = {}
    <3>1. /\ helper'.at = helper.at /\ helper'.marked = helper.marked
          /\ helper'.verb = helper.verb /\ helper'.by = helper.by
          /\ helper'.state # "running" /\ (helper'.state = "created" => helper.state = "created")
      BY <1>1, <2>1 DEF RebootVM, Helper
    <3>2. \A p \in Procs : proc'[p].pc = "idle"
      BY <2>1 DEF RebootVM, Idle
    <3> QED BY <2>1, <3>1, <3>2 DEF ScriptSound, Undoable, At
  <2>2. CASE AdminVM /\ off' = off \ on'
    <3>1. UNCHANGED <<helper, snap, proc>> /\ off' \subseteq off
      BY <2>2 DEF AdminVM
    <3>2. Once' => Once /\ helper.state # "running"
      BY <1>3 DEF World, Once
    <3> QED BY <3>1, <3>2 DEF ScriptSound, Undoable, At, Mine, Exists
  <2> QED BY <1>3, <2>1, <2>2 DEF World
<1>4. CASE UNCHANGED vars
  BY <1>4, HelperLeft, SwapLeft DEF vars, vm, history
<1> QED BY <1>2, <1>3, <1>4


\* What the command that runs alone knows when it judges its helper, and after.
LEMMA CliReturned ==
    ASSUME IInv, Alone, ScriptSound, Undoable, Returned, NEW p \in Procs, Continue(p)
    PROVE  Returned'
<1>1. SUFFICES ASSUME clean = p, proc'[p].pc # "idle"
               PROVE  Returning(p)'
  BY DesktopAssumption DEF Continue, Returned
<1>2. /\ CliStep(p) /\ proc[p] \in Command /\ helper \in Helper /\ Trusting(p) /\ Returning(p)
      /\ UNCHANGED <<off, preps, calm>> /\ TypeOK
  BY <1>1 DEF Continue, IInv, TypeOK, Alone, Returned
<1>3. CASE proc'[p].pc \notin {"judge", "cleanup"}
  BY <1>3 DEF Returning
<1>4. CASE ReadLogs(p)
  <2>1. /\ Mine(p) /\ helper.verb = proc[p].verb
        /\ proc' = [proc EXCEPT ![p].pc = "judge", ![p].out = Mine(p) /\ helper.marked]
    BY <1>2, <1>4 DEF ReadLogs, Trusting
  <2>2. proc'[p].pc = "judge" /\ proc'[p].verb = proc[p].verb
        /\ (proc'[p].out => helper.at = "echo")
    BY <1>2, <2>1 DEF TypeOK, Command, ScriptSound
  <2> QED BY <1>2, <2>1, <2>2 DEF Returning, Undoable, Once
<1>5. CASE Judge(p)
  <2>1. PICK code \in {"ok", "error"} : Leave(p, code) /\ (code = "ok" => proc[p].out)
    BY <1>5 DEF Judge
  <2>2. proc'[p].pc = "cleanup" /\ proc'[p].exit = code /\ proc'[p].verb = proc[p].verb
    BY <1>2, <2>1 DEF Leave, TypeOK, Command
  <2> QED BY <1>2, <1>5, <2>1, <2>2 DEF Judge, Returning, Once
<1>6. CASE Leave(p, "error")
  <2>1. proc'[p].pc = "cleanup" /\ proc'[p].exit = "error"
    BY <1>2, <1>6 DEF Leave, TypeOK, Command
  <2> QED BY <2>1 DEF Returning
<1>7. CASE RemoveHelper(p)
  <2>1. proc[p].exit \in {"none", "ok", "error"}
    BY <1>2 DEF Command
  <2> QED BY <1>1, <1>2, <1>7, <2>1, ExitTyped DEF RemoveHelper
<1>8. ASSUME NEW pc \in {"clear", "create", "wait", "start", "logs"}, Goto(p, pc)
      PROVE  Returning(p)'
  BY <1>2, <1>3, <1>8, GotoTyped
<1> QED BY <1>1, <1>2, <1>4, <1>5, <1>6, <1>7, <1>8, ExitTyped
        DEF CliStep, ClearLeftover, CreateHelper, WaitHelper, StartHelper

LEMMA NextReturned ==
    ASSUME IInv, Alone, ScriptSound, Undoable, Returned, [Next]_vars
    PROVE  Returned'
<1>1. ASSUME clean' = None PROVE Returned'
  BY <1>1, DesktopAssumption DEF Returned
<1>2. CASE UNCHANGED vars
  BY <1>2 DEF vars, vm, history, Returned, Returning, Once
<1>3. ASSUME NEW p \in Procs, Begin(p)
      PROVE  Returned'
  <2>1. PICK verb \in Verbs : StartHostPrep(p, verb)
    BY <1>3 DEF Begin
  <2>2. proc'[p].pc = "clear"
    BY <2>1 DEF StartHostPrep, IInv, TypeOK, Idle
  <2>3. clean' \in {p, None}
    BY <1>3 DEF Begin
  <2> QED BY <2>2, <2>3, DesktopAssumption DEF Returned, Returning
<1>4. CASE Script
  <2>1. SUFFICES ASSUME NEW p \in Procs, clean = p
                 PROVE  Returning(p)'
    BY <1>4 DEF Script, Returned
  <2>2. /\ helper.state = "running" /\ UNCHANGED proc /\ Trusting(p)
    BY <1>4, <2>1, ScriptIs DEF Script, IInv, Alone
  <2> QED BY <2>2 DEF Trusting, Returning
<1> QED BY <1>1, <1>2, <1>3, <1>4, CliReturned DEF Next, Fault, World

\* After one prep, a restore that runs alone and exits with success has turned on all that
\* scripts turned off, unless something disturbed a script, whatever leftover helpers it
\* met and however many commands were killed before.
THEOREM RestoreSound == Spec => RestoreDelivers
<1>1. Init => Alone /\ ScriptSound /\ Undoable /\ Returned
  BY DesktopAssumption DEF Init, Alone, ScriptSound, Undoable, Returned, NoHelper, Mine,
     Exists, At
<1>2. (IInv /\ ScriptSound /\ Undoable /\ [Next]_vars) => (ScriptSound /\ Undoable)'
  BY ScriptUndo, CliUndo, RestUndo DEF Next
<1>3. (IInv /\ Alone /\ ScriptSound /\ Undoable /\ Returned /\ [Next]_vars) => Returned'
  BY NextReturned
<1>4. ASSUME IInv, Alone, Returned, [Next]_vars
      PROVE  \A p \in Procs :
                ( /\ clean = p /\ Ends(p) /\ proc[p].verb = "restore" /\ proc'[p].exit = "ok"
                  /\ calm /\ preps <= 1 )
                    => off' = {}
  <2>1. SUFFICES ASSUME NEW p \in Procs, clean = p, Ends(p), proc[p].verb = "restore",
                        proc'[p].exit = "ok", calm, preps <= 1
                 PROVE  off' = {}
    OBVIOUS
  <2>2. Trusting(p) /\ Returning(p) /\ Next
    BY <1>4, <2>1 DEF Alone, Returned, Ends, vars
  <2>3. RemoveHelper(p) /\ proc[p].exit = "ok"
    BY <1>4, <2>1, <2>2, EndsByRemoval
  <2>4. off = {}
    BY <2>1, <2>2, <2>3 DEF Returning, Once, RemoveHelper
  <2>5. off' \subseteq off
    BY <2>1, <2>2 DEF Next, Begin, Continue, Fault, World, Script, Ends
  <2> QED BY <2>4, <2>5
<1> QED BY <1>1, <1>2, <1>3, <1>4, Invariance, NextAlone, PTL DEF Spec, RestoreDelivers
=============================================================================
