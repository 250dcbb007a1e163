----------------------------- MODULE NodeAccess -----------------------------
(***************************************************************************)
(* A command that needs what runs in the nodes while these boot, lose      *)
(* power and come back: "up --wait" (waitReady, Reachable and execCode)    *)
(* and "exec" (nodeExec, sshExec, Exec and execStatus), call by call.      *)
(***************************************************************************)
EXTENDS NodeBoot

CONSTANTS
    Order,        \* the nodes as vabbe.yaml lists them
    Timeout,      \* --timeout, in seconds
    MaxProbe      \* bound: what one probe takes at most

ASSUME AccessAssumption ==
    /\ Order \in Seq(Nodes) /\ Len(Order) > 0
    /\ Nodes = {Order[i] : i \in 1..Len(Order)}
    /\ Timeout \in Nat /\ MaxProbe \in Nat

VARIABLES cli, task

vars == <<kind, node, cli, task>>

Running == {"find", "ip", "dial", "create", "attach", "stream", "inspect", "ssh"}

WorstCase == Timeout + 1 + Len(Order) * MaxProbe

Cli ==
    [cmd     : {"none", "wait", "exec"},
     pc      : Running \cup {"idle", "ok", "failed", "timeout"},
     at      : 1..Len(Order),
     ip      : Addresses \cup {None},
     here    : BOOLEAN,           \* the container it found has not been removed
     elapsed : 0..WorstCase,
     \* history
     was     : BOOLEAN,           \* the node was booted at some moment of this probe
     calm    : BOOLEAN,           \* no node stopped since the command started
     cut     : BOOLEAN,           \* a stream ended before the process did
     other   : BOOLEAN]           \* what answered was another node

\* The process a docker exec or an ssh session runs in a node.
NoTask == [st |-> "none", on |-> None, code |-> 0]
Task == [st : {"none", "running", "ended"}, on : Nodes \cup {None}, code : {0, 1, 137}]

Target == Order[cli.at]

NoCli ==
    [cmd |-> "none", pc |-> "idle", at |-> 1, ip |-> None, here |-> TRUE, elapsed |-> 0,
     was |-> FALSE, calm |-> TRUE, cut |-> FALSE, other |-> FALSE]

Nodewise == UNCHANGED bootVars
Goto(pc) == cli' = [cli EXCEPT !.pc = pc] /\ UNCHANGED task

-----------------------------------------------------------------------------
(* The answer *)

\* Mutant of NotReady: the deadline is set anew at every retry.
NotReadyAnew(c) ==
    IF c.elapsed > Timeout
    THEN [c EXCEPT !.pc = "timeout"]
    ELSE [c EXCEPT !.pc = "find", !.elapsed = 0]

\* Mutant of NotReady: the deadline is looked at when the next node's turn comes.
NotReadyOn(c) ==
    IF c.at > 1 /\ c.elapsed > Timeout
    THEN [c EXCEPT !.pc = "timeout"]
    ELSE [c EXCEPT !.pc = "find", !.elapsed = @ + 1]

\* After a failed probe: give up, or sleep a second and try again.
NotReady(c) ==
    IF c.elapsed > Timeout
    THEN [c EXCEPT !.pc = "timeout"]
    ELSE [c EXCEPT !.pc = "find", !.elapsed = @ + 1]

\* Mutant of Ready: the loop goes one node too far.
ReadyOneMore(c) ==
    IF c.at > Len(Order)
    THEN [c EXCEPT !.pc = "ok"]
    ELSE [c EXCEPT !.pc = "find", !.at = @ + 1]

Ready(c) ==
    IF c.at = Len(Order)
    THEN [c EXCEPT !.pc = "ok"]
    ELSE [c EXCEPT !.pc = "find", !.at = @ + 1]

\* Reachable returns: the probe took d seconds.
Answer(yes) ==
    \E d \in 0..MaxProbe :
        LET c == [cli EXCEPT !.elapsed = @ + d, !.ip = None] IN
        /\ cli' = IF yes THEN Ready(c) ELSE NotReady(c)
        /\ task' = NoTask

\* A call fails: "not ready" for a probe, the end of an exec.
Refused ==
    IF cli.cmd = "wait"
    THEN Answer(FALSE)
    ELSE Goto("failed")

\* Mutant of Status: an inspection that fails says nothing of the process.
StatusIfKnown(known, code) == known => code = 0

\* execCode and execStatus: the exit code, if the inspection had an answer.
Status(known, code) == known /\ code = 0

-----------------------------------------------------------------------------
(* Finding the node *)

Start(cmd) ==
    /\ cli.pc = "idle"
    /\ \E i \in 1..Len(Order) :
          /\ cmd = "wait" => i = 1
          /\ cli' = [cli EXCEPT !.cmd = cmd, !.pc = "find", !.at = i]
    /\ UNCHANGED task /\ Nodewise

\* Mutant of Probe: a node with a kernel of its own is ready once it runs.
ProbeRunning ==
    /\ cli.pc = "find" /\ cli.cmd = "wait"
    /\ LET c == [cli EXCEPT !.was = Booted(Target), !.here = TRUE] IN
       IF kind[Target] # "runc" \/ ~node[Target].on
       THEN \E d \in 0..MaxProbe :
               /\ cli' = IF node[Target].on
                         THEN Ready([c EXCEPT !.elapsed = @ + d])
                         ELSE NotReady([c EXCEPT !.elapsed = @ + d])
               /\ task' = NoTask
       ELSE cli' = [c EXCEPT !.pc = "create"] /\ UNCHANGED task
    /\ Nodewise

\* findContainer. A runner is ready once it runs; a node that does not run is not ready.
Probe ==
    /\ cli.pc = "find" /\ cli.cmd = "wait"
    /\ LET c == [cli EXCEPT !.was = Booted(Target), !.here = TRUE] IN
       IF kind[Target] = "runner" \/ (kind[Target] = "vm" /\ ~node[Target].on)
       THEN \E d \in 0..MaxProbe :
               /\ cli' = IF node[Target].on
                         THEN Ready([c EXCEPT !.elapsed = @ + d])
                         ELSE NotReady([c EXCEPT !.elapsed = @ + d])
               /\ task' = NoTask
       ELSE /\ cli' = [c EXCEPT !.pc = IF kind[Target] = "vm" THEN "ip" ELSE "create"]
            /\ UNCHANGED task
    /\ Nodewise

\* nodeExec: docker exec cannot enter a node with a kernel of its own.
FindForExec ==
    /\ cli.pc = "find" /\ cli.cmd = "exec"
    /\ cli' = [cli EXCEPT !.pc = IF kind[Target] = "vm" THEN "ip" ELSE "create",
                          !.here = TRUE]
    /\ UNCHANGED task /\ Nodewise

\* IP: the fixed address, also of a node that is down, else the one it has now.
LookUpIP ==
    LET ip == IF Pin[Target] # None THEN Pin[Target] ELSE node[Target].addr IN
    /\ cli.pc = "ip"
    /\ IF ip = None
       THEN Refused
       ELSE cli' = [cli EXCEPT !.pc = "dial", !.ip = ip] /\ UNCHANGED task
    /\ Nodewise

-----------------------------------------------------------------------------
(* A node with a kernel of its own: TCP and ssh *)

\* Who answers on port 22 of the address; no host key is checked.
Listening == {m \in Nodes : node[m].addr = cli.ip /\ node[m].ssh}

Dial ==
    /\ cli.pc = "dial" /\ cli.cmd = "wait"
    /\ \E d \in 0..MaxProbe :
          LET c == [cli EXCEPT !.elapsed = @ + d, !.ip = None,
                               !.other = @ \/ Listening \notin {{}, {Target}}] IN
          cli' = IF Listening # {} THEN Ready(c) ELSE NotReady(c)
    /\ task' = NoTask /\ Nodewise

SshConnect ==
    /\ cli.pc = "dial" /\ cli.cmd = "exec"
    /\ IF Listening = {}
       THEN Goto("failed")
       ELSE \E m \in Listening :
               /\ cli' = [cli EXCEPT !.pc = "ssh", !.ip = None, !.other = m # Target]
               /\ task' = [NoTask EXCEPT !.st = "running", !.on = m]
    /\ Nodewise

\* ssh exits with the command's code, or with 255 when the connection breaks.
SshEnds ==
    /\ cli.pc = "ssh"
    /\ IF task.st = "ended" /\ task.code = 0 THEN Goto("ok") ELSE Goto("failed")
    /\ Nodewise

-----------------------------------------------------------------------------
(* Any other node: an exec session of the daemon *)

ExecCreate ==
    /\ cli.pc = "create"
    /\ IF cli.here /\ node[Target].on THEN Goto("attach") ELSE Refused
    /\ Nodewise

ExecAttach ==
    /\ cli.pc = "attach"
    /\ IF cli.here /\ node[Target].on
       THEN /\ cli' = [cli EXCEPT !.pc = "stream"]
            /\ task' = [NoTask EXCEPT !.st = "running", !.on = Target]
       ELSE Refused
    /\ Nodewise

\* The stream ends with the process, or before it: the connection breaks, or the process
\* closes its output. The error of the copy is dropped.
StreamEnds ==
    /\ cli.pc = "stream"
    /\ task.st = "ended"
    /\ Goto("inspect") /\ Nodewise

StreamCut ==
    /\ cli.pc = "stream"
    /\ task.st = "running"
    /\ cli' = [cli EXCEPT !.pc = "inspect", !.cut = TRUE]
    /\ UNCHANGED task /\ Nodewise

\* ExecInspect: the code is 0 while the process runs.
ExecInspect ==
    /\ cli.pc = "inspect"
    /\ LET yes == Status(cli.here, IF task.st = "ended" THEN task.code ELSE 0) IN
       IF cli.cmd = "wait"
       THEN Answer(yes)
       ELSE Goto(IF yes THEN "ok" ELSE "failed")
    /\ Nodewise

\* Any call to the daemon, or the dialling, may fail.
CallFails == cli.pc \in Running \ {"stream", "ssh"} /\ Refused /\ Nodewise

-----------------------------------------------------------------------------
(* The processes and the nodes *)

\* systemctl is-active says whether sshd runs; a command has its own code.
TaskEnds ==
    /\ task.st = "running"
    /\ \E code \in {0, 1} :
          /\ cli.cmd = "wait" => (code = 0 <=> node[task.on].ssh)
          /\ task' = [task EXCEPT !.st = "ended", !.code = code]
    /\ UNCHANGED cli /\ Nodewise

\* A node that stops takes the process along, one that is rebuilt the container.
NodeMoves(n) ==
    /\ NodeStep(n)
    /\ cli' = [cli EXCEPT
                  !.here = @ /\ ~(n = Target /\ Rebuild(n)),
                  !.was = @ \/ (cli.pc \in Running /\ cli.cmd = "wait"
                           /\ BootedAs(kind[Target], node'[Target])),
                  !.calm = @ /\ ~(cli.pc # "idle" /\ PowerOff(n))]
    /\ task' = IF task.st = "running" /\ task.on = n /\ PowerOff(n)
               THEN [task EXCEPT !.st = "ended", !.code = 137]
               ELSE task

CliStep ==
    \/ Probe \/ FindForExec \/ LookUpIP \/ Dial \/ SshConnect \/ SshEnds
    \/ ExecCreate \/ ExecAttach \/ StreamEnds \/ StreamCut \/ ExecInspect \/ CallFails

Init ==
    /\ BootInit
    /\ cli = NoCli
    /\ task = NoTask

Next ==
    \/ Start("wait") \/ Start("exec")
    \/ CliStep
    \/ TaskEnds
    \/ \E n \in Nodes : NodeMoves(n)

\* The command goes on, and what systemctl was asked it answers. Nodes owe nothing.
Spec ==
    /\ Init /\ [][Next]_vars
    /\ WF_vars(CliStep)
    /\ WF_vars(TaskEnds /\ cli.cmd = "wait")

-----------------------------------------------------------------------------
TypeOK ==
    /\ BootTypeOK
    /\ cli \in Cli
    /\ task \in Task
    /\ task.st = "none" <=> task.on = None

\* up --wait calls a node ready only if at some moment of that very probe the node had
\* booted: sshd up, and the scripts for modules and resolver, which come before it, at
\* their end. A probe can be wrong in two ways only: its stream was cut, or, for a node
\* reached by TCP, another node had taken the address.
ReadyMeansBooted ==
    [][\A i \in 1..Len(Order) :
        /\ cli.cmd = "wait" /\ cli.at = i /\ cli.pc \in Running
        /\ cli'.pc = "ok" \/ cli'.at > i
        => \/ cli'.was
           \/ kind[Order[i]] = "runc" /\ cli'.cut
           \/ kind[Order[i]] = "vm" /\ cli'.other]_vars

\* When up --wait returns without an error and nothing stopped meanwhile, every node
\* of the lab is ready at once, not one after the other.
AllReady ==
    cli.cmd = "wait" /\ cli.pc = "ok" /\ cli.calm /\ ~cli.cut => \A n \in Nodes : Booted(n)

\* up --wait may outlast its --timeout, but only by a second of sleep and one probe
\* for each node; and it gives up only when the time is over.
WaitBounded ==
    cli.cmd = "wait" =>
        /\ cli.elapsed <= WorstCase
        /\ cli.pc = "timeout" => cli.elapsed > Timeout

\* up --wait ends, even when a node never becomes ready or keeps rebooting.
WaitEnds == cli.cmd = "wait" ~> cli.pc \in {"ok", "timeout"}

\* exec succeeds only if the command ran to its end with code 0, and in the node that
\* was named - but for a docker exec whose stream was cut, and an ssh to an address that
\* another node holds by now.
ExecTrue ==
    cli.cmd = "exec" /\ cli.pc = "ok" =>
        /\ (task.st = "ended" /\ task.code = 0) \/ (cli.cut /\ kind[Target] # "vm")
        /\ task.on = Target \/ (cli.other /\ kind[Target] = "vm")
=============================================================================
