------------------------------ MODULE Executor ------------------------------
(***************************************************************************)
(* One shell instruction on the node: the processes of the command, who of *)
(* them holds its output pipe, and the timer that kills the process group. *)
(* runShell waits for two things, the exit of the shell and the end of the *)
(* output; the timer looks at the shell only.                              *)
(*                                                                         *)
(* Replay, deadline and the window of results are in Dispatch.             *)
(***************************************************************************)
EXTENDS Integers

CONSTANTS
    DefaultTimeout,  \* applied when the instruction names none (60 s)
    Requests         \* timeouts a task may ask for, 0 for none

ASSUME TimeoutAssumption ==
    /\ DefaultTimeout \in Nat \ {0}
    /\ Requests \subseteq Nat

VARIABLES
    alive,   \* processes of the command: the shell, a member of its process
             \* group, a stray one that left the group (setsid)
    holds,   \* those that have the output pipe open
    limit,   \* the timeout of the execution, 0 when nothing is executed
    age,     \* its time so far; limit + 1 stands for every larger value
    killed   \* cmd.Cancel was called

xvars == <<alive, holds, limit, age, killed>>

Process == {"shell", "member", "stray"}
Group == {"shell", "member"}
Executing == limit # 0

XInit ==
    /\ alive = {}
    /\ holds = {}
    /\ limit = 0
    /\ age = 0
    /\ killed = FALSE

-----------------------------------------------------------------------------
(* Mutant of SentTimeout: the request's timeout is passed on. *)
SentRequested(r) == r

(* Dispatcher.send copies the fields of the instruction but the timeout.   *)
SentTimeout(r) == 0

(* The timeout runShell applies. *)
Effective(t) == IF t <= 0 THEN DefaultTimeout ELSE t

StartShell(t) ==
    /\ ~Executing
    /\ limit' = Effective(t)
    /\ age' = 0
    /\ alive' = {"shell"}
    /\ holds' = {"shell"}
    /\ killed' = FALSE

(* A process q of the command starts another one, which has q's output or  *)
(* another; only a process of the group has children in the group.         *)
Spawn(q, p) ==
    /\ q \in alive
    /\ p \in {"member", "stray"} \ alive
    /\ p = "member" => q \in Group
    /\ alive' = alive \cup {p}
    /\ \/ q \in holds /\ holds' = holds \cup {p}
       \/ holds' = holds
    /\ UNCHANGED <<limit, age, killed>>

Exit(p) ==
    /\ p \in alive
    /\ alive' = alive \ {p}
    /\ holds' = holds \ {p}
    /\ UNCHANGED <<limit, age, killed>>

(* A process closes its output and lives on. *)
CloseOutput(p) ==
    /\ p \in holds
    /\ holds' = holds \ {p}
    /\ UNCHANGED <<alive, limit, age, killed>>

Kill(victims) ==
    /\ alive' = alive \ victims
    /\ holds' = holds \ victims
    /\ killed' = TRUE
    /\ UNCHANGED <<limit, age>>

(* The context of the command ends, at its timeout or with the agent; the  *)
(* goroutine that watches it is there only as long as the shell runs.      *)
CancelDue(stopping) == Executing /\ "shell" \in alive /\ (age >= limit \/ stopping)

(* Mutant of KillGroup: the kill reaches the shell only. *)
KillShellOnly(stopping) == CancelDue(stopping) /\ Kill({"shell"})

KillGroup(stopping) == CancelDue(stopping) /\ Kill(Group)

(* cmd.Run returns: the shell was waited for and the output has ended.     *)
Finished == Executing /\ "shell" \notin alive /\ holds = {}

(* What of the command still runs is nobody's concern any more.            *)
Return ==
    /\ Finished
    /\ alive' = {}
    /\ holds' = {}
    /\ limit' = 0
    /\ age' = 0
    /\ killed' = FALSE

CommandStep ==
    \/ \E q, p \in Process : Spawn(q, p)
    \/ \E p \in Process : Exit(p) \/ CloseOutput(p)

(* Time passes; a due kill and a return do not wait. *)
Older(stopping) ==
    /\ ~CancelDue(stopping) /\ ~Finished
    /\ age' = IF Executing /\ age <= limit THEN age + 1 ELSE age
    /\ UNCHANGED <<alive, holds, limit, killed>>

Overdue == Executing /\ age > limit

-----------------------------------------------------------------------------
XType ==
    /\ alive \subseteq Process
    /\ holds \subseteq alive
    /\ limit \in Nat
    /\ age \in 0 .. limit + 1
    /\ killed \in BOOLEAN

(* runShell, "timeout-driven process-group kill": no process of the group  *)
(* outlives the kill, and an execution that goes on past its timeout waits *)
(* for the output only: its shell is gone, in time or killed.              *)
KillReachesGroup ==
    /\ killed => alive \cap Group = {}
    /\ Overdue => "shell" \notin alive

(* internal/protocol/instruction.go: "Node force-kills on overrun".  A     *)
(* process in the background of a shell that has exited keeps the output   *)
(* open, nobody is left to watch the timer, and the execution has no end.  *)
OverrunIsKilled == ~Overdue

=============================================================================
