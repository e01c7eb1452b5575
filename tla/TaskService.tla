---------------------------- MODULE TaskService ----------------------------
(***************************************************************************)
(* What the task service promises to someone who only sees the task table  *)
(* and what the node really did: a task is marked sent only after its      *)
(* instruction was offered to a connection, it is marked expired only past *)
(* its deadline, and a result is recorded only when a node process really  *)
(* produced it for that task.  Connections, handlers, queues, retries,     *)
(* windows and crashes are hidden.                                         *)
(*                                                                         *)
(* The service does not promise that a recorded result stays recorded: the *)
(* store's updates are unconditional, and Mark and Expire may overwrite.   *)
(***************************************************************************)
CONSTANT Task

VARIABLES
    task,       \* the state column of the task table
    late,       \* tasks whose deadline has passed on the manager's clock
    offered,    \* tasks whose instruction was accepted by some connection
    produced    \* per task, the results a node process has produced

tvars == <<task, late, offered, produced>>

(* What an instruction can come to on the node: the command ended with    *)
(* exit code zero, with another code, was killed at its timeout, or was    *)
(* discarded unexecuted because its deadline had passed.                   *)
Result == {"exit0", "exitN", "killed", "discarded"}

(* The task state the manager derives from a result notification.         *)
(* A discarded instruction comes back as exit code -1.                     *)
StateOf(r) == CASE r = "exit0" -> "succeeded"
                [] r = "killed" -> "timeout"
                [] OTHER -> "failed"

Outcome == {"succeeded", "failed", "timeout"}
TaskState == Outcome \cup {"none", "queued", "sent", "expired"}
Terminal == Outcome \cup {"expired"}

TInit ==
    /\ task = [t \in Task |-> "none"]
    /\ late = {}
    /\ offered = {}
    /\ produced = [t \in Task |-> {}]

Create(t) ==
    /\ task[t] = "none"
    /\ task' = [task EXCEPT ![t] = "queued"]
    /\ UNCHANGED <<late, offered, produced>>

DeadlinePassesOn(t) ==
    /\ late' = late \cup {t}
    /\ UNCHANGED <<task, offered, produced>>

Offer(t) ==
    /\ task[t] # "none"
    /\ offered' = offered \cup {t}
    /\ UNCHANGED <<task, late, produced>>

Mark(t) ==
    /\ t \in offered
    /\ task' = [task EXCEPT ![t] = "sent"]
    /\ UNCHANGED <<late, offered, produced>>

Expire(t) ==
    /\ task[t] # "none"
    /\ t \in late
    /\ task' = [task EXCEPT ![t] = "expired"]
    /\ UNCHANGED <<late, offered, produced>>

Produce(t, r) ==
    /\ t \in offered
    /\ produced' = [produced EXCEPT ![t] = @ \cup {r}]
    /\ UNCHANGED <<task, late, offered>>

Record(t, r) ==
    /\ r \in produced[t]
    /\ task' = [task EXCEPT ![t] = StateOf(r)]
    /\ UNCHANGED <<late, offered, produced>>

TNext == \E t \in Task :
    \/ Create(t) \/ DeadlinePassesOn(t) \/ Offer(t) \/ Mark(t) \/ Expire(t)
    \/ \E r \in Result : Produce(t, r) \/ Record(t, r)

TSpec == TInit /\ [][TNext]_tvars

=============================================================================
