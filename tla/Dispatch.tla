------------------------------ MODULE Dispatch ------------------------------
(***************************************************************************)
(* The dispatch path of one node, end to end: the API handlers that create *)
(* tasks, the manager's connection handlers that flush the queue and       *)
(* record results, the registry entry both look up, the connections, and   *)
(* the node's session loop with its executor.                              *)
(*                                                                         *)
(* A manager process is either the creator of a task (named by the task)   *)
(* or the handler of a connection (named by the connection).  Its program  *)
(* counter stands where the code may be interleaved: at a lock, at the     *)
(* store, at a blocking Send.  Task numbers are in created_at order.       *)
(***************************************************************************)
EXTENDS Naturals, Sequences, FiniteSets, DedupWindow

CONSTANTS
    Task,           \* task ids, numbers in the order of created_at
    Conn,           \* connection identities, reused once fully torn down
    NoConn,         \* "no connection"
    NoTask,         \* "no task"
    SendBuffer,     \* frames a direction of a connection holds before Send blocks
    ManagerWindow,  \* dedupWindow of the dispatcher (4096 in the code)
    NodeWindow,     \* dedupWindow of the executor (1024 in the code)
    MCPTask,        \* the tasks created by an MCP call, which waits for them
    Endings,        \* the ways an instruction may end in this configuration
    Failures,       \* the kinds of failure that may happen
    MaxFaults       \* bound on how many happen

ASSUME TaskAssumption ==
    /\ Task \subseteq Nat
    /\ NoTask \notin Task
    /\ MCPTask \subseteq Task
    /\ Endings \subseteq {"exit0", "exitN", "killed", "discarded"}
ASSUME ConnAssumption == NoConn \notin Conn /\ Conn \cap Task = {}
ASSUME BoundAssumption ==
    /\ SendBuffer \in Nat \ {0}
    /\ ManagerWindow \in Nat \ {0}
    /\ NodeWindow \in Nat \ {0}
    /\ MaxFaults \in Nat
    /\ Failures \subseteq
         {"link", "node", "manager", "silence", "store", "request", "giveup"}

VARIABLES
    \* the store (survives a manager crash)
    task,       \* the state column of the task table, "none" without a row
    late,       \* tasks whose deadline the manager's clock has passed
    \* the manager process
    reg,        \* the connection in the registry's session for the node
    pc,         \* where each creator and each handler stands
    cur,        \* the task a process is sending or completing
    dst,        \* the connection a process looked up to send on
    todo,       \* rest of a flush's snapshot of queued tasks
    due,        \* the tasks of the snapshot that were past their deadline
    got,        \* the result a handler has received and is recording
    flushed,    \* connections whose handler has finished a flush
    seen,       \* Dispatcher.seen
    seenOrder,  \* Dispatcher.seenOrder
    waiter,     \* per task: no MCP caller, one waiting, or the row it was given
    \* connections
    link,       \* the manager's end: "up", or "down" (closed or never opened)
    up,         \* frames on their way from the node
    down,       \* frames on their way to the node
    \* the node process
    nconn,      \* the connection Serve is running on
    exec,       \* the instruction being executed
    nres,       \* Executor.seen: remembered result per instruction
    nresOrder,  \* Executor.seenOrder
    \* history and bounds
    offered,    \* tasks ever accepted by the Send of some connection
    produced,   \* per task, every result a node process produced
    ran,        \* instructions executed by the current node process
    faults      \* failures so far

storeVars == <<task, late>>
sessVars  == <<reg, flushed>>
procVars  == <<pc, cur, dst, todo, due, got>>
dedupVars == <<seen, seenOrder>>
linkVars  == <<link, up, down>>
nodeVars  == <<nconn, exec, nres, nresOrder, ran>>
histVars  == <<offered, produced>>

vars == <<storeVars, sessVars, procVars, dedupVars, waiter, linkVars,
          nodeVars, histVars, faults>>

Proc == Task \cup Conn

-----------------------------------------------------------------------------
(* The abstract task service, seen in this module's state: the rows of the *)
(* task table, the deadlines, and the history of deliveries and results.   *)
TS == INSTANCE TaskService
        WITH Task <- Task, task <- task, late <- late,
             offered <- offered, produced <- produced

(* The values that travel: its vocabulary. *)

Result == TS!Result
StateOf(r) == TS!StateOf(r)
Outcome == TS!Outcome
TaskState == TS!TaskState
Terminal == TS!Terminal

(* A frame from the node: its register notification or a result. *)
RegisterFrame == [kind |-> "register", id |-> NoTask, res |-> "none"]
ResultFrame(t, r) == [kind |-> "result", id |-> t, res |-> r]
Frame == {RegisterFrame} \cup {ResultFrame(t, r) : t \in Task, r \in Result}

-----------------------------------------------------------------------------
(* A failure of an allowed kind: a broken link, a crash of the node or of  *)
(* the manager, a session silent for 90 s, a store error, a request or an  *)
(* MCP wait that ends early.  Each is counted against MaxFaults.           *)
Fault(kind) == kind \in Failures /\ faults < MaxFaults /\ faults' = faults + 1

(* Of the frames on their way from the node at most n still arrive. *)
Prefix(q, k) == SubSeq(q, 1, k)
ArriveAtMost(c, n) ==
    \E k \in 0..Len(up[c]) : k <= n /\ up' = [up EXCEPT ![c] = Prefix(@, k)]

(* Close of the manager's end: frames still on the wire are lost, except   *)
(* that readPump may hold one decoded frame its select still hands over.   *)
CloseManagerEnd(c) ==
    IF link[c] = "up"
    THEN link' = [link EXCEPT ![c] = "down"] /\ ArriveAtMost(c, 1)
    ELSE UNCHANGED <<link, up>>

(* Frames the node had not put on the wire are lost with its process or    *)
(* its socket: some suffix of what it sent.                                *)
LoseUnsent(c) == ArriveAtMost(c, Len(up[c]))

(* Where a process returns from the dispatcher's send. *)
Back(p) == IF p \in Task THEN "done" ELSE "flush"

Goto(p, label) == pc' = [pc EXCEPT ![p] = label]

(* Locals are cleared where they go out of scope. *)
Drop(p) == cur' = [cur EXCEPT ![p] = IF p \in Task THEN p ELSE NoTask]
Return(p) == /\ Goto(p, Back(p))
             /\ Drop(p)
             /\ dst' = [dst EXCEPT ![p] = NoConn]

-----------------------------------------------------------------------------
Init ==
    /\ task = [t \in Task |-> "none"]
    /\ late = {}
    /\ reg = NoConn
    /\ pc = [p \in Proc |-> "idle"]
    /\ cur = [p \in Proc |-> IF p \in Task THEN p ELSE NoTask]
    /\ dst = [p \in Proc |-> NoConn]
    /\ todo = [c \in Conn |-> {}]
    /\ due = [c \in Conn |-> {}]
    /\ got = [c \in Conn |-> "none"]
    /\ flushed = {}
    /\ seen = {}
    /\ seenOrder = <<>>
    /\ waiter = [t \in Task |-> "none"]
    /\ link = [c \in Conn |-> "down"]
    /\ up = [c \in Conn |-> <<>>]
    /\ down = [c \in Conn |-> <<>>]
    /\ nconn = NoConn
    /\ exec = NoTask
    /\ nres = [t \in Task |-> "none"]
    /\ nresOrder = <<>>
    /\ offered = {}
    /\ produced = [t \in Task |-> {}]
    /\ ran = {}
    /\ faults = 0

-----------------------------------------------------------------------------
(* Creating a task.  An MCP call registers its waiter before CreateTask,   *)
(* an API call has none.  The row is inserted before the registry is read. *)
Submit(t) ==
    /\ pc[t] = "idle"
    /\ task[t] = "none"
    /\ task' = [task EXCEPT ![t] = "queued"]
    /\ waiter' = [waiter EXCEPT ![t] = IF t \in MCPTask THEN "waiting" ELSE "none"]
    /\ Goto(t, "lookup")
    /\ UNCHANGED <<late, sessVars, cur, dst, todo, due, got, dedupVars,
                   linkVars, nodeVars, histVars, faults>>

(* The MCP caller gives up: its context ended or mcpCallTimeout passed. *)
CancelWait(t) ==
    /\ waiter[t] = "waiting"
    /\ pc[t] = "done"
    /\ Fault("giveup")
    /\ waiter' = [waiter EXCEPT ![t] = "none"]
    /\ UNCHANGED <<storeVars, sessVars, procVars, dedupVars, linkVars,
                   nodeVars, histVars>>

(* The shared send of creators and flushing handlers: look the connection  *)
(* up in the registry; Send looks whether it is done, ...                  *)
LookupConn(p) ==
    /\ pc[p] = "lookup"
    /\ IF reg = NoConn \/ link[reg] = "down"
       THEN Return(p)
       ELSE /\ Goto(p, "push")
            /\ dst' = [dst EXCEPT ![p] = reg]
            /\ UNCHANGED cur
    /\ UNCHANGED <<storeVars, sessVars, todo, due, got, dedupVars, waiter,
                   linkVars, nodeVars, histVars, faults>>

(* Mutant of Push: an unbounded send channel. *)
PushUnbounded(p) ==
    /\ pc[p] = "push"
    /\ down' = [down EXCEPT ![dst[p]] = Append(@, cur[p])]
    /\ offered' = offered \cup {cur[p]}
    /\ Goto(p, "mark")
    /\ dst' = [dst EXCEPT ![p] = NoConn]
    /\ UNCHANGED <<storeVars, sessVars, cur, todo, due, got, dedupVars,
                   waiter, link, up, nodeVars, produced, faults>>

(* ... then selects: the instruction goes into the send channel, be the    *)
(* connection done by now, ...                                             *)
Push(p) ==
    /\ pc[p] = "push"
    /\ Len(down[dst[p]]) < SendBuffer
    /\ down' = [down EXCEPT ![dst[p]] = Append(@, cur[p])]
    /\ offered' = offered \cup {cur[p]}
    /\ Goto(p, "mark")
    /\ dst' = [dst EXCEPT ![p] = NoConn]
    /\ UNCHANGED <<storeVars, sessVars, cur, todo, due, got, dedupVars,
                   waiter, link, up, nodeVars, produced, faults>>

(* Mutant of PushFails: the error of Send is not looked at. *)
PushErrorIgnored(p) ==
    /\ pc[p] = "push"
    /\ link[dst[p]] = "down"
    /\ Goto(p, "mark")
    /\ dst' = [dst EXCEPT ![p] = NoConn]
    /\ UNCHANGED <<storeVars, sessVars, cur, todo, due, got, dedupVars,
                   waiter, linkVars, nodeVars, histVars, faults>>

(* ... or Send fails, because the connection is done ... *)
PushFails(p) ==
    /\ pc[p] = "push"
    /\ link[dst[p]] = "down"
    /\ Return(p)
    /\ UNCHANGED <<storeVars, sessVars, todo, due, got, dedupVars,
                   waiter, linkVars, nodeVars, histVars, faults>>

(* ... or when a creator's request context ends (a handler's never does),  *)
PushCancelled(t) ==
    /\ t \in Task
    /\ pc[t] = "push"
    /\ Fault("request")
    /\ Return(t)
    /\ UNCHANGED <<storeVars, sessVars, todo, due, got, dedupVars,
                   waiter, linkVars, nodeVars, histVars>>

(* ... and mark the task sent, whatever its state has become meanwhile.    *)
MarkSent(p) ==
    /\ pc[p] = "mark"
    /\ task' = [task EXCEPT ![cur[p]] = "sent"]
    /\ Return(p)
    /\ UNCHANGED <<late, sessVars, todo, due, got, dedupVars, waiter,
                   linkVars, nodeVars, histVars, faults>>

-----------------------------------------------------------------------------
(* A connection at the manager.                                            *)

(* wssAuth passed and the websocket is accepted; the node's Serve sends    *)
(* its register notification first.  An identity is reused only when       *)
(* nothing of its previous life is left.                                   *)
Dial(c) ==
    /\ nconn = NoConn /\ exec = NoTask
    /\ link[c] = "down" /\ pc[c] = "idle"
    /\ \A p \in Proc : pc[p] = "push" => dst[p] # c
    /\ nconn' = c
    /\ link' = [link EXCEPT ![c] = "up"]
    /\ up' = [up EXCEPT ![c] = <<RegisterFrame>>]
    /\ down' = [down EXCEPT ![c] = <<>>]
    /\ Goto(c, "add")
    /\ UNCHANGED <<storeVars, sessVars, cur, dst, todo, due, got, dedupVars,
                   waiter, exec, nres, nresOrder, ran, histVars, faults>>

(* Registry.Add: close and replace whatever session the node has. *)
AddSession(c) ==
    /\ pc[c] = "add"
    /\ IF reg = NoConn THEN UNCHANGED <<link, up>> ELSE CloseManagerEnd(reg)
    /\ reg' = c
    /\ Goto(c, "read")
    /\ UNCHANGED <<storeVars, flushed, cur, dst, todo, due, got, dedupVars,
                   waiter, down, nodeVars, histVars, faults>>

Receive(c, kind) ==
    /\ pc[c] = "read"
    /\ up[c] # <<>>
    /\ Head(up[c]).kind = kind
    /\ up' = [up EXCEPT ![c] = Tail(@)]

(* Mutant of ReadRegister: registering does not flush. *)
RegisterOnly(c) ==
    /\ Receive(c, "register")
    /\ UNCHANGED <<storeVars, sessVars, procVars, dedupVars, waiter, link, down,
                   nodeVars, histVars, faults>>

(* handleRegister: upsert the node, then FlushQueue takes the snapshot of  *)
(* queued tasks and reads the clock once.                                  *)
ReadRegister(c) ==
    /\ Receive(c, "register")
    /\ todo' = [todo EXCEPT ![c] = {t \in Task : task[t] = "queued"}]
    /\ due' = [due EXCEPT ![c] = {t \in late : task[t] = "queued"}]
    /\ Goto(c, "flush")
    /\ UNCHANGED <<storeVars, sessVars, cur, dst, got, dedupVars, waiter, link,
                   down, nodeVars, histVars, faults>>

(* The node row or the queued tasks cannot be read: no flush happens. *)
RegisterFails(c) ==
    /\ Receive(c, "register")
    /\ Fault("store")
    /\ UNCHANGED <<storeVars, sessVars, procVars, dedupVars, waiter, link,
                   down, nodeVars, histVars>>

(* The flush goes through its snapshot in created_at order. *)
NextInFlush(c, t) ==
    /\ pc[c] = "flush"
    /\ t \in todo[c]
    /\ \A u \in todo[c] : t <= u
    /\ todo' = [todo EXCEPT ![c] = @ \ {t}]

(* A task of the snapshot that was late is marked expired, ... *)
FlushExpire(c, t) ==
    /\ NextInFlush(c, t)
    /\ t \in due[c]
    /\ due' = [due EXCEPT ![c] = @ \ {t}]
    /\ \/ task' = [task EXCEPT ![t] = "expired"] /\ UNCHANGED faults
       \/ Fault("store") /\ UNCHANGED task      \* the error is ignored
    /\ UNCHANGED <<late, sessVars, pc, cur, dst, got, dedupVars, waiter,
                   linkVars, nodeVars, histVars>>

(* ... any other is sent. *)
FlushSend(c, t) ==
    /\ NextInFlush(c, t)
    /\ t \notin due[c]
    /\ cur' = [cur EXCEPT ![c] = t]
    /\ Goto(c, "lookup")
    /\ UNCHANGED <<storeVars, sessVars, dst, due, got, dedupVars, waiter,
                   linkVars, nodeVars, histVars, faults>>

(* Mutant of FlushDone: the flush may give up before its snapshot is done. *)
FlushGivesUp(c) ==
    /\ pc[c] = "flush"
    /\ flushed' = flushed \cup {c}
    /\ todo' = [todo EXCEPT ![c] = {}]
    /\ Goto(c, "read")
    /\ UNCHANGED <<storeVars, reg, cur, dst, due, got, dedupVars, waiter,
                   linkVars, nodeVars, histVars, faults>>

FlushDone(c) ==
    /\ pc[c] = "flush"
    /\ todo[c] = {}
    /\ flushed' = flushed \cup {c}
    /\ Goto(c, "read")
    /\ UNCHANGED <<storeVars, reg, cur, dst, todo, due, got, dedupVars, waiter,
                   linkVars, nodeVars, histVars, faults>>

(* HandleResult: drop a result whose id is in the window, ... *)
ReadResult(c) ==
    /\ Receive(c, "result")
    /\ IF Head(up[c]).id \in seen
       THEN UNCHANGED <<pc, cur, got>>
       ELSE /\ Goto(c, "claim")
            /\ cur' = [cur EXCEPT ![c] = Head(up[c]).id]
            /\ got' = [got EXCEPT ![c] = Head(up[c]).res]
    /\ UNCHANGED <<storeVars, sessVars, dst, todo, due, dedupVars, waiter,
                   link, down, nodeVars, histVars, faults>>

(* ... else enter it there, under a second acquisition of the mutex, ... *)
MarkSeen(c) ==
    /\ pc[c] = "claim"
    /\ seen' = (seen \cup {cur[c]}) \ Evicted(seenOrder, cur[c], ManagerWindow)
    /\ seenOrder' = Pushed(seenOrder, cur[c], ManagerWindow)
    /\ Goto(c, "complete")
    /\ UNCHANGED <<storeVars, sessVars, cur, dst, todo, due, got, waiter,
                   linkVars, nodeVars, histVars, faults>>

(* Mutant of CompleteTask: the exit code is not looked at. *)
CompleteIgnoringExitCode(c) ==
    /\ pc[c] = "complete"
    /\ task' = [task EXCEPT ![cur[c]] =
                   IF got[c] = "killed" THEN "timeout" ELSE "succeeded"]
    /\ Goto(c, "notify")
    /\ UNCHANGED <<late, sessVars, cur, dst, todo, due, got, dedupVars, waiter,
                   linkVars, nodeVars, histVars, faults>>

(* Mutant of CompleteTask: the handler returns before it notifies. *)
CompleteWithoutNotice(c) ==
    /\ pc[c] = "complete"
    /\ task' = [task EXCEPT ![cur[c]] = StateOf(got[c])]
    /\ Goto(c, "read")
    /\ Drop(c)
    /\ got' = [got EXCEPT ![c] = "none"]
    /\ UNCHANGED <<late, sessVars, dst, todo, due, dedupVars, waiter,
                   linkVars, nodeVars, histVars, faults>>

(* ... record the outcome, whatever the task's state is, ... *)
CompleteTask(c) ==
    /\ pc[c] = "complete"
    /\ task' = [task EXCEPT ![cur[c]] = StateOf(got[c])]
    /\ Goto(c, "notify")
    /\ UNCHANGED <<late, sessVars, cur, dst, todo, due, got, dedupVars, waiter,
                   linkVars, nodeVars, histVars, faults>>

EndResult(c) ==
    /\ Goto(c, "read")
    /\ Drop(c)
    /\ got' = [got EXCEPT ![c] = "none"]

(* ... and hand the row, read again, to the task's waiter if it has one. *)
NotifyWaiter(c) ==
    /\ pc[c] = "notify"
    /\ waiter' = IF waiter[cur[c]] = "waiting"
                 THEN [waiter EXCEPT ![cur[c]] = task[cur[c]]] ELSE waiter
    /\ EndResult(c)
    /\ UNCHANGED <<storeVars, sessVars, dst, todo, due, dedupVars, linkVars,
                   nodeVars, histVars, faults>>

(* An error of the store at UpdateTaskState (for a creator also the end of *)
(* its request context), CompleteTask or GetTask: the step has no effect.  *)
StoreFails(p) ==
    /\ Fault("store")
    /\ \/ pc[p] = "mark" /\ Return(p) /\ UNCHANGED got
       \/ pc[p] \in {"complete", "notify"} /\ EndResult(p) /\ UNCHANGED dst
    /\ UNCHANGED <<storeVars, sessVars, todo, due, dedupVars, waiter, linkVars,
                   nodeVars, histVars>>

(* handleConn returns; its deferred Remove drops whatever session the      *)
(* registry holds for the node.                                            *)
Leave(c) ==
    /\ pc[c] = "read"
    /\ link[c] = "down"
    /\ reg' = NoConn
    /\ flushed' = flushed \ {c}
    /\ up' = [up EXCEPT ![c] = <<>>]
    /\ Goto(c, "idle")
    /\ UNCHANGED <<storeVars, cur, dst, todo, due, got, dedupVars, waiter,
                   link, down, nodeVars, histVars, faults>>

-----------------------------------------------------------------------------
(* The node: one goroutine reads frames, executes and reports.             *)

(* conn.Send on the node's end; on a connection the manager has closed the *)
(* frame goes nowhere.                                                     *)
Report(c, frame) ==
    IF link[c] = "up"
    THEN Len(up[c]) < SendBuffer /\ up' = [up EXCEPT ![c] = Append(@, frame)]
    ELSE UNCHANGED up

(* Executor.remember, and the history of results. *)
Remember(t, r) ==
    /\ nresOrder' = Pushed(nresOrder, t, NodeWindow)
    /\ nres' = [u \in Task |->
                  CASE u \in Evicted(nresOrder, t, NodeWindow) -> "none"
                    [] u = t -> r
                    [] OTHER -> nres[u]]
    /\ produced' = [produced EXCEPT ![t] = @ \cup {r}]

TakeInstruction(t) ==
    /\ nconn \in Conn
    /\ exec = NoTask
    /\ down[nconn] # <<>>
    /\ t = Head(down[nconn])
    /\ down' = [down EXCEPT ![nconn] = Tail(@)]

(* A repeated instruction: replay the remembered result. *)
NodeReplay(t) ==
    /\ TakeInstruction(t)
    /\ nres[t] # "none"
    /\ Report(nconn, ResultFrame(t, nres[t]))
    /\ UNCHANGED <<storeVars, sessVars, procVars, dedupVars, waiter, link,
                   nodeVars, histVars, faults>>

(* Past its deadline on the node's clock, which nothing ties to the        *)
(* manager's: remembered and reported, not executed.                       *)
NodeDiscard(t) ==
    /\ "discarded" \in Endings
    /\ TakeInstruction(t)
    /\ nres[t] = "none"
    /\ Remember(t, "discarded")
    /\ Report(nconn, ResultFrame(t, "discarded"))
    /\ UNCHANGED <<storeVars, sessVars, procVars, dedupVars, waiter, link,
                   nconn, exec, ran, offered, faults>>

NodeStart(t) ==
    /\ TakeInstruction(t)
    /\ nres[t] = "none"
    /\ exec' = t
    /\ ran' = ran \cup {t}
    /\ UNCHANGED <<storeVars, sessVars, procVars, dedupVars, waiter, link, up,
                   nconn, nres, nresOrder, histVars, faults>>

(* Executing blocks the session loop until the result is reported. *)
NodeFinish(r) ==
    /\ exec # NoTask
    /\ Remember(exec, r)
    /\ Report(nconn, ResultFrame(exec, r))
    /\ exec' = NoTask
    /\ UNCHANGED <<storeVars, sessVars, procVars, dedupVars, waiter, link, down,
                   nconn, ran, offered, faults>>

-----------------------------------------------------------------------------
(* Time and failures.                                                      *)

(* A deadline matters here only while the task is queued. *)
DeadlinePasses(t) ==
    /\ task[t] = "queued"
    /\ late' = late \cup {t}
    /\ t \notin late
    /\ UNCHANGED <<task, sessVars, procVars, dedupVars, waiter, linkVars,
                   nodeVars, histVars, faults>>

(* The manager's end of a connection breaks: by itself, or because its     *)
(* node is gone and the peer's silence is noticed.                         *)
Break(c) ==
    /\ link[c] = "up"
    /\ IF nconn = c THEN Fault("link") ELSE UNCHANGED faults
    /\ CloseManagerEnd(c)
    /\ UNCHANGED <<storeVars, sessVars, procVars, dedupVars, waiter, down,
                   nodeVars, histVars>>

(* The handler of a connection is itself waiting to put a frame in a full  *)
(* send channel, so it receives, and touches the session, no more.         *)
HandlerBlocked(c) ==
    /\ pc[c] = "push"
    /\ link[dst[c]] = "up"
    /\ Len(down[dst[c]]) = SendBuffer

(* Mutant of Reap: a stale session is neither closed nor removed. *)
ReapLeavesSession ==
    /\ reg # NoConn
    /\ nconn # reg \/ HandlerBlocked(reg)
    /\ UNCHANGED vars

(* Mutant of Reap: the session is removed, its connection stays open. *)
ReapWithoutClose ==
    /\ reg # NoConn
    /\ IF nconn # reg \/ HandlerBlocked(reg)
       THEN UNCHANGED faults ELSE Fault("silence")
    /\ reg' = NoConn
    /\ UNCHANGED <<storeVars, flushed, procVars, dedupVars, waiter, linkVars,
                   nodeVars, histVars>>

(* ReapStale: no frame of the registered session was handled for too long, *)
(* because its node is gone, its handler blocked, or the node busy.        *)
Reap ==
    /\ reg # NoConn
    /\ IF nconn # reg \/ HandlerBlocked(reg)
       THEN UNCHANGED faults ELSE Fault("silence")
    /\ CloseManagerEnd(reg)
    /\ reg' = NoConn
    /\ UNCHANGED <<storeVars, flushed, procVars, dedupVars, waiter, down,
                   nodeVars, histVars>>

(* Serve returns: the node's end is broken, or it saw the manager's close. *)
NodeDrop ==
    /\ nconn \in Conn
    /\ exec = NoTask
    /\ IF link[nconn] = "up" THEN Fault("link") ELSE UNCHANGED faults
    /\ nconn' = NoConn
    /\ down' = [down EXCEPT ![nconn] = <<>>]
    /\ LoseUnsent(nconn)
    /\ UNCHANGED <<storeVars, sessVars, procVars, dedupVars, waiter, link,
                   exec, nres, nresOrder, ran, histVars>>

(* The node process dies and is started again with empty windows. *)
NodeCrash ==
    /\ Fault("node")
    /\ nconn' = NoConn
    /\ exec' = NoTask
    /\ nres' = [t \in Task |-> "none"]
    /\ nresOrder' = <<>>
    /\ ran' = {}
    /\ IF nconn \in Conn
       THEN down' = [down EXCEPT ![nconn] = <<>>] /\ LoseUnsent(nconn)
       ELSE UNCHANGED <<down, up>>
    /\ UNCHANGED <<storeVars, sessVars, procVars, dedupVars, waiter, link,
                   histVars>>

(* The manager process dies and is started again: only the store is left. *)
ManagerCrash ==
    /\ Fault("manager")
    /\ reg' = NoConn
    /\ flushed' = {}
    /\ pc' = [p \in Proc |-> IF p \in Task /\ pc[p] # "idle" THEN "done" ELSE "idle"]
    /\ cur' = [p \in Proc |-> IF p \in Task THEN p ELSE NoTask]
    /\ dst' = [p \in Proc |-> NoConn]
    /\ got' = [c \in Conn |-> "none"]
    /\ todo' = [c \in Conn |-> {}]
    /\ due' = [c \in Conn |-> {}]
    /\ seen' = {}
    /\ seenOrder' = <<>>
    /\ waiter' = [t \in Task |-> IF waiter[t] = "waiting" THEN "none" ELSE waiter[t]]
    /\ link' = [c \in Conn |-> "down"]
    /\ up' = [c \in Conn |-> <<>>]
    /\ UNCHANGED <<storeVars, down, nodeVars, histVars>>

(* A heartbeat over an otherwise idle session changes nothing kept here. *)
IdleHeartbeat(c) ==
    /\ nconn = c /\ exec = NoTask
    /\ pc[c] = "read" /\ link[c] = "up"
    /\ up[c] = <<>> /\ down[c] = <<>>
    /\ UNCHANGED vars

-----------------------------------------------------------------------------
CreatorStep(t) ==
    \/ Submit(t)
    \/ CancelWait(t)
    \/ PushCancelled(t)

SendStep(p) == LookupConn(p) \/ Push(p) \/ PushFails(p) \/ MarkSent(p)

HandlerStep(c) ==
    \/ AddSession(c) \/ ReadRegister(c) \/ FlushDone(c)
    \/ \E t \in Task : FlushExpire(c, t) \/ FlushSend(c, t)
    \/ ReadResult(c) \/ MarkSeen(c) \/ CompleteTask(c) \/ NotifyWaiter(c)
    \/ Leave(c)

NodeStep ==
    \/ \E t \in Task : NodeReplay(t) \/ NodeDiscard(t) \/ NodeStart(t)
    \/ \E r \in Endings \ {"discarded"} : NodeFinish(r)

Failure ==
    \/ \E p \in Proc : StoreFails(p)
    \/ \E c \in Conn : RegisterFails(c) \/ Break(c)
    \/ Reap \/ NodeDrop \/ NodeCrash \/ ManagerCrash

Next ==
    \/ \E t \in Task : CreatorStep(t) \/ DeadlinePasses(t)
    \/ \E p \in Proc : SendStep(p)
    \/ \E c \in Conn : Dial(c) \/ HandlerStep(c) \/ IdleHeartbeat(c)
    \/ NodeStep
    \/ Failure

Spec == Init /\ [][Next]_vars

(* Fairness.  Every goroutine that can run does; a command ends within its *)
(* timeout, the agent redials for ever, and it notices a closed connection.*)
(* The reaper's ticker runs, and TCP gives up on a peer that is gone.      *)
NodeNotices == NodeDrop /\ link[nconn] = "down"
ReapSilent == Reap /\ UNCHANGED faults
PeerGone == \E c \in Conn : nconn # c /\ Break(c)

Fairness ==
    /\ \A p \in Proc : WF_vars(SendStep(p))
    /\ \A c \in Conn : WF_vars(HandlerStep(c))
    /\ WF_vars(\E c \in Conn : Dial(c))
    /\ WF_vars(NodeStep)
    /\ WF_vars(NodeNotices)
    /\ WF_vars(ReapSilent)
    /\ WF_vars(PeerGone)

FairSpec == Spec /\ Fairness

-----------------------------------------------------------------------------
CreatorPC == {"idle", "lookup", "push", "mark", "done"}
HandlerPC == {"idle", "add", "read", "flush", "lookup", "push", "mark",
              "claim", "complete", "notify"}

StoreType == task \in [Task -> TaskState] /\ late \subseteq Task

SessType == reg \in Conn \cup {NoConn} /\ flushed \subseteq Conn

PcType ==
    /\ pc \in [Proc -> CreatorPC \cup HandlerPC]
    /\ \A t \in Task : pc[t] \in CreatorPC
    /\ \A c \in Conn : pc[c] \in HandlerPC

CurType ==
    /\ cur \in [Proc -> Task \cup {NoTask}]
    /\ \A t \in Task : cur[t] = t

DstType == dst \in [Proc -> Conn \cup {NoConn}]

HandlerType ==
    /\ todo \in [Conn -> SUBSET Task]
    /\ due \in [Conn -> SUBSET Task]
    /\ got \in [Conn -> Result \cup {"none"}]

DedupType ==
    /\ seen \subseteq Task
    /\ seenOrder \in Seq(Task)
    /\ Len(seenOrder) <= ManagerWindow

WaiterType == waiter \in [Task -> TaskState \cup {"waiting"}]

LinkType ==
    /\ link \in [Conn -> {"up", "down"}]
    /\ up \in [Conn -> Seq(Frame)]
    /\ down \in [Conn -> Seq(Task)]
    /\ \A c \in Conn : Len(up[c]) <= SendBuffer
    /\ \A c \in Conn : Len(down[c]) <= SendBuffer

NodeType ==
    /\ nconn \in Conn \cup {NoConn}
    /\ exec \in Task \cup {NoTask}
    /\ nres \in [Task -> Result \cup {"none"}]
    /\ nresOrder \in Seq(Task)
    /\ Len(nresOrder) <= NodeWindow
    /\ ran \subseteq Task

HistType ==
    /\ offered \subseteq Task
    /\ produced \in [Task -> SUBSET Result]
    /\ faults \in 0..MaxFaults

(* Every variable holds a value of its type; the windows and the send      *)
(* channels never exceed their size.                                       *)
TypeOK ==
    /\ StoreType /\ SessType /\ PcType /\ CurType /\ DstType
    /\ HandlerType /\ DedupType /\ WaiterType /\ LinkType /\ NodeType /\ HistType

(* HandleResult pairs results with tasks: whatever is recorded for a task, *)
(* or handed to its MCP caller, is the outcome of a result that a node     *)
(* process produced for that very task, across replays, replaced           *)
(* connections and crashes of either side.                                 *)
Real(t, state) == \E r \in produced[t] : state = StateOf(r)

ResultsReal ==
    \A t \in Task : /\ task[t] \in Outcome => Real(t, task[t])
                    /\ waiter[t] \in Outcome => Real(t, waiter[t])

(* CreateTask inserts the row before it looks at the registry and the      *)
(* handler registers the session before it flushes, so no task falls       *)
(* between the two: once the registered session's flush is over, a queued  *)
(* task has a creator that is still sending it.  (Without store errors and *)
(* cancelled requests, after which a task waits for the next connection.)  *)
NoStrandedTask ==
    \A c \in Conn, t \in Task :
        reg = c /\ link[c] = "up" /\ c \in flushed /\ task[t] = "queued"
            => pc[t] \in {"lookup", "push", "mark"}

(* run_command registers its waiter before it creates the task, and the    *)
(* handler notifies after it has recorded the outcome: a recorded outcome  *)
(* never leaves an MCP caller waiting that nobody is about to tell.        *)
(* (Without store errors: HandleResult gives up when GetTask fails.)       *)
WaiterIsTold ==
    \A t \in Task : waiter[t] = "waiting" /\ task[t] \in Outcome
        => \E c \in Conn : pc[c] = "notify" /\ cur[c] = t

(* Who waits in Send, creator or flushing handler of whatever connection,  *)
(* waits for the registered one or for one that is closed: the reaper sees *)
(* every full send channel that somebody waits for.  (As long as no stale  *)
(* handler has taken the session out of the registry.)                     *)
SendersAreSeen ==
    \A p \in Proc : pc[p] = "push" /\ link[dst[p]] = "up" => reg = dst[p]

(* Add and ReapStale close what they take out of the registry: a session   *)
(* leaves it with its connection open only when the handler of another     *)
(* connection returns.                                                     *)
OpenSessionKept ==
    [][\A c \in Conn : reg = c /\ reg' # c /\ link'[c] = "up"
           => \E d \in Conn \ {c} : Leave(d)]_vars

(* Executor.Execute is idempotent: however often an instruction is sent    *)
(* again, one node process with a large enough window runs it once.        *)
AtMostOncePerProcess ==
    [][exec' # exec /\ exec' # NoTask => exec' \notin ran]_vars

(* The dispatch path implements the abstract task service. *)
TaskServiceSpec == TS!TSpec

(* FlushQueue and CreateTask together: if the node's session in the        *)
(* registry stays up from some time on, no task stays queued for ever.     *)
QueueDrains ==
    (\E c \in Conn : <>[](reg = c /\ link[c] = "up"))
        => \A t \in Task : (task[t] = "queued") ~> (task[t] # "queued")

(* A full send channel blocks Send, and a flushing handler that blocks     *)
(* stops reading, so node and manager can wait for each other.  The reaper *)
(* breaks such a wait: as long as no stale handler has taken the session   *)
(* out of the registry (one connection at a time), every Send returns.     *)
SendReturns == \A p \in Proc : (pc[p] = "push") ~> (pc[p] # "push")

-----------------------------------------------------------------------------
(* Claims of the documentation, comments and tests that the code breaks.   *)

(* docs/design/03-rest-api.md, the task state machine: succeeded, failed,  *)
(* timeout and expired are final, a client polls until it sees one.  The   *)
(* mark is unconditional: a task that the flush has found past its         *)
(* deadline and marked expired goes to sent when its creator, who has put  *)
(* it in the send channel before, comes to mark it.                        *)
TerminalFinal ==
    [][\A t \in Task : task[t] \in Terminal => task'[t] = task[t]]_vars

(* The same of recorded results alone: the outcome of a fast command is    *)
(* recorded by the handler before the sender has marked the task sent, and *)
(* the mark takes it away again.                                           *)
OutcomeKept ==
    [][\A t \in Task : task[t] \in Outcome => task'[t] = task[t]]_vars

(* registry_test.go: after a replacement the registry holds the fresh      *)
(* connection.  The replaced handler's deferred Remove takes it out again, *)
(* and the node stays connected to a manager that believes it is offline.  *)
ServedSessionRegistered ==
    \A c \in Conn : pc[c] \notin {"idle", "add"} /\ link[c] = "up" => reg = c

(* docs/design/01-protocol.md: delivery is at least once, a task that was  *)
(* sent is sent again after a reconnect.  The code resends queued tasks    *)
(* only, so a lost instruction or result leaves its task sent for ever.    *)
SentIsAnswered == \A t \in Task : (task[t] = "sent") ~> (task[t] \in Terminal)

-----------------------------------------------------------------------------
(* The strengthening that makes TypeOK, ResultsReal and the refinement     *)
(* inductive.                                                              *)

(* What a process holds where it stands. *)
SendPC == {"lookup", "push", "mark"}
RecordPC == {"claim", "complete", "notify"}

LocalsOK ==
    /\ \A p \in Proc : pc[p] \in SendPC \cup RecordPC => cur[p] \in Task
    /\ \A p \in Proc : pc[p] = "push" => dst[p] \in Conn
    /\ \A c \in Conn : pc[c] \in {"claim", "complete"} => got[c] \in Result
    /\ exec # NoTask => nconn \in Conn

TypeInv == TypeOK /\ LocalsOK

(* Where every result in flight comes from: what the node remembers, what  *)
(* travels and what a handler is about to record was produced by a node.   *)
NresTraced == \A t \in Task : nres[t] # "none" => nres[t] \in produced[t]

UpTraced ==
    \A c \in Conn : \A i \in 1..Len(up[c]) :
        up[c][i].kind = "result" => up[c][i].res \in produced[up[c][i].id]

GotTraced ==
    \A c \in Conn :
        pc[c] \in {"claim", "complete"} => got[c] \in produced[cur[c]]

(* Where every instruction comes from: what is sent has a row, what the    *)
(* node has was offered to a connection.                                   *)
RowTraced ==
    /\ \A t \in offered : task[t] # "none"
    /\ \A t \in Task : produced[t] # {} => t \in offered

SendTraced ==
    \A p \in Proc : /\ pc[p] \in SendPC => task[cur[p]] # "none"
                    /\ pc[p] = "mark" => cur[p] \in offered

DownTraced == \A c \in Conn : \A i \in 1..Len(down[c]) : down[c][i] \in offered

ExecTraced == exec # NoTask => exec \in offered

FlushTraced ==
    \A c \in Conn : due[c] \subseteq late /\ \A t \in todo[c] : task[t] # "none"

Provenance ==
    /\ ResultsReal /\ NresTraced /\ UpTraced /\ GotTraced
    /\ RowTraced /\ SendTraced /\ DownTraced /\ ExecTraced /\ FlushTraced

=============================================================================
