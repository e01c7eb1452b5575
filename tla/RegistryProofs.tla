--------------------------- MODULE RegistryProofs ---------------------------
(***************************************************************************)
(* What those who look at the registry can rely on, for every number of    *)
(* tasks, connections and overlapping handlers.  CreateTask and FlushQueue *)
(* lose no task between them (NoStrandedTask), as long as neither the      *)
(* store fails nor a request ends early.  What leaves the registry is      *)
(* closed, unless a handler returns that was replaced (OpenSessionKept);   *)
(* and without such a return every session that is served, and every full  *)
(* channel that somebody waits for, is one the reaper sees, so that no     *)
(* circle of waits lasts.                                                  *)
(***************************************************************************)
EXTENDS DispatchProofs

USE DEF TS!Result, TS!Outcome, TS!TaskState, TS!Terminal
USE DEF storeVars, sessVars, procVars, dedupVars, linkVars, nodeVars, histVars
USE DEF Proc, CreatorPC, HandlerPC, SendPC, RecordPC, Result, TaskState, Outcome

Lossless == Failures \cap {"store", "request"} = {}

(* The registered connection has a handler that has been added, and what   *)
(* that handler looks up is its own connection.                            *)
Served ==
    /\ \A c \in Conn : reg = c \/ c \in flushed => pc[c] \notin {"idle", "add"}
    /\ \A c \in Conn : reg = c /\ pc[c] = "push" => dst[c] = c

(* The creator of t is on its way to send it to c. *)
CreatorSends(t, c) ==
    \/ pc[t] = "lookup"
    \/ pc[t] = "push" /\ dst[t] = c
    \/ pc[t] = "mark"

(* The handler of c has not come to its flush, or t is ahead of it there.  *)
FlushAhead(c, t) ==
    /\ c \notin flushed
    /\ \/ pc[c] \in {"read", "claim", "complete", "notify"}
       \/ t \in todo[c] /\ pc[c] \in {"flush", "lookup", "push", "mark"}
       \/ cur[c] = t /\ pc[c] \in {"lookup", "push", "mark"}

(* Every queued task is in the hands of one of the two. *)
Handled ==
    \A c \in Conn, t \in Task :
        reg = c /\ link[c] = "up" /\ task[t] = "queued"
            => CreatorSends(t, c) \/ FlushAhead(c, t)

FlushInv == Served /\ Handled

-----------------------------------------------------------------------------
(* What a step needs to know of the types. *)
Shapes ==
    /\ pc \in [Proc -> CreatorPC \cup HandlerPC]
    /\ cur \in [Proc -> Task \cup {NoTask}]
    /\ dst \in [Proc -> Conn \cup {NoConn}]
    /\ todo \in [Conn -> SUBSET Task]
    /\ task \in [Task -> TaskState]
    /\ link \in [Conn -> {"up", "down"}]
    /\ \A t \in Task : pc[t] \in CreatorPC /\ cur[t] = t

LEMMA ShapesKnown == TypeInv => Shapes
  BY DEF TypeInv, TypeOK, PcType, CurType, DstType, HandlerType, StoreType, LinkType, Shapes

(* Closing the manager's end of a connection brings no link up. *)
LEMMA CloseLinks ==
    ASSUME Shapes, NEW d, CloseManagerEnd(d)
    PROVE  \A c \in Conn : link'[c] = "up" => link[c] = "up"
  BY DEF CloseManagerEnd, Shapes

(* Steps of the node, and of links that go down, leave both in place. *)
LEMMA FlushApart ==
    ASSUME FlushInv, UNCHANGED <<task, reg, flushed, pc, cur, dst, todo>>,
           \A c \in Conn : link'[c] = "up" => link[c] = "up"
    PROVE  FlushInv'
  BY DEF FlushInv, Served, Handled, CreatorSends, FlushAhead

(* So does an empty registry, while no handler claims a flush. *)
LEMMA FlushNoSession ==
    ASSUME FlushInv, reg' = NoConn,
           \A c \in Conn : c \in flushed' => c \in flushed /\ pc'[c] = pc[c]
    PROVE  FlushInv'
  BY ConnAssumption DEF FlushInv, Served, Handled

(* The creator inserts the row first, then looks up, then sends. *)
LEMMA FlushCreator ==
    ASSUME Lossless, Shapes, FlushInv, NEW t \in Task, CreatorStep(t) \/ DeadlinePasses(t)
    PROVE  FlushInv'
<1> USE ConnAssumption, TaskAssumption
<1>1. CASE Submit(t)
  BY <1>1 DEF Submit, Goto, Shapes, FlushInv, Served, Handled, CreatorSends, FlushAhead
<1>2. CASE CancelWait(t) \/ DeadlinePasses(t)
  BY <1>2, FlushApart DEF CancelWait, DeadlinePasses
<1>3. CASE PushCancelled(t)
  BY <1>3 DEF PushCancelled, Fault, Lossless
<1> QED BY <1>1, <1>2, <1>3 DEF CreatorStep

(* A send ends with the task marked, or on a closed connection. *)
LEMMA FlushSending ==
    ASSUME Shapes, FlushInv, NEW p \in Proc, SendStep(p)
    PROVE  FlushInv'
<1> USE ConnAssumption, TaskAssumption
<1>1. CASE LookupConn(p)
  <2>1. CASE reg = NoConn \/ link[reg] = "down"
    <3>1. pc[p] = "lookup" /\ UNCHANGED <<reg, link, flushed>>
      BY <1>1 DEF LookupConn
    <3>2. pc' = [pc EXCEPT ![p] = Back(p)] /\ dst' = [dst EXCEPT ![p] = NoConn]
      BY <1>1, <2>1 DEF LookupConn, Return, Goto
    <3>3. /\ pc'[p] \in {"done", "flush"}
          /\ \A q \in Proc : q # p => pc'[q] = pc[q] /\ dst'[q] = dst[q]
      BY <3>2 DEF Shapes, Back
    <3>4. Served'
      BY <3>1, <3>3 DEF FlushInv, Served
    <3>5. Handled'
      BY <2>1, <3>1 DEF Handled
    <3> QED BY <3>4, <3>5 DEF FlushInv
  <2>2. CASE ~(reg = NoConn \/ link[reg] = "down")
    <3>1. UNCHANGED <<reg, link, task, flushed, todo, cur>> /\ pc[p] = "lookup"
      BY <1>1, <2>2 DEF LookupConn
    <3>2. pc' = [pc EXCEPT ![p] = "push"] /\ dst' = [dst EXCEPT ![p] = reg]
      BY <1>1, <2>2 DEF LookupConn, Goto
    <3>3. /\ pc'[p] = "push" /\ dst'[p] = reg /\ pc[p] = "lookup"
          /\ \A q \in Proc : q # p => pc'[q] = pc[q] /\ dst'[q] = dst[q]
      BY <3>1, <3>2 DEF Shapes
    <3>4. Served'
      BY <3>1, <3>3 DEF FlushInv, Served
    <3>5. Handled'
      <4>1. \A c \in Conn, t \in Task : reg = c /\ CreatorSends(t, c) => CreatorSends(t, c)'
        BY <3>1, <3>3 DEF CreatorSends
      <4>2. \A c \in Conn, t \in Task : FlushAhead(c, t) => FlushAhead(c, t)'
        BY <3>1, <3>3 DEF FlushAhead
      <4> QED BY <3>1, <4>1, <4>2 DEF FlushInv, Handled
    <3> QED BY <3>4, <3>5 DEF FlushInv
  <2> QED BY <2>1, <2>2
<1>2. CASE Push(p)
  <2>1. /\ UNCHANGED <<reg, link, task, flushed, todo, cur>>
        /\ pc[p] = "push" /\ pc' = [pc EXCEPT ![p] = "mark"]
        /\ dst' = [dst EXCEPT ![p] = NoConn]
    BY <1>2 DEF Push, Goto
  <2>2. /\ pc'[p] = "mark"
        /\ \A q \in Proc : q # p => pc'[q] = pc[q] /\ dst'[q] = dst[q]
    BY <2>1 DEF Shapes
  <2>3. Served'
    BY <2>1, <2>2 DEF FlushInv, Served
  <2>4. \A c \in Conn, t \in Task : CreatorSends(t, c) => CreatorSends(t, c)'
    BY <2>1, <2>2 DEF CreatorSends
  <2>5. \A c \in Conn, t \in Task : FlushAhead(c, t) => FlushAhead(c, t)'
    BY <2>1, <2>2 DEF FlushAhead
  <2> QED BY <2>1, <2>3, <2>4, <2>5 DEF FlushInv, Handled
<1>3. CASE PushFails(p)
  <2>1. Served'
    BY <1>3 DEF PushFails, Return, Goto, Back, Shapes, FlushInv, Served
  <2>2. ASSUME NEW c \in Conn, NEW t \in Task, reg = c, link[c] = "up", task[t] = "queued"
        PROVE  CreatorSends(t, c)' \/ FlushAhead(c, t)'
    <3>1. p # c
      BY <1>3, <2>2 DEF PushFails, FlushInv, Served
    <3>2. CASE CreatorSends(t, c)
      <4>1. p # t
        BY <1>3, <2>2, <3>2 DEF PushFails, CreatorSends
      <4> QED BY <1>3, <3>2, <4>1 DEF PushFails, Return, Goto, Shapes, CreatorSends
    <3>3. CASE FlushAhead(c, t)
      BY <1>3, <3>1, <3>3 DEF PushFails, Return, Goto, Drop, Shapes, FlushAhead
    <3> QED BY <2>2, <3>2, <3>3 DEF FlushInv, Handled
  <2>3. UNCHANGED <<reg, link, task>>
    BY <1>3 DEF PushFails
  <2> QED BY <2>1, <2>2, <2>3 DEF FlushInv, Handled
<1>4. CASE MarkSent(p)
  <2>1. Served'
    BY <1>4 DEF MarkSent, Return, Goto, Back, Shapes, FlushInv, Served
  <2>2. ASSUME NEW c \in Conn, NEW t \in Task, reg = c, link[c] = "up", task'[t] = "queued"
        PROVE  CreatorSends(t, c)' \/ FlushAhead(c, t)'
    <3>1. task[t] = "queued" /\ cur[p] # t
      BY <1>4, <2>2 DEF MarkSent, Shapes
    <3>2. CASE CreatorSends(t, c)
      BY <1>4, <3>1, <3>2 DEF MarkSent, Return, Goto, Shapes, CreatorSends
    <3>3. CASE FlushAhead(c, t)
      BY <1>4, <3>1, <3>3 DEF MarkSent, Return, Goto, Back, Drop, Shapes, FlushAhead
    <3> QED BY <2>2, <3>1, <3>2, <3>3 DEF FlushInv, Handled
  <2>3. UNCHANGED <<reg, link>>
    BY <1>4 DEF MarkSent
  <2> QED BY <2>1, <2>2, <2>3 DEF FlushInv, Handled
<1> QED BY <1>1, <1>2, <1>3, <1>4 DEF SendStep

(* A new connection is not registered yet. *)
LEMMA FlushDial ==
    ASSUME Shapes, FlushInv, NEW c \in Conn, Dial(c)
    PROVE  FlushInv'
  BY ConnAssumption
  DEF Dial, Goto, Shapes, FlushInv, Served, Handled, CreatorSends, FlushAhead

(* The handler registers before it takes its snapshot, and sends all of it *)
(* before its flush is over.                                               *)
LEMMA FlushHandler ==
    ASSUME Lossless, TypeInv, Shapes, FlushInv, NEW c \in Conn, HandlerStep(c)
    PROVE  FlushInv'
<1> USE ConnAssumption, TaskAssumption
<1>1. CASE AddSession(c)
  <2>1. \A d \in Conn : link'[d] = "up" => link[d] = "up"
    BY <1>1, CloseLinks DEF AddSession
  <2>2. Served'
    BY <1>1 DEF AddSession, Goto, Shapes, FlushInv, Served
  <2>3. c \notin flushed' /\ pc'[c] = "read" /\ reg' = c
    BY <1>1 DEF AddSession, Goto, Shapes, FlushInv, Served
  <2> QED BY <2>2, <2>3 DEF FlushInv, Handled, FlushAhead
<1>2. CASE ReadRegister(c)
  <2>1. UNCHANGED <<reg, link, task, flushed, cur, dst>> /\ pc[c] = "read"
    BY <1>2 DEF ReadRegister, Receive
  <2>2. todo' = [todo EXCEPT ![c] = {t \in Task : task[t] = "queued"}]
    BY <1>2 DEF ReadRegister
  <2>3. pc' = [pc EXCEPT ![c] = "flush"]
    BY <1>2 DEF ReadRegister, Goto
  <2> QED BY <2>1, <2>2, <2>3
          DEF Shapes, FlushInv, Served, Handled, CreatorSends, FlushAhead
<1>3. CASE FlushDone(c)
  <2>1. UNCHANGED <<reg, link, task, todo, cur, dst>> /\ pc[c] = "flush" /\ todo[c] = {}
    BY <1>3 DEF FlushDone
  <2>2. flushed' = flushed \cup {c} /\ pc' = [pc EXCEPT ![c] = "read"]
    BY <1>3 DEF FlushDone, Goto
  <2> QED BY <2>1, <2>2
          DEF Shapes, FlushInv, Served, Handled, CreatorSends, FlushAhead
<1>4. ASSUME NEW u \in Task, FlushExpire(c, u)
      PROVE  FlushInv'
  <2>1. UNCHANGED <<reg, link, flushed, pc, cur, dst>>
    BY <1>4 DEF FlushExpire
  <2>2. todo' = [todo EXCEPT ![c] = todo[c] \ {u}] /\ pc[c] = "flush"
    BY <1>4 DEF FlushExpire, NextInFlush
  <2>3. task' = [task EXCEPT ![u] = "expired"]
    BY <1>4 DEF FlushExpire, Fault, Lossless
  <2> QED BY <2>1, <2>2, <2>3
          DEF Shapes, FlushInv, Served, Handled, CreatorSends, FlushAhead
<1>5. ASSUME NEW u \in Task, FlushSend(c, u)
      PROVE  FlushInv'
  <2>1. UNCHANGED <<reg, link, task, flushed, dst>>
    BY <1>5 DEF FlushSend
  <2>2. todo' = [todo EXCEPT ![c] = todo[c] \ {u}] /\ pc[c] = "flush"
    BY <1>5 DEF FlushSend, NextInFlush
  <2>3. pc' = [pc EXCEPT ![c] = "lookup"] /\ cur' = [cur EXCEPT ![c] = u]
    BY <1>5 DEF FlushSend, Goto
  <2> QED BY <2>1, <2>2, <2>3
          DEF Shapes, FlushInv, Served, Handled, CreatorSends, FlushAhead
<1>6. CASE ReadResult(c)
  <2>1. UNCHANGED <<reg, link, task, flushed, todo, dst>> /\ pc[c] = "read"
    BY <1>6 DEF ReadResult, Receive
  <2>2. pc' = pc \/ pc' = [pc EXCEPT ![c] = "claim"]
    BY <1>6 DEF ReadResult, Goto
  <2>3. \A d \in Conn \ {c} : cur'[d] = cur[d]
    <3>1. CASE cur' = cur
      BY <3>1
    <3>2. ASSUME NEW id, cur' = [cur EXCEPT ![c] = id]
          PROVE  \A d \in Conn \ {c} : cur'[d] = cur[d]
      BY <3>2 DEF Shapes
    <3>3. cur' = cur \/ cur' = [cur EXCEPT ![c] = Head(up[c]).id]
      BY <1>6 DEF ReadResult
    <3> QED BY <3>1, <3>2, <3>3, Zenon
  <2>4. CASE pc' = pc
    BY <2>1, <2>3, <2>4 DEF Shapes, FlushInv, Served, Handled, CreatorSends, FlushAhead
  <2>5. CASE pc' = [pc EXCEPT ![c] = "claim"]
    BY <2>1, <2>3, <2>5 DEF Shapes, FlushInv, Served, Handled, CreatorSends, FlushAhead
  <2> QED BY <2>2, <2>4, <2>5
<1>7. CASE MarkSeen(c)
  <2>1. UNCHANGED <<reg, link, task, flushed, todo, cur, dst>> /\ pc[c] = "claim"
    BY <1>7 DEF MarkSeen
  <2>2. pc' = [pc EXCEPT ![c] = "complete"]
    BY <1>7 DEF MarkSeen, Goto
  <2> QED BY <2>1, <2>2
          DEF Shapes, FlushInv, Served, Handled, CreatorSends, FlushAhead
<1>8. CASE CompleteTask(c)
  <2>1. UNCHANGED <<reg, link, flushed, todo, cur, dst>> /\ pc[c] = "complete"
    BY <1>8 DEF CompleteTask
  <2>2. pc' = [pc EXCEPT ![c] = "notify"]
    BY <1>8 DEF CompleteTask, Goto
  <2>3. got[c] \in Result
    BY <2>1 DEF TypeInv, LocalsOK
  <2>4. StateOf(got[c]) # "queued"
    BY <2>3 DEF StateOf, TS!StateOf
  <2>5. \A t \in Task : task'[t] = "queued" => task[t] = "queued"
    BY <1>8, <2>4 DEF CompleteTask, Shapes
  <2> QED BY <2>1, <2>2, <2>5
          DEF Shapes, FlushInv, Served, Handled, CreatorSends, FlushAhead
<1>9. CASE NotifyWaiter(c)
  <2>1. UNCHANGED <<reg, link, task, flushed, todo, dst>> /\ pc[c] = "notify"
    BY <1>9 DEF NotifyWaiter
  <2>2. pc' = [pc EXCEPT ![c] = "read"]
    BY <1>9 DEF NotifyWaiter, EndResult, Goto
  <2>3. \A d \in Conn \ {c} : cur'[d] = cur[d]
    BY <1>9 DEF NotifyWaiter, EndResult, Drop, Shapes
  <2> QED BY <2>1, <2>2, <2>3
          DEF Shapes, FlushInv, Served, Handled, CreatorSends, FlushAhead
<1>10. CASE Leave(c)
  <2>1. reg' = NoConn /\ flushed' = flushed \ {c} /\ \A d \in Conn \ {c} : pc'[d] = pc[d]
    BY <1>10 DEF Leave, Goto, Shapes
  <2> QED BY <2>1, FlushNoSession
<1> QED BY <1>1, <1>2, <1>3, <1>4, <1>5, <1>6, <1>7, <1>8, <1>9, <1>10 DEF HandlerStep

(* The node never touches what the manager keeps. *)
LEMMA FlushNode ==
    ASSUME FlushInv, NodeStep
    PROVE  FlushInv'
<1>1. UNCHANGED <<task, reg, flushed, pc, cur, dst, todo, link>>
  BY DEF NodeStep, NodeReplay, NodeDiscard, NodeStart, NodeFinish
<1> QED BY <1>1, FlushApart

(* A failure empties the registry or takes a link down. *)
LEMMA FlushFailure ==
    ASSUME Lossless, Shapes, FlushInv, Failure
    PROVE  FlushInv'
<1>1. ASSUME NEW p \in Proc, StoreFails(p)
      PROVE  FlushInv'
  BY <1>1 DEF StoreFails, Fault, Lossless
<1>2. ASSUME NEW c \in Conn, RegisterFails(c)
      PROVE  FlushInv'
  BY <1>2 DEF RegisterFails, Fault, Lossless
<1>3. ASSUME NEW c \in Conn, Break(c)
      PROVE  FlushInv'
  BY <1>3, CloseLinks, FlushApart DEF Break
<1>4. CASE Reap
  BY <1>4, FlushNoSession DEF Reap
<1>5. CASE NodeDrop \/ NodeCrash
  BY <1>5, FlushApart DEF NodeDrop, NodeCrash
<1>6. CASE ManagerCrash
  BY <1>6, FlushNoSession DEF ManagerCrash
<1> QED BY <1>1, <1>2, <1>3, <1>4, <1>5, <1>6 DEF Failure

LEMMA FlushInvariant ==
    ASSUME Lossless
    PROVE  Spec => []FlushInv
<1>1. Init => FlushInv
  BY ConnAssumption DEF Init, FlushInv, Served, Handled
<1>2. TypeInv /\ FlushInv /\ [Next]_vars => FlushInv'
  <2> SUFFICES ASSUME TypeInv, FlushInv, [Next]_vars PROVE FlushInv'
    OBVIOUS
  <2>1. Shapes
    BY ShapesKnown
  <2>2. CASE UNCHANGED vars
    BY <2>2, FlushApart DEF vars
  <2>3. ASSUME NEW t \in Task, CreatorStep(t) \/ DeadlinePasses(t)
        PROVE  FlushInv'
    BY <2>1, <2>3, FlushCreator
  <2>4. ASSUME NEW p \in Proc, SendStep(p)
        PROVE  FlushInv'
    BY <2>1, <2>4, FlushSending
  <2>5. ASSUME NEW c \in Conn, Dial(c) \/ HandlerStep(c)
        PROVE  FlushInv'
    BY <2>1, <2>5, FlushDial, FlushHandler
  <2>6. ASSUME NEW c \in Conn, IdleHeartbeat(c)
        PROVE  FlushInv'
    BY <2>6, FlushApart DEF IdleHeartbeat, vars
  <2>7. CASE NodeStep
    BY <2>7, FlushNode
  <2>8. CASE Failure
    BY <2>1, <2>8, FlushFailure
  <2> QED BY <2>2, <2>3, <2>4, <2>5, <2>6, <2>7, <2>8 DEF Next
<1> QED BY <1>1, <1>2, TypeInvariant, PTL DEF Spec

(* While the registered connection is up and its flush is over, a queued   *)
(* task has a creator that is still sending it.                            *)
THEOREM NoTaskStranded ==
    ASSUME Lossless
    PROVE  Spec => []NoStrandedTask
<1>1. FlushInv => NoStrandedTask
  BY DEF FlushInv, Handled, CreatorSends, FlushAhead, NoStrandedTask
<1> QED BY <1>1, FlushInvariant, PTL

-----------------------------------------------------------------------------
(* Closing takes the link down, and no other. *)
LEMMA CloseEnds ==
    ASSUME Shapes, NEW d \in Conn, CloseManagerEnd(d)
    PROVE  link'[d] = "down" /\ \A c \in Conn \ {d} : link'[c] = link[c]
  BY DEF CloseManagerEnd, Shapes

(* The steps that touch the registry. *)
LEMMA RegistrySteps ==
    ASSUME [Next]_vars, reg' # reg
    PROVE  (\E d \in Conn : AddSession(d) \/ Leave(d)) \/ Reap \/ ManagerCrash
<1>1. ASSUME NEW t \in Task, CreatorStep(t) \/ DeadlinePasses(t)
      PROVE  FALSE
  BY <1>1 DEF CreatorStep, Submit, CancelWait, PushCancelled, DeadlinePasses
<1>2. ASSUME NEW p \in Proc, SendStep(p)
      PROVE  FALSE
  BY <1>2 DEF SendStep, LookupConn, Push, PushFails, MarkSent
<1>3. ASSUME NEW c \in Conn, Dial(c) \/ IdleHeartbeat(c)
      PROVE  FALSE
  BY <1>3 DEF Dial, IdleHeartbeat, vars
<1>4. ASSUME NEW c \in Conn, HandlerStep(c)
      PROVE  AddSession(c) \/ Leave(c)
  BY <1>4 DEF HandlerStep, ReadRegister, FlushDone, FlushExpire, FlushSend,
     ReadResult, MarkSeen, CompleteTask, NotifyWaiter
<1>5. ~NodeStep
  BY DEF NodeStep, NodeReplay, NodeDiscard, NodeStart, NodeFinish
<1>6. CASE Failure
  BY <1>6 DEF Failure, StoreFails, RegisterFails, Break, NodeDrop, NodeCrash
<1>7. reg' = reg <=> ~(reg' # reg)
  OBVIOUS
<1>8. ~UNCHANGED vars
  BY DEF vars
<1> QED BY <1>1, <1>2, <1>3, <1>4, <1>5, <1>6, <1>8 DEF Next

(* Add closes what it replaces, ReapStale what it removes, and a crash of  *)
(* the manager closes everything: only Remove does not look.               *)
THEOREM OpenSessionsKept == Spec => OpenSessionKept
<1>1. TypeInv /\ [Next]_vars
        => [\A c \in Conn : reg = c /\ reg' # c /\ link'[c] = "up"
              => \E d \in Conn \ {c} : Leave(d)]_vars
  <2> SUFFICES ASSUME TypeInv, [Next]_vars, NEW c \in Conn,
                      reg = c, reg' # c, link'[c] = "up"
               PROVE  \E d \in Conn \ {c} : Leave(d)
    OBVIOUS
  <2>1. Shapes
    BY ShapesKnown
  <2>2. ASSUME NEW d \in Conn, AddSession(d)
        PROVE  FALSE
    BY <2>1, <2>2, CloseEnds, ConnAssumption DEF AddSession
  <2>3. ASSUME NEW d \in Conn, Leave(d)
        PROVE  d # c
    BY <2>3 DEF Leave
  <2>4. ~Reap
    BY <2>1, CloseEnds DEF Reap
  <2>5. ~ManagerCrash
    BY DEF ManagerCrash
  <2> QED BY <2>2, <2>3, <2>4, <2>5, RegistrySteps
<1> QED BY <1>1, TypeInvariant, PTL DEF Spec, OpenSessionKept

-----------------------------------------------------------------------------
(* The return of a handler whose session is not the one in the registry.   *)
StaleRemove == \E c \in Conn : Leave(c) /\ reg \notin {c, NoConn}

(* A registered connection has been added, and so has one that somebody    *)
(* waits for, unless it is closed; one that is served is registered.       *)
Added(c) == pc[c] \notin {"idle", "add"}

SeenInv ==
    /\ ServedSessionRegistered
    /\ \A c \in Conn : reg = c => Added(c)
    /\ \A p \in Proc : pc[p] = "push" => Added(dst[p]) \/ link[dst[p]] = "down"

(* A step of the handlers' own, of the node or of a link that goes down. *)
LEMMA SeenApart ==
    ASSUME SeenInv, TypeInv, reg' = reg,
           \A c \in Conn : Added(c)' <=> Added(c),
           \A c \in Conn : link'[c] = "up" => link[c] = "up",
           link' \in [Conn -> {"up", "down"}],
           \A p \in Proc : pc'[p] = "push" => pc[p] = "push" /\ dst'[p] = dst[p]
    PROVE  SeenInv'
<1>1. \A p \in Proc : pc[p] = "push" => dst[p] \in Conn
  BY DEF TypeInv, LocalsOK
<1> QED BY <1>1 DEF SeenInv, ServedSessionRegistered, Added

(* A process moves, but not to the push. *)
LEMMA SeenMove ==
    ASSUME Shapes, NEW p \in Proc, NEW label, Goto(p, label), label # "push",
           p \in Conn => Added(p) /\ label \notin {"idle", "add"},
           dst' = dst \/ dst' = [dst EXCEPT ![p] = NoConn]
    PROVE  /\ \A c \in Conn : Added(c)' <=> Added(c)
           /\ \A q \in Proc : pc'[q] = "push" => pc[q] = "push" /\ dst'[q] = dst[q]
  BY ConnAssumption DEF Goto, Added, Shapes

LEMMA SeenSend ==
    ASSUME TypeInv, SeenInv, NEW p \in Proc, SendStep(p)
    PROVE  SeenInv'
<1>1. Shapes
  BY ShapesKnown
<1>2. UNCHANGED <<reg, link>>
  BY DEF SendStep, LookupConn, Push, PushFails, MarkSent
<1>3. CASE LookupConn(p) /\ ~(reg = NoConn \/ link[reg] = "down")
  <2>1. reg \in Conn /\ Added(reg)
    BY <1>3 DEF TypeInv, TypeOK, SessType, SeenInv
  <2>2. pc' = [pc EXCEPT ![p] = "push"] /\ dst' = [dst EXCEPT ![p] = reg] /\ pc[p] = "lookup"
    BY <1>3 DEF LookupConn, Goto
  <2>3. \A c \in Conn : Added(c)' <=> Added(c)
    BY <1>1, <2>2 DEF Added, Shapes
  <2>4. \A q \in Proc : pc[q] = "push" => dst[q] \in Conn
    BY DEF TypeInv, LocalsOK
  <2>5. ASSUME NEW q \in Proc, pc'[q] = "push"
        PROVE  Added(dst[q])' \/ link[dst'[q]] = "down"
    <3>1. CASE q = p
      BY <1>1, <2>1, <2>2, <2>3, <3>1 DEF Shapes
    <3>2. CASE q # p
      <4>1. pc[q] = "push" /\ dst'[q] = dst[q]
        BY <1>1, <2>2, <2>5, <3>2 DEF Shapes
      <4> QED BY <2>3, <2>4, <4>1 DEF SeenInv
    <3> QED BY <3>1, <3>2
  <2> QED BY <1>2, <2>3, <2>5 DEF SeenInv, ServedSessionRegistered, Added
<1>4. CASE ~(LookupConn(p) /\ ~(reg = NoConn \/ link[reg] = "down"))
  <2>1. \E label \in {"mark", Back(p)} :
            Goto(p, label) /\ (dst' = dst \/ dst' = [dst EXCEPT ![p] = NoConn])
    BY <1>4 DEF SendStep, LookupConn, Push, PushFails, MarkSent, Return
  <2>2. pc[p] \in SendPC
    BY DEF SendStep, LookupConn, Push, PushFails, MarkSent
  <2>3. /\ \A c \in Conn : Added(c)' <=> Added(c)
        /\ \A q \in Proc : pc'[q] = "push" => pc[q] = "push" /\ dst'[q] = dst[q]
    BY <1>1, <2>1, <2>2, SeenMove, ConnAssumption DEF Back, Added
  <2> QED BY <1>2, <2>3, SeenApart DEF TypeInv, TypeOK, LinkType
<1> QED BY <1>3, <1>4

LEMMA SeenCreator ==
    ASSUME TypeInv, SeenInv, NEW t \in Task, CreatorStep(t) \/ DeadlinePasses(t)
    PROVE  SeenInv'
<1>1. UNCHANGED <<reg, link>>
  BY DEF CreatorStep, Submit, CancelWait, PushCancelled, DeadlinePasses
<1>2. \/ UNCHANGED <<pc, dst>>
      \/ \E label \in {"lookup", "done"} :
            Goto(t, label) /\ (dst' = dst \/ dst' = [dst EXCEPT ![t] = NoConn])
  BY DEF CreatorStep, Submit, CancelWait, PushCancelled, DeadlinePasses, Return, Back
<1>3. /\ \A c \in Conn : Added(c)' <=> Added(c)
      /\ \A q \in Proc : pc'[q] = "push" => pc[q] = "push" /\ dst'[q] = dst[q]
  BY <1>2, ShapesKnown, SeenMove, ConnAssumption DEF Added
<1> QED BY <1>1, <1>3, SeenApart DEF TypeInv, TypeOK, LinkType

(* The handlers of one node: one is added, another returns. *)
LEMMA SeenHandler ==
    ASSUME TypeInv, SeenInv, ~StaleRemove, NEW c \in Conn, Dial(c) \/ HandlerStep(c)
    PROVE  SeenInv'
<1> USE ConnAssumption
<1>1. Shapes
  BY ShapesKnown
<1>2. \A q \in Proc : pc[q] = "push" => dst[q] \in Conn
  BY DEF TypeInv, LocalsOK
<1>3. CASE Dial(c)
  <2>1. /\ pc' = [pc EXCEPT ![c] = "add"] /\ link' = [link EXCEPT ![c] = "up"]
        /\ UNCHANGED <<reg, dst>> /\ pc[c] = "idle"
        /\ \A p \in Proc : pc[p] = "push" => dst[p] # c
    BY <1>3 DEF Dial, Goto
  <2>2. \A d \in Conn \ {c} : pc'[d] = pc[d] /\ link'[d] = link[d]
    BY <1>1, <2>1 DEF Shapes
  <2>3. ~Added(c) /\ ~Added(c)'
    BY <1>1, <2>1 DEF Added, Shapes
  <2>4. ASSUME NEW q \in Proc, pc'[q] = "push"
        PROVE  Added(dst[q])' \/ link'[dst'[q]] = "down"
    <3>1. pc[q] = "push" /\ dst'[q] = dst[q] /\ dst[q] \in Conn \ {c}
      BY <1>1, <1>2, <2>1, <2>4 DEF Shapes
    <3> QED BY <2>2, <3>1 DEF SeenInv, Added
  <2> QED BY <2>1, <2>2, <2>3, <2>4 DEF SeenInv, ServedSessionRegistered, Added
<1>4. CASE AddSession(c)
  <2>1. pc[c] = "add" /\ pc' = [pc EXCEPT ![c] = "read"] /\ reg' = c /\ dst' = dst
    BY <1>4 DEF AddSession, Goto
  <2>2. /\ \A d \in Conn : link'[d] = "up" => link[d] = "up"
        /\ reg # NoConn => link'[reg] = "down"
    BY <1>1, <1>4, CloseEnds DEF AddSession, TypeInv, TypeOK, SessType
  <2>3. link' \in [Conn -> {"up", "down"}]
    BY <1>1, <1>4 DEF AddSession, CloseManagerEnd, Shapes
  <2>4. \A d \in Conn \ {c} : pc'[d] = pc[d]
    BY <1>1, <2>1 DEF Shapes
  <2>5. pc'[c] = "read"
    BY <1>1, <2>1 DEF Shapes
  <2>6. ASSUME NEW d \in Conn, Added(d)', link'[d] = "up"
        PROVE  d = c
    <3>1. CASE d # c
      <4>1. reg = d
        BY <2>2, <2>4, <2>6, <3>1 DEF SeenInv, ServedSessionRegistered, Added
      <4> QED BY <2>2, <2>6, <4>1
    <3> QED BY <3>1
  <2>7. ASSUME NEW q \in Proc, pc'[q] = "push"
        PROVE  Added(dst[q])' \/ link'[dst'[q]] = "down"
    <3>1. pc[q] = "push" /\ dst'[q] = dst[q] /\ dst[q] \in Conn
      BY <1>1, <1>2, <2>1, <2>7 DEF Shapes
    <3> QED BY <2>2, <2>3, <2>4, <2>5, <3>1 DEF SeenInv, Added
  <2> QED BY <2>1, <2>5, <2>6, <2>7 DEF SeenInv, ServedSessionRegistered, Added
<1>5. CASE Leave(c)
  <2>1. /\ link[c] = "down" /\ pc' = [pc EXCEPT ![c] = "idle"] /\ reg' = NoConn
        /\ UNCHANGED <<dst, link>>
    BY <1>5 DEF Leave, Goto
  <2>2. reg \in {c, NoConn}
    BY <1>5 DEF StaleRemove
  <2>3. \A d \in Conn : Added(d)' => Added(d) /\ d # c
    BY <1>1, <2>1 DEF Added, Shapes
  <2>4. \A d \in Conn : ~(Added(d)' /\ link'[d] = "up")
    BY <2>1, <2>2, <2>3 DEF SeenInv, ServedSessionRegistered, Added
  <2>5. ASSUME NEW q \in Proc, pc'[q] = "push"
        PROVE  Added(dst[q])' \/ link'[dst'[q]] = "down"
    <3>1. pc[q] = "push" /\ dst'[q] = dst[q] /\ dst[q] \in Conn
      BY <1>1, <1>2, <2>1, <2>5 DEF Shapes
    <3>2. CASE dst[q] = c
      BY <2>1, <3>1, <3>2
    <3>3. CASE dst[q] # c
      BY <1>1, <2>1, <3>1, <3>3 DEF SeenInv, Added, Shapes
    <3> QED BY <3>2, <3>3
  <2> QED BY <2>1, <2>4, <2>5 DEF SeenInv, ServedSessionRegistered, Added
<1>6. CASE ~Dial(c) /\ ~AddSession(c) /\ ~Leave(c)
  <2>1. UNCHANGED <<reg, link, dst>>
    BY <1>6 DEF HandlerStep, ReadRegister, FlushDone, FlushExpire, FlushSend,
       ReadResult, MarkSeen, CompleteTask, NotifyWaiter
  <2>2. /\ pc[c] \notin {"idle", "add"}
        /\ pc' = pc \/ \E label \in HandlerPC \ {"idle", "add", "push"} : Goto(c, label)
    BY <1>6 DEF HandlerStep, ReadRegister, Receive, FlushDone, FlushExpire, FlushSend,
       NextInFlush, ReadResult, MarkSeen, CompleteTask, NotifyWaiter, EndResult
  <2>3. /\ \A d \in Conn : Added(d)' <=> Added(d)
        /\ \A q \in Proc : pc'[q] = "push" => pc[q] = "push" /\ dst'[q] = dst[q]
    BY <1>1, <2>1, <2>2, SeenMove DEF Added
  <2> QED BY <2>1, <2>3, SeenApart DEF TypeInv, TypeOK, LinkType
<1> QED BY <1>3, <1>4, <1>5, <1>6

LEMMA SeenFailure ==
    ASSUME TypeInv, SeenInv, Failure
    PROVE  SeenInv'
<1> USE ConnAssumption
<1>1. Shapes
  BY ShapesKnown
<1>2. ASSUME NEW p \in Proc, StoreFails(p)
      PROVE  SeenInv'
  <2>1. /\ UNCHANGED <<reg, link>> /\ pc[p] \in {"mark", "complete", "notify"}
        /\ \E label \in {"done", "flush", "read"} :
             Goto(p, label) /\ (dst' = dst \/ dst' = [dst EXCEPT ![p] = NoConn])
    BY <1>2 DEF StoreFails, Return, Back, EndResult
  <2>2. /\ \A d \in Conn : Added(d)' <=> Added(d)
        /\ \A q \in Proc : pc'[q] = "push" => pc[q] = "push" /\ dst'[q] = dst[q]
    BY <1>1, <2>1, SeenMove DEF Added
  <2> QED BY <2>1, <2>2, SeenApart DEF TypeInv, TypeOK, LinkType
<1>3. ASSUME NEW c \in Conn, Break(c)
      PROVE  SeenInv'
  <2>1. link' \in [Conn -> {"up", "down"}] /\ \A d \in Conn : link'[d] = "up" => link[d] = "up"
    BY <1>1, <1>3 DEF Break, CloseManagerEnd, Shapes
  <2> QED BY <1>3, <2>1, SeenApart DEF Break, Added
<1>4. CASE Reap
  <2>1. reg \in Conn /\ CloseManagerEnd(reg) /\ reg' = NoConn /\ UNCHANGED <<pc, dst>>
    BY <1>4 DEF Reap, TypeInv, TypeOK, SessType
  <2>2. /\ link' \in [Conn -> {"up", "down"}] /\ link'[reg] = "down"
        /\ \A d \in Conn : link'[d] = "up" => link[d] = "up"
    BY <1>1, <2>1 DEF CloseManagerEnd, Shapes
  <2>3. \A d \in Conn : ~(Added(d)' /\ link'[d] = "up")
    BY <2>1, <2>2 DEF SeenInv, ServedSessionRegistered, Added
  <2>4. \A q \in Proc : pc[q] = "push" => dst[q] \in Conn
    BY DEF TypeInv, LocalsOK
  <2> QED BY <2>1, <2>2, <2>3, <2>4 DEF SeenInv, ServedSessionRegistered, Added
<1>5. CASE ManagerCrash
  BY <1>5 DEF ManagerCrash, SeenInv, ServedSessionRegistered, Added
<1>6. CASE (\E c \in Conn : RegisterFails(c)) \/ NodeDrop \/ NodeCrash
  BY <1>6, SeenApart DEF RegisterFails, NodeDrop, NodeCrash, TypeInv, TypeOK, LinkType, Added
<1> QED BY <1>2, <1>3, <1>4, <1>5, <1>6 DEF Failure

LEMMA SeenInvariant == Spec /\ [][~StaleRemove]_vars => []SeenInv
<1>1. Init => SeenInv
  BY ConnAssumption DEF Init, SeenInv, ServedSessionRegistered
<1>2. TypeInv /\ SeenInv /\ [Next]_vars /\ [~StaleRemove]_vars => SeenInv'
  <2> SUFFICES ASSUME TypeInv, SeenInv, [Next]_vars, [~StaleRemove]_vars PROVE SeenInv'
    OBVIOUS
  <2>1. CASE UNCHANGED vars
    BY <2>1, SeenApart DEF vars, TypeInv, TypeOK, LinkType, Added
  <2>2. ASSUME NEW c \in Conn, IdleHeartbeat(c)
        PROVE  SeenInv'
    BY <2>1, <2>2 DEF IdleHeartbeat
  <2>3. CASE NodeStep
    BY <2>3, SeenApart DEF NodeStep, NodeReplay, NodeDiscard, NodeStart, NodeFinish,
       TypeInv, TypeOK, LinkType, Added
  <2>4. ASSUME NEW c \in Conn, Dial(c) \/ HandlerStep(c), ~StaleRemove
        PROVE  SeenInv'
    BY <2>4, SeenHandler
  <2>5. CASE ~UNCHANGED vars
    BY <2>2, <2>3, <2>4, <2>5, SeenCreator, SeenSend, SeenFailure DEF Next
  <2> QED BY <2>1, <2>5
<1> QED BY <1>1, <1>2, TypeInvariant, PTL DEF Spec

(* ServedSessionRegistered fails for one reason only: the Remove of a      *)
(* returning handler that finds another connection's session.  As long as  *)
(* none does, the registry holds the fresh connection while it is served.  *)
THEOREM ServedAreRegistered ==
    Spec /\ [][~StaleRemove]_vars => []ServedSessionRegistered
<1>1. SeenInv => ServedSessionRegistered
  BY DEF SeenInv
<1> QED BY <1>1, SeenInvariant, PTL

(* And nobody, creator or handler, then waits in Send for a connection     *)
(* that the reaper does not see: the safety half of SendReturns.           *)
THEOREM SendersSeen ==
    Spec /\ [][~StaleRemove]_vars => []SendersAreSeen
<1>1. TypeInv /\ SeenInv => SendersAreSeen
  BY DEF TypeInv, LocalsOK, SeenInv, ServedSessionRegistered, Added, SendersAreSeen
<1> QED BY <1>1, SeenInvariant, TypeInvariant, PTL


-----------------------------------------------------------------------------
(* Who ends a wait.                                                        *)

(* A Send that can only wait: its channel is full and its connection up. *)
SendWaits(p) ==
    pc[p] = "push" /\ link[dst[p]] = "up" /\ Len(down[dst[p]]) = SendBuffer

(* The node makes room: it has an instruction to take or one to finish,    *)
(* and its report has room in turn. *)
NodeMakesRoom(c) ==
    nconn = c /\ Len(up[c]) < SendBuffer /\ (exec # NoTask \/ down[c] # <<>>)

(* The handler makes room for the node's report, or comes nearer to that:  *)
(* it has a frame to read, or stands in front of no channel. *)
HandlerGoesOn(c) ==
    \/ pc[c] = "read" /\ up[c] # <<>>
    \/ pc[c] \in {"flush", "lookup", "mark", "claim", "complete", "notify"}
    \/ pc[c] = "push" /\ ~SendWaits(c)

(* The reaper breaks the wait without waiting for a silence of the node's  *)
(* making: what it sees has no node, or a handler that waits itself. *)
ReaperBreaks(c) == reg = c /\ (nconn # c \/ HandlerBlocked(c))

WaitEnds ==
    \A p \in Proc : SendWaits(p) =>
        NodeMakesRoom(dst[p]) \/ HandlerGoesOn(dst[p]) \/ ReaperBreaks(dst[p])

(* A handler that flushes into a full channel does not read, and a node    *)
(* whose report finds the other channel full does not read either: the two *)
(* wait for each other.  For any buffers, and any number of creators and   *)
(* handlers in the queue behind them, such a circle is always one that the *)
(* reaper sees and breaks, unless a stale Remove hid the session from it.  *)
THEOREM WaitsEnd ==
    Spec /\ [][~StaleRemove]_vars => []WaitEnds
<1>1. TypeInv /\ SeenInv => WaitEnds
  <2> SUFFICES ASSUME TypeInv, SeenInv, NEW p \in Proc, SendWaits(p)
               PROVE  \/ NodeMakesRoom(dst[p]) \/ HandlerGoesOn(dst[p])
                      \/ ReaperBreaks(dst[p])
    BY DEF WaitEnds
  <2>1. PICK c \in Conn : c = dst[p]
    BY DEF SendWaits, TypeInv, LocalsOK
  <2>2. /\ link[c] = "up" /\ Added(c) /\ reg = c /\ pc[c] \in HandlerPC
        /\ Len(down[c]) = SendBuffer /\ Len(up[c]) <= SendBuffer
        /\ up[c] \in Seq(Frame) /\ down[c] \in Seq(Task)
    BY <2>1
    DEF SendWaits, SeenInv, ServedSessionRegistered, Added, TypeInv, TypeOK, LinkType, PcType
  <2>3. /\ SendBuffer # 0 /\ SendBuffer \in Nat /\ Len(up[c]) \in Nat
        /\ Len(<<>>) = 0
    BY <2>2, BoundAssumption, LenProperties
  <2>4. CASE nconn # c
    BY <2>1, <2>2, <2>4 DEF ReaperBreaks
  <2>5. CASE nconn = c /\ Len(up[c]) < SendBuffer
    <3>1. down[c] # <<>>
      BY <2>2, <2>3
    <3> QED BY <2>1, <2>5, <3>1 DEF NodeMakesRoom
  <2>6. CASE Len(up[c]) = SendBuffer
    <3>1. up[c] # <<>>
      BY <2>3, <2>6
    <3>2. SendWaits(c) => HandlerBlocked(c)
      BY DEF SendWaits, HandlerBlocked
    <3> QED BY <2>1, <2>2, <3>1, <3>2 DEF HandlerGoesOn, ReaperBreaks, Added
  <2>7. Len(up[c]) < SendBuffer \/ Len(up[c]) = SendBuffer
    BY <2>2, <2>3
  <2> QED BY <2>4, <2>5, <2>6, <2>7
<1> QED BY <1>1, SeenInvariant, TypeInvariant, PTL

=============================================================================
