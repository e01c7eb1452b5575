--------------------------- MODULE DispatchProofs ---------------------------
(***************************************************************************)
(* Machine-checked proofs about Dispatch, for every set of tasks and       *)
(* connections, every buffer and window size and every kind and number of  *)
(* failures.                                                               *)
(***************************************************************************)
EXTENDS Dispatch, SequenceTheorems, TLAPS

USE DEF TS!Result, TS!Outcome, TS!TaskState, TS!Terminal

(* The windows' order list keeps its type and its bound. *)
LEMMA PushedType ==
    ASSUME NEW S, NEW order \in Seq(S), NEW id \in S, NEW w \in Nat \ {0},
           Len(order) <= w
    PROVE  /\ Pushed(order, id, w) \in Seq(S)
           /\ Len(Pushed(order, id, w)) <= w
  BY DEF Pushed

(* So a forgotten id is one of the ids that were in the window. *)
LEMMA EvictedType ==
    ASSUME NEW S, NEW order \in Seq(S), NEW id \in S, NEW w
    PROVE  Evicted(order, id, w) \subseteq S
  BY DEF Evicted

(* Losing frames leaves a prefix of what was on its way. *)
LEMMA ArriveType ==
    ASSUME up \in [Conn -> Seq(Frame)],
           \A d \in Conn : Len(up[d]) <= SendBuffer,
           NEW c \in Conn, NEW n, ArriveAtMost(c, n)
    PROVE  /\ up' \in [Conn -> Seq(Frame)]
           /\ \A d \in Conn : Len(up'[d]) <= SendBuffer
<1>1. PICK k \in 0..Len(up[c]) : up' = [up EXCEPT ![c] = Prefix(up[c], k)]
  BY DEF ArriveAtMost
<1>2. Prefix(up[c], k) \in Seq(Frame) /\ Len(Prefix(up[c], k)) = k
  BY SubSeqProperties DEF Prefix
<1> QED BY <1>1, <1>2, BoundAssumption

(* Registry.Add, Reap and a broken link close the manager's end. *)
LEMMA CloseType ==
    ASSUME link \in [Conn -> {"up", "down"}],
           up \in [Conn -> Seq(Frame)],
           \A d \in Conn : Len(up[d]) <= SendBuffer,
           NEW c \in Conn, CloseManagerEnd(c)
    PROVE  /\ link' \in [Conn -> {"up", "down"}]
           /\ up' \in [Conn -> Seq(Frame)]
           /\ \A d \in Conn : Len(up'[d]) <= SendBuffer
<1>1. CASE link[c] = "up"
  BY <1>1, ArriveType DEF CloseManagerEnd
<1>2. CASE link[c] # "up"
  BY <1>2 DEF CloseManagerEnd
<1> QED BY <1>1, <1>2


-----------------------------------------------------------------------------
USE DEF storeVars, sessVars, procVars, dedupVars, linkVars, nodeVars, histVars
USE DEF Proc, CreatorPC, HandlerPC, SendPC, RecordPC, Result, TaskState, Outcome

(* Both processes start with an empty registry and empty windows. *)
LEMMA TypeInit == Init => TypeInv
  BY TaskAssumption, ConnAssumption, BoundAssumption
  DEF Init, TypeInv, TypeOK, LocalsOK, StoreType, SessType, PcType, CurType, DstType, HandlerType,
      DedupType, WaiterType, LinkType, NodeType, HistType

(* Replacing one queue of a family by a short enough one. *)
LEMMA QueueUpdate ==
    ASSUME NEW S, NEW q \in [Conn -> Seq(S)], NEW c \in Conn, NEW s \in Seq(S),
           \A d \in Conn : Len(q[d]) <= SendBuffer, Len(s) <= SendBuffer
    PROVE  /\ [q EXCEPT ![c] = s] \in [Conn -> Seq(S)]
           /\ \A d \in Conn : Len([q EXCEPT ![c] = s][d]) <= SendBuffer
  OBVIOUS

(* A process that moves to one of its own labels keeps pc typed. *)
LEMMA GotoType ==
    ASSUME PcType, NEW p \in Proc, NEW label, Goto(p, label),
           p \in Task => label \in CreatorPC,
           p \in Conn => label \in HandlerPC
    PROVE  /\ PcType'
           /\ pc'[p] = label
           /\ \A q \in Proc : q # p => pc'[q] = pc[q]
  BY ConnAssumption DEF PcType, Goto

(* Leaving the dispatcher's send clears the current task. *)
LEMMA DropType ==
    ASSUME CurType, NEW p \in Proc, Drop(p)
    PROVE  CurType' /\ \A q \in Proc : q # p => cur'[q] = cur[q]
  BY TaskAssumption DEF CurType, Drop

(* The dispatcher's send returns to its caller. *)
LEMMA ReturnType ==
    ASSUME PcType, CurType, DstType, NEW p \in Proc, Return(p)
    PROVE  /\ PcType' /\ CurType' /\ DstType'
           /\ pc'[p] \in {"done", "flush"}
           /\ \A q \in Proc : q # p => /\ pc'[q] = pc[q]
                                       /\ cur'[q] = cur[q]
                                       /\ dst'[q] = dst[q]
<1>1. PcType' /\ pc'[p] = Back(p) /\ \A q \in Proc : q # p => pc'[q] = pc[q]
  <2>1. /\ p \in Task => Back(p) \in CreatorPC
        /\ p \in Conn => Back(p) \in HandlerPC
    BY ConnAssumption DEF Back
  <2> QED BY <2>1, GotoType DEF Return
<1>2. CurType' /\ \A q \in Proc : q # p => cur'[q] = cur[q]
  BY DropType DEF Return
<1>3. DstType' /\ \A q \in Proc : q # p => dst'[q] = dst[q]
  BY DEF DstType, Return
<1> QED BY <1>1, <1>2, <1>3 DEF Back

(* The four steps of the dispatcher's send keep the types. *)
LEMMA SendType ==
    ASSUME TypeInv, NEW p \in Proc, SendStep(p)
    PROVE  TypeInv'
<1> USE TaskAssumption, ConnAssumption, BoundAssumption DEF TypeInv, TypeOK
<1>1. CASE LookupConn(p)
  <2> USE <1>1 DEF LookupConn
  <2>1. /\ StoreType' /\ SessType' /\ HandlerType' /\ DedupType'
        /\ WaiterType' /\ LinkType' /\ NodeType' /\ HistType'
    BY DEF StoreType, SessType, HandlerType, DedupType, WaiterType,
          LinkType, NodeType, HistType
  <2>2. CASE reg = NoConn \/ link[reg] = "down"
    <3>1. Return(p)
      BY <2>2
    <3> QED BY <2>1, <3>1, ReturnType DEF LocalsOK
  <2>3. CASE ~(reg = NoConn \/ link[reg] = "down")
    <3>1. /\ PcType' /\ pc'[p] = "push"
          /\ \A q \in Proc : q # p => pc'[q] = pc[q]
      BY <2>3, GotoType
    <3>2. /\ DstType' /\ dst'[p] \in Conn
          /\ \A q \in Proc : q # p => dst'[q] = dst[q]
      BY <2>3 DEF DstType, SessType
    <3>3. CurType' /\ cur' = cur
      BY <2>3 DEF CurType
    <3> QED BY <2>1, <3>1, <3>2, <3>3 DEF LocalsOK
  <2> QED BY <2>2, <2>3
<1>2. CASE Push(p)
  <2> USE <1>2 DEF Push
  <2>1. /\ StoreType' /\ SessType' /\ CurType' /\ HandlerType'
        /\ DedupType' /\ WaiterType' /\ NodeType'
    BY DEF StoreType, SessType, CurType, HandlerType, DedupType,
          WaiterType, NodeType
  <2>2. PcType' /\ pc'[p] = "mark" /\ \A q \in Proc : q # p => pc'[q] = pc[q]
    BY GotoType
  <2>3. DstType' /\ \A q \in Proc : q # p => dst'[q] = dst[q]
    BY DEF DstType
  <2>4. cur[p] \in Task /\ dst[p] \in Conn
    BY DEF LocalsOK
  <2>5. LinkType'
    BY <2>4 DEF LinkType
  <2>6. HistType'
    BY <2>4 DEF HistType
  <2>7. LocalsOK'
    BY <2>2, <2>3 DEF LocalsOK
  <2> QED BY <2>1, <2>2, <2>3, <2>5, <2>6, <2>7
<1>3. CASE PushFails(p)
  <2> USE <1>3 DEF PushFails
  <2>1. /\ StoreType' /\ SessType' /\ HandlerType' /\ DedupType'
        /\ WaiterType' /\ LinkType' /\ NodeType' /\ HistType'
    BY DEF StoreType, SessType, HandlerType, DedupType, WaiterType,
          LinkType, NodeType, HistType
  <2>2. /\ PcType' /\ CurType' /\ DstType'
        /\ pc'[p] \in {"done", "flush"}
        /\ \A q \in Proc : q # p => /\ pc'[q] = pc[q]
                                    /\ cur'[q] = cur[q]
                                    /\ dst'[q] = dst[q]
    BY ReturnType
  <2> QED BY <2>1, <2>2 DEF LocalsOK
<1>4. CASE MarkSent(p)
  <2> USE <1>4 DEF MarkSent
  <2>1. /\ SessType' /\ HandlerType' /\ DedupType' /\ WaiterType'
        /\ LinkType' /\ NodeType' /\ HistType'
    BY DEF SessType, HandlerType, DedupType, WaiterType, LinkType,
          NodeType, HistType
  <2>2. /\ PcType' /\ CurType' /\ DstType'
        /\ pc'[p] \in {"done", "flush"}
        /\ \A q \in Proc : q # p => /\ pc'[q] = pc[q]
                                    /\ cur'[q] = cur[q]
                                    /\ dst'[q] = dst[q]
    BY ReturnType
  <2>3. StoreType'
    BY DEF StoreType, LocalsOK
  <2> QED BY <2>1, <2>2, <2>3 DEF LocalsOK
<1> QED BY <1>1, <1>2, <1>3, <1>4 DEF SendStep

(* A counted failure stays within MaxFaults. *)
LEMMA FaultType ==
    ASSUME faults \in 0..MaxFaults, NEW kind, Fault(kind)
    PROVE  faults' \in 0..MaxFaults
  BY BoundAssumption DEF Fault

(* Creating, cancelling and ageing a task keep the types. *)
LEMMA CreatorType ==
    ASSUME TypeInv, NEW t \in Task, CreatorStep(t) \/ DeadlinePasses(t)
    PROVE  TypeInv'
<1> USE TaskAssumption, ConnAssumption, BoundAssumption DEF TypeInv, TypeOK
<1>1. CASE Submit(t)
  <2> USE <1>1 DEF Submit
  <2>1. /\ SessType' /\ CurType' /\ DstType' /\ HandlerType'
        /\ DedupType' /\ LinkType' /\ NodeType' /\ HistType'
    BY DEF SessType, CurType, DstType, HandlerType, DedupType, LinkType,
          NodeType, HistType
  <2>2. /\ PcType' /\ pc'[t] = "lookup"
        /\ \A q \in Proc : q # t => pc'[q] = pc[q]
    BY GotoType
  <2>3. StoreType' /\ WaiterType'
    BY DEF StoreType, WaiterType
  <2>4. \A q \in Proc : pc'[q] \in SendPC \cup RecordPC => cur'[q] \in Task
    BY <2>2 DEF LocalsOK, CurType
  <2>5. LocalsOK'
    BY <2>2, <2>4 DEF LocalsOK
  <2> QED BY <2>1, <2>2, <2>3, <2>5
<1>2. CASE CancelWait(t)
  <2> USE <1>2 DEF CancelWait
  <2>1. /\ StoreType' /\ SessType' /\ PcType' /\ CurType' /\ DstType'
        /\ HandlerType' /\ DedupType' /\ LinkType' /\ NodeType'
    BY DEF StoreType, SessType, PcType, CurType, DstType, HandlerType,
          DedupType, LinkType, NodeType
  <2>2. WaiterType' /\ HistType'
    BY FaultType DEF WaiterType, HistType
  <2>3. LocalsOK'
    BY DEF LocalsOK
  <2> QED BY <2>1, <2>2, <2>3
<1>3. CASE PushCancelled(t)
  <2> USE <1>3 DEF PushCancelled
  <2>1. /\ StoreType' /\ SessType' /\ HandlerType' /\ DedupType'
        /\ WaiterType' /\ LinkType' /\ NodeType'
    BY DEF StoreType, SessType, HandlerType, DedupType, WaiterType,
          LinkType, NodeType
  <2>2. /\ PcType' /\ CurType' /\ DstType'
        /\ pc'[t] \in {"done", "flush"}
        /\ \A q \in Proc : q # t => /\ pc'[q] = pc[q]
                                    /\ cur'[q] = cur[q]
                                    /\ dst'[q] = dst[q]
    BY ReturnType
  <2>3. HistType'
    BY FaultType DEF HistType
  <2> QED BY <2>1, <2>2, <2>3 DEF LocalsOK
<1>4. CASE DeadlinePasses(t)
  <2> USE <1>4 DEF DeadlinePasses
  <2>0. /\ SessType' /\ PcType' /\ CurType' /\ DstType'
        /\ HandlerType' /\ DedupType'
    BY DEF SessType, PcType, CurType, DstType, HandlerType, DedupType
  <2>1. /\ StoreType' /\ WaiterType' /\ LinkType' /\ NodeType' /\ HistType'
    BY DEF StoreType, WaiterType, LinkType, NodeType, HistType
  <2>2. LocalsOK'
    BY DEF LocalsOK
  <2> QED BY <2>0, <2>1, <2>2
<1> QED BY <1>1, <1>2, <1>3, <1>4 DEF CreatorStep

(* readPump hands over the head of the queue. *)
LEMMA ReceiveType ==
    ASSUME NEW c \in Conn, NEW kind \in {"register", "result"}, Receive(c, kind),
           up \in [Conn -> Seq(Frame)],
           \A d \in Conn : Len(up[d]) <= SendBuffer
    PROVE  /\ up' \in [Conn -> Seq(Frame)]
           /\ \A d \in Conn : Len(up'[d]) <= SendBuffer
           /\ kind = "result" => /\ Head(up[c]).id \in Task
                                 /\ Head(up[c]).res \in Result
<1>1. /\ Head(up[c]) \in Frame
      /\ Tail(up[c]) \in Seq(Frame)
      /\ Len(Tail(up[c])) = Len(up[c]) - 1
  BY HeadTailProperties DEF Receive
<1>2. /\ up' \in [Conn -> Seq(Frame)]
      /\ \A d \in Conn : Len(up'[d]) <= SendBuffer
  BY <1>1, BoundAssumption DEF Receive
<1>3. kind = "result" => /\ Head(up[c]).id \in Task
                         /\ Head(up[c]).res \in Result
  BY <1>1 DEF Receive, Frame, RegisterFrame, ResultFrame
<1> QED BY <1>2, <1>3

(* The empty queue is a queue within the send buffer. *)
LEMMA EmptyType ==
    ASSUME NEW S
    PROVE  <<>> \in Seq(S) /\ Len(<<>>) = 0
  OBVIOUS

(* HandleResult derives one of the three outcomes. *)
LEMMA StateOfType ==
    ASSUME NEW r \in Result
    PROVE  StateOf(r) \in Outcome
  BY DEF StateOf, TS!StateOf

(* HandleResult returns to the handler's read loop. *)
LEMMA EndResultType ==
    ASSUME PcType, CurType, HandlerType, NEW c \in Conn, EndResult(c),
           UNCHANGED <<todo, due>>
    PROVE  /\ PcType' /\ CurType' /\ HandlerType'
           /\ pc'[c] = "read"
           /\ \A q \in Proc : q # c => pc'[q] = pc[q] /\ cur'[q] = cur[q]
           /\ \A d \in Conn : d # c => got'[d] = got[d]
<1>1. PcType' /\ pc'[c] = "read" /\ \A q \in Proc : q # c => pc'[q] = pc[q]
  BY GotoType, ConnAssumption DEF EndResult
<1>2. CurType' /\ \A q \in Proc : q # c => cur'[q] = cur[q]
  BY DropType DEF EndResult
<1>3. HandlerType' /\ \A d \in Conn : d # c => got'[d] = got[d]
  BY DEF HandlerType, EndResult
<1> QED BY <1>1, <1>2, <1>3

(* Every step of handleConn but its start keeps the types. *)
LEMMA HandlerTypes ==
    ASSUME TypeInv, NEW c \in Conn, HandlerStep(c)
    PROVE  TypeInv'
<1> USE TaskAssumption, ConnAssumption, BoundAssumption DEF TypeInv, TypeOK
<1>1. CASE AddSession(c)
  <2> USE <1>1 DEF AddSession
  <2>1. /\ StoreType' /\ CurType' /\ DstType' /\ HandlerType'
        /\ DedupType' /\ WaiterType' /\ NodeType' /\ HistType'
    BY DEF StoreType, CurType, DstType, HandlerType, DedupType, WaiterType,
          NodeType, HistType
  <2>2. PcType' /\ pc'[c] = "read" /\ \A q \in Proc : q # c => pc'[q] = pc[q]
    BY GotoType
  <2>3. SessType'
    BY DEF SessType
  <2>4. LinkType'
    BY CloseType DEF LinkType, SessType
  <2>5. LocalsOK'
    BY <2>2 DEF LocalsOK
  <2> QED BY <2>1, <2>2, <2>3, <2>4, <2>5
<1>2. CASE ReadRegister(c)
  <2> USE <1>2 DEF ReadRegister
  <2>1. /\ StoreType' /\ SessType' /\ CurType' /\ DstType'
        /\ DedupType' /\ WaiterType' /\ NodeType' /\ HistType'
    BY DEF StoreType, SessType, CurType, DstType, DedupType, WaiterType,
          NodeType, HistType
  <2>2. PcType' /\ pc'[c] = "flush" /\ \A q \in Proc : q # c => pc'[q] = pc[q]
    BY GotoType
  <2>3. HandlerType'
    BY DEF HandlerType, StoreType
  <2>4. LinkType'
    BY ReceiveType DEF LinkType
  <2>5. LocalsOK'
    BY <2>2 DEF LocalsOK
  <2> QED BY <2>1, <2>2, <2>3, <2>4, <2>5
<1>3. CASE FlushDone(c)
  <2> USE <1>3 DEF FlushDone
  <2>1. /\ StoreType' /\ CurType' /\ DstType' /\ HandlerType'
        /\ DedupType' /\ WaiterType' /\ LinkType' /\ NodeType'
        /\ HistType'
    BY DEF StoreType, CurType, DstType, HandlerType, DedupType, WaiterType,
          LinkType, NodeType, HistType
  <2>2. PcType' /\ pc'[c] = "read" /\ \A q \in Proc : q # c => pc'[q] = pc[q]
    BY GotoType
  <2>3. SessType'
    BY DEF SessType
  <2>4. LocalsOK'
    BY <2>2 DEF LocalsOK
  <2> QED BY <2>1, <2>2, <2>3, <2>4
<1>4. CASE \E t \in Task : FlushExpire(c, t)
  <2> PICK t \in Task : FlushExpire(c, t)
    BY <1>4
  <2> USE DEF FlushExpire, NextInFlush
  <2>1. /\ SessType' /\ PcType' /\ CurType' /\ DstType' /\ DedupType'
        /\ WaiterType' /\ LinkType' /\ NodeType'
    BY DEF SessType, PcType, CurType, DstType, DedupType, WaiterType,
          LinkType, NodeType
  <2>2. StoreType'
    BY DEF StoreType
  <2>3. HandlerType'
    BY DEF HandlerType
  <2>4. HistType'
    BY FaultType DEF HistType
  <2>5. LocalsOK'
    BY DEF LocalsOK
  <2> QED BY <2>1, <2>2, <2>3, <2>4, <2>5
<1>5. CASE \E t \in Task : FlushSend(c, t)
  <2> PICK t \in Task : FlushSend(c, t)
    BY <1>5
  <2> USE DEF FlushSend, NextInFlush
  <2>1. /\ StoreType' /\ SessType' /\ DstType' /\ DedupType'
        /\ WaiterType' /\ LinkType' /\ NodeType' /\ HistType'
    BY DEF StoreType, SessType, DstType, DedupType, WaiterType, LinkType,
          NodeType, HistType
  <2>2. PcType' /\ pc'[c] = "lookup" /\ \A q \in Proc : q # c => pc'[q] = pc[q]
    BY GotoType
  <2>3. CurType' /\ cur'[c] \in Task /\ \A q \in Proc : q # c => cur'[q] = cur[q]
    BY DEF CurType
  <2>4. HandlerType'
    BY DEF HandlerType
  <2>5. LocalsOK'
    BY <2>2, <2>3 DEF LocalsOK
  <2> QED BY <2>1, <2>2, <2>3, <2>4, <2>5
<1>6. CASE ReadResult(c)
  <2> USE <1>6 DEF ReadResult
  <2>1. /\ StoreType' /\ SessType' /\ DstType' /\ DedupType'
        /\ WaiterType' /\ NodeType' /\ HistType'
    BY DEF StoreType, SessType, DstType, DedupType, WaiterType, NodeType,
          HistType
  <2>2. LinkType'
    BY ReceiveType DEF LinkType
  <2>3. CASE Head(up[c]).id \in seen
    BY <2>1, <2>2, <2>3 DEF PcType, CurType, HandlerType, LocalsOK
  <2>4. CASE Head(up[c]).id \notin seen
    <3>1. /\ Head(up[c]).id \in Task
          /\ Head(up[c]).res \in Result
      BY ReceiveType DEF LinkType
    <3>2. PcType' /\ pc'[c] = "claim" /\ \A q \in Proc : q # c => pc'[q] = pc[q]
      BY <2>4, GotoType
    <3>3. CurType' /\ cur'[c] \in Task /\ \A q \in Proc : q # c => cur'[q] = cur[q]
      <4>1. c \in Proc /\ c \notin Task /\ cur' = [cur EXCEPT ![c] = Head(up[c]).id]
        BY <2>4
      <4> QED BY <3>1, <4>1 DEF CurType
    <3>4. /\ HandlerType' /\ got'[c] \in Result
          /\ \A d \in Conn : d # c => got'[d] = got[d]
      BY <2>4, <3>1 DEF HandlerType
    <3>5. LocalsOK'
      BY <3>2, <3>3, <3>4 DEF LocalsOK
    <3> QED BY <2>1, <2>2, <3>2, <3>3, <3>4, <3>5
  <2> QED BY <2>3, <2>4
<1>7. CASE MarkSeen(c)
  <2> USE <1>7 DEF MarkSeen
  <2>1. /\ StoreType' /\ SessType' /\ CurType' /\ DstType'
        /\ HandlerType' /\ WaiterType' /\ LinkType' /\ NodeType'
        /\ HistType'
    BY DEF StoreType, SessType, CurType, DstType, HandlerType, WaiterType,
          LinkType, NodeType, HistType
  <2>2. PcType' /\ pc'[c] = "complete" /\ \A q \in Proc : q # c => pc'[q] = pc[q]
    BY GotoType
  <2>3. cur[c] \in Task
    BY DEF LocalsOK
  <2>4. DedupType'
    BY <2>3, PushedType DEF DedupType
  <2>5. LocalsOK'
    BY <2>2 DEF LocalsOK
  <2> QED BY <2>1, <2>2, <2>4, <2>5
<1>8. CASE CompleteTask(c)
  <2> USE <1>8 DEF CompleteTask
  <2>1. /\ SessType' /\ CurType' /\ DstType' /\ HandlerType'
        /\ DedupType' /\ WaiterType' /\ LinkType' /\ NodeType'
        /\ HistType'
    BY DEF SessType, CurType, DstType, HandlerType, DedupType, WaiterType,
          LinkType, NodeType, HistType
  <2>2. PcType' /\ pc'[c] = "notify" /\ \A q \in Proc : q # c => pc'[q] = pc[q]
    BY GotoType
  <2>3. StoreType'
    BY StateOfType DEF StoreType, LocalsOK
  <2>4. LocalsOK'
    BY <2>2 DEF LocalsOK
  <2> QED BY <2>1, <2>2, <2>3, <2>4
<1>9. CASE NotifyWaiter(c)
  <2> USE <1>9 DEF NotifyWaiter
  <2>1. /\ StoreType' /\ SessType' /\ DstType' /\ DedupType'
        /\ LinkType' /\ NodeType' /\ HistType'
    BY DEF StoreType, SessType, DstType, DedupType, LinkType, NodeType,
          HistType
  <2>2. /\ PcType' /\ CurType' /\ HandlerType'
        /\ pc'[c] = "read"
        /\ \A q \in Proc : q # c => pc'[q] = pc[q] /\ cur'[q] = cur[q]
        /\ \A d \in Conn : d # c => got'[d] = got[d]
    BY EndResultType
  <2>3. WaiterType'
    BY DEF WaiterType, StoreType, LocalsOK
  <2>4. LocalsOK'
    BY <2>2 DEF LocalsOK
  <2> QED BY <2>1, <2>2, <2>3, <2>4
<1>10. CASE Leave(c)
  <2> USE <1>10 DEF Leave
  <2>1. /\ StoreType' /\ CurType' /\ DstType' /\ HandlerType'
        /\ DedupType' /\ WaiterType' /\ NodeType' /\ HistType'
    BY DEF StoreType, CurType, DstType, HandlerType, DedupType, WaiterType,
          NodeType, HistType
  <2>2. PcType' /\ pc'[c] = "idle" /\ \A q \in Proc : q # c => pc'[q] = pc[q]
    <3>1. PcType /\ c \in Proc /\ Goto(c, "idle")
      OBVIOUS
    <3> HIDE DEF Leave
    <3> QED BY <3>1, GotoType
  <2>3. SessType'
    BY DEF SessType
  <2>4. LinkType'
    BY EmptyType DEF LinkType
  <2>5. LocalsOK'
    BY <2>2 DEF LocalsOK
  <2> QED BY <2>1, <2>2, <2>3, <2>4, <2>5
<1> QED
  BY <1>1, <1>2, <1>3, <1>4, <1>5, <1>6, <1>7, <1>8, <1>9, <1>10 DEF HandlerStep

(* The register notification alone is a queue. *)
LEMMA SingletonType ==
    ASSUME NEW S, NEW x \in S
    PROVE  <<x>> \in Seq(S) /\ Len(<<x>>) = 1
  OBVIOUS

(* A new connection starts with its register notification. *)
LEMMA DialType ==
    ASSUME TypeInv, NEW c \in Conn, Dial(c)
    PROVE  TypeInv'
<1> USE TaskAssumption, ConnAssumption, BoundAssumption DEF TypeInv, TypeOK
<1>1. CASE Dial(c)
  <2> USE <1>1 DEF Dial
  <2>1. /\ StoreType' /\ SessType' /\ CurType' /\ DstType'
        /\ HandlerType' /\ DedupType' /\ WaiterType' /\ HistType'
    BY DEF StoreType, SessType, CurType, DstType, HandlerType, DedupType,
          WaiterType, HistType
  <2>2. PcType' /\ pc'[c] = "add" /\ \A q \in Proc : q # c => pc'[q] = pc[q]
    BY GotoType
  <2>3. <<RegisterFrame>> \in Seq(Frame) /\ Len(<<RegisterFrame>>) = 1
    BY SingletonType DEF Frame
  <2>4. LinkType'
    BY <2>3, EmptyType DEF LinkType
  <2>5. NodeType'
    BY DEF NodeType
  <2>6. LocalsOK'
    BY <2>2 DEF LocalsOK
  <2> QED BY <2>1, <2>2, <2>4, <2>5, <2>6
<1> QED BY <1>1

(* The node's Serve takes the head of what was sent to it. *)
LEMMA TakeType ==
    ASSUME LinkType, NEW t, TakeInstruction(t)
    PROVE  /\ nconn \in Conn
           /\ down' \in [Conn -> Seq(Task)]
           /\ \A c \in Conn : Len(down'[c]) <= SendBuffer
<1>1. /\ nconn \in Conn
      /\ Tail(down[nconn]) \in Seq(Task)
      /\ Len(Tail(down[nconn])) = Len(down[nconn]) - 1
  BY HeadTailProperties DEF TakeInstruction, LinkType
<1> QED BY <1>1, BoundAssumption DEF TakeInstruction, LinkType

(* Send on the node's end respects the send buffer. *)
LEMMA ReportType ==
    ASSUME LinkType, NEW c \in Conn, NEW frame \in Frame, Report(c, frame), UNCHANGED link,
           down' \in [Conn -> Seq(Task)],
           \A d \in Conn : Len(down'[d]) <= SendBuffer
    PROVE  LinkType'
<1>1. CASE link[c] = "up"
  <2>1. /\ Append(up[c], frame) \in Seq(Frame)
        /\ Len(Append(up[c], frame)) = Len(up[c]) + 1
    BY AppendProperties DEF LinkType
  <2>2. /\ up' = [up EXCEPT ![c] = Append(up[c], frame)]
        /\ Len(up[c]) < SendBuffer /\ Len(up[c]) \in Nat
    BY <1>1, LenProperties DEF Report, LinkType
  <2>3. Len(Append(up[c], frame)) <= SendBuffer
    BY <2>1, <2>2, BoundAssumption
  <2>4. up' \in [Conn -> Seq(Frame)] /\ \A d \in Conn : Len(up'[d]) <= SendBuffer
    BY <2>1, <2>2, <2>3, QueueUpdate DEF LinkType
  <2> QED BY <2>4 DEF LinkType
<1>2. CASE link[c] # "up"
  BY <1>2 DEF LinkType, Report
<1> QED BY <1>1, <1>2

(* Executor.remember keeps its window within NodeWindow. *)
LEMMA RememberType ==
    ASSUME NodeType, HistType, NEW t \in Task, NEW r \in Result, Remember(t, r)
    PROVE  /\ nres' \in [Task -> Result \cup {"none"}]
           /\ nresOrder' \in Seq(Task)
           /\ Len(nresOrder') <= NodeWindow
           /\ produced' \in [Task -> SUBSET Result]
<1>1. nresOrder' \in Seq(Task) /\ Len(nresOrder') <= NodeWindow
  BY PushedType, BoundAssumption DEF Remember, NodeType
<1>2. nres' \in [Task -> Result \cup {"none"}]
  BY DEF Remember, NodeType
<1>3. produced' \in [Task -> SUBSET Result]
  BY DEF Remember, HistType
<1> QED BY <1>1, <1>2, <1>3

(* Replaying, discarding, starting and finishing keep the types. *)
LEMMA NodeTypes ==
    ASSUME TypeInv, NodeStep
    PROVE  TypeInv'
<1> USE TaskAssumption, ConnAssumption, BoundAssumption DEF TypeInv, TypeOK
<1>1. CASE \E t \in Task : NodeReplay(t)
  <2> PICK t \in Task : NodeReplay(t)
    BY <1>1
  <2> USE DEF NodeReplay
  <2>1. /\ StoreType' /\ SessType' /\ PcType' /\ CurType' /\ DstType'
        /\ HandlerType' /\ DedupType' /\ WaiterType' /\ NodeType'
        /\ HistType'
    BY DEF StoreType, SessType, PcType, CurType, DstType, HandlerType,
          DedupType, WaiterType, NodeType, HistType
  <2>2. ResultFrame(t, nres[t]) \in Frame
    BY DEF Frame, NodeType
  <2>3. LinkType'
    BY <2>2, TakeType, ReportType
  <2>4. LocalsOK'
    BY DEF LocalsOK
  <2> QED BY <2>1, <2>3, <2>4
<1>2. CASE \E t \in Task : NodeDiscard(t)
  <2> PICK t \in Task : NodeDiscard(t)
    BY <1>2
  <2> USE DEF NodeDiscard
  <2>1. /\ StoreType' /\ SessType' /\ PcType' /\ CurType' /\ DstType'
        /\ HandlerType' /\ DedupType' /\ WaiterType'
    BY DEF StoreType, SessType, PcType, CurType, DstType, HandlerType,
          DedupType, WaiterType
  <2>2. ResultFrame(t, "discarded") \in Frame
    BY DEF Frame
  <2>3. LinkType'
    BY <2>2, TakeType, ReportType
  <2>4. NodeType' /\ HistType'
    BY RememberType DEF NodeType, HistType
  <2>5. LocalsOK'
    BY DEF LocalsOK
  <2> QED BY <2>1, <2>3, <2>4, <2>5
<1>3. CASE \E t \in Task : NodeStart(t)
  <2> PICK t \in Task : NodeStart(t)
    BY <1>3
  <2> USE DEF NodeStart
  <2>1. /\ StoreType' /\ SessType' /\ PcType' /\ CurType' /\ DstType'
        /\ HandlerType' /\ DedupType' /\ WaiterType' /\ HistType'
    BY DEF StoreType, SessType, PcType, CurType, DstType, HandlerType,
          DedupType, WaiterType, HistType
  <2>2. LinkType'
    BY TakeType DEF LinkType
  <2>3. NodeType'
    BY DEF NodeType
  <2>4. LocalsOK'
    BY DEF LocalsOK, TakeInstruction
  <2> QED BY <2>1, <2>2, <2>3, <2>4
<1>4. CASE \E r \in Endings \ {"discarded"} : NodeFinish(r)
  <2> PICK r \in Endings \ {"discarded"} : NodeFinish(r)
    BY <1>4
  <2> USE DEF NodeFinish
  <2>1. /\ StoreType' /\ SessType' /\ PcType' /\ CurType' /\ DstType'
        /\ HandlerType' /\ DedupType' /\ WaiterType'
    BY DEF StoreType, SessType, PcType, CurType, DstType, HandlerType,
          DedupType, WaiterType
  <2>2. r \in Result /\ exec \in Task
    BY DEF NodeType
  <2>3. ResultFrame(exec, r) \in Frame
    BY <2>2 DEF Frame
  <2>4. LinkType'
    <3>1. nconn \in Conn
      BY DEF LocalsOK
    <3> QED BY <2>3, <3>1, ReportType DEF LinkType
  <2>0. /\ nres' \in [Task -> Result \cup {"none"}] /\ nresOrder' \in Seq(Task)
        /\ Len(nresOrder') <= NodeWindow /\ produced' \in [Task -> SUBSET Result]
    BY <2>2, RememberType
  <2>5. NodeType' /\ HistType'
    BY <2>0 DEF NodeType, HistType
  <2>6. LocalsOK'
    BY DEF LocalsOK
  <2> QED BY <2>1, <2>4, <2>5, <2>6
<1> QED BY <1>1, <1>2, <1>3, <1>4 DEF NodeStep

(* Store errors, broken links, reaping and crashes keep the types. *)
LEMMA FailureTypes ==
    ASSUME TypeInv, Failure
    PROVE  TypeInv'
<1> USE TaskAssumption, ConnAssumption, BoundAssumption DEF TypeInv, TypeOK
<1>1. CASE \E p \in Proc : StoreFails(p)
  <2> PICK p \in Proc : StoreFails(p)
    BY <1>1
  <2> USE DEF StoreFails
  <2>1. /\ StoreType' /\ SessType' /\ DedupType' /\ WaiterType'
        /\ LinkType' /\ NodeType'
    BY DEF StoreType, SessType, DedupType, WaiterType, LinkType, NodeType
  <2>2. HistType'
    BY FaultType DEF HistType
  <2>3. CASE pc[p] = "mark"
    <3>1. Return(p) /\ UNCHANGED <<todo, due, got>>
      BY <2>3
    <3>2. HandlerType'
      BY <3>1 DEF HandlerType
    <3> QED BY <2>1, <2>2, <3>1, <3>2, ReturnType DEF LocalsOK
  <2>4. CASE pc[p] # "mark"
    <3>1. EndResult(p) /\ UNCHANGED <<todo, due, dst>>
      BY <2>4
    <3>2. p \in Conn
      BY <2>4 DEF PcType
    <3>3. DstType'
      BY <3>1 DEF DstType
    <3>4. /\ PcType' /\ CurType' /\ HandlerType'
          /\ pc'[p] = "read"
          /\ \A q \in Proc : q # p => pc'[q] = pc[q] /\ cur'[q] = cur[q]
          /\ \A d \in Conn : d # p => got'[d] = got[d]
      BY <3>1, <3>2, EndResultType
    <3>5. LocalsOK'
      BY <3>1, <3>4 DEF LocalsOK
    <3> QED BY <2>1, <2>2, <3>3, <3>4, <3>5
  <2> QED BY <2>3, <2>4
<1>2. CASE \E c \in Conn : RegisterFails(c)
  <2> PICK c \in Conn : RegisterFails(c)
    BY <1>2
  <2> USE DEF RegisterFails
  <2>1. /\ StoreType' /\ SessType' /\ PcType' /\ CurType' /\ DstType'
        /\ HandlerType' /\ DedupType' /\ WaiterType' /\ NodeType'
    BY DEF StoreType, SessType, PcType, CurType, DstType, HandlerType,
          DedupType, WaiterType, NodeType
  <2>2. LinkType'
    BY ReceiveType DEF LinkType
  <2>3. HistType'
    BY FaultType DEF HistType
  <2>4. LocalsOK'
    BY DEF LocalsOK
  <2> QED BY <2>1, <2>2, <2>3, <2>4
<1>3. CASE \E c \in Conn : Break(c)
  <2> PICK c \in Conn : Break(c)
    BY <1>3
  <2> USE DEF Break
  <2>1. /\ StoreType' /\ SessType' /\ PcType' /\ CurType' /\ DstType'
        /\ HandlerType' /\ DedupType' /\ WaiterType' /\ NodeType'
    BY DEF StoreType, SessType, PcType, CurType, DstType, HandlerType,
          DedupType, WaiterType, NodeType
  <2>2. LinkType'
    BY CloseType DEF LinkType
  <2>3. HistType'
    BY FaultType DEF HistType
  <2>4. LocalsOK'
    BY DEF LocalsOK
  <2> QED BY <2>1, <2>2, <2>3, <2>4
<1>4. CASE Reap
  <2> USE <1>4 DEF Reap
  <2>1. /\ StoreType' /\ PcType' /\ CurType' /\ DstType'
        /\ HandlerType' /\ DedupType' /\ WaiterType' /\ NodeType'
    BY DEF StoreType, PcType, CurType, DstType, HandlerType, DedupType,
          WaiterType, NodeType
  <2>2. LinkType'
    BY CloseType DEF LinkType, SessType
  <2>3. HistType'
    BY FaultType DEF HistType
  <2>4. SessType'
    BY DEF SessType
  <2>5. LocalsOK'
    BY DEF LocalsOK
  <2> QED BY <2>1, <2>2, <2>3, <2>4, <2>5
<1>5. CASE NodeDrop
  <2> USE <1>5 DEF NodeDrop
  <2>1. /\ StoreType' /\ SessType' /\ PcType' /\ CurType' /\ DstType'
        /\ HandlerType' /\ DedupType' /\ WaiterType'
    BY DEF StoreType, SessType, PcType, CurType, DstType, HandlerType,
          DedupType, WaiterType
  <2>2. LinkType'
    BY EmptyType, ArriveType DEF LinkType, LoseUnsent
  <2>3. HistType'
    BY FaultType DEF HistType
  <2>4. NodeType'
    BY DEF NodeType
  <2>5. LocalsOK'
    BY DEF LocalsOK
  <2> QED BY <2>1, <2>2, <2>3, <2>4, <2>5
<1>6. CASE NodeCrash
  <2> USE <1>6 DEF NodeCrash
  <2>1. /\ StoreType' /\ SessType' /\ PcType' /\ CurType' /\ DstType'
        /\ HandlerType' /\ DedupType' /\ WaiterType'
    BY DEF StoreType, SessType, PcType, CurType, DstType, HandlerType,
          DedupType, WaiterType
  <2>2. LinkType'
    <3>1. CASE nconn \in Conn
      <4>1. /\ down' \in [Conn -> Seq(Task)]
            /\ \A c \in Conn : Len(down'[c]) <= SendBuffer
        <5>1. <<>> \in Seq(Task) /\ Len(<<>>) <= SendBuffer
          BY EmptyType
        <5>2. down' = [down EXCEPT ![nconn] = <<>>]
          BY <3>1
        <5> QED BY <3>1, <5>1, <5>2, QueueUpdate DEF LinkType
      <4>2. /\ up' \in [Conn -> Seq(Frame)]
            /\ \A c \in Conn : Len(up'[c]) <= SendBuffer
        BY <3>1, ArriveType DEF LinkType, LoseUnsent
      <4> QED BY <4>1, <4>2 DEF LinkType
    <3>2. CASE nconn \notin Conn
      BY <3>2 DEF LinkType
    <3> QED BY <3>1, <3>2
  <2>3. HistType'
    BY FaultType DEF HistType
  <2>4. NodeType'
    BY EmptyType DEF NodeType
  <2>5. LocalsOK'
    BY DEF LocalsOK
  <2> QED BY <2>1, <2>2, <2>3, <2>4, <2>5
<1>7. CASE ManagerCrash
  <2> USE <1>7 DEF ManagerCrash
  <2>1. StoreType' /\ NodeType'
    BY DEF StoreType, NodeType
  <2>2. SessType' /\ HandlerType' /\ WaiterType'
    BY DEF SessType, HandlerType, WaiterType
  <2>3. DedupType' /\ LinkType'
    BY EmptyType DEF DedupType, LinkType
  <2>4. HistType'
    BY FaultType DEF HistType
  <2>5. PcType' /\ \A p \in Proc : pc'[p] \in {"idle", "done"}
    BY DEF PcType
  <2>6. CurType' /\ DstType'
    BY DEF CurType, DstType
  <2>7. LocalsOK'
    BY <2>5 DEF LocalsOK
  <2> QED BY <2>1, <2>2, <2>3, <2>4, <2>5, <2>6, <2>7
<1> QED
  BY <1>1, <1>2, <1>3, <1>4, <1>5, <1>6, <1>7 DEF Failure

(* Nothing changes, nothing loses its type. *)
LEMMA StutterType ==
    ASSUME TypeInv, UNCHANGED vars
    PROVE  TypeInv'
<1>1. TypeOK'
  BY DEF vars, TypeInv, TypeOK, StoreType, SessType, PcType, CurType, DstType,
     HandlerType, DedupType, WaiterType, LinkType, NodeType, HistType
<1>2. LocalsOK'
  BY DEF vars, TypeInv, LocalsOK
<1> QED BY <1>1, <1>2 DEF TypeInv

(* Next preserves the inductive type invariant. *)
LEMMA TypeStep ==
    ASSUME TypeInv, [Next]_vars
    PROVE  TypeInv'
<1>1. CASE \E t \in Task : CreatorStep(t) \/ DeadlinePasses(t)
  BY <1>1, CreatorType
<1>2. CASE \E p \in Proc : SendStep(p)
  BY <1>2, SendType
<1>3. CASE \E c \in Conn : Dial(c)
  BY <1>3, DialType
<1>4. CASE \E c \in Conn : HandlerStep(c)
  BY <1>4, HandlerTypes
<1>5. CASE \E c \in Conn : IdleHeartbeat(c)
  BY <1>5, StutterType DEF IdleHeartbeat
<1>6. CASE NodeStep
  BY <1>6, NodeTypes
<1>7. CASE Failure
  BY <1>7, FailureTypes
<1>8. CASE UNCHANGED vars
  BY <1>8, StutterType
<1> QED
  BY <1>1, <1>2, <1>3, <1>4, <1>5, <1>6, <1>7, <1>8 DEF Next

(* Every variable of the dispatch path keeps its type, and a process
   that sends or records holds the task, connection and result it needs. *)
THEOREM TypeInvariant == Spec => []TypeInv
<1>1. Init => TypeInv
  BY TypeInit
<1>2. TypeInv /\ [Next]_vars => TypeInv'
  BY TypeStep
<1> QED BY <1>1, <1>2, PTL DEF Spec

(* Type correctness and the bounds of the windows and of the send channels *)
(* hold in every reachable state, for every value of the constants.        *)
THEOREM TypeCorrect == Spec => []TypeOK
<1>1. TypeInv => TypeOK
  BY DEF TypeInv
<1> QED BY <1>1, TypeInvariant, PTL

=============================================================================
