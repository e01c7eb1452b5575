------------------------- MODULE DispatchSafety -------------------------
(***************************************************************************)
(* That every recorded result is real, and that the dispatch path          *)
(* implements the abstract task service: both from the invariant that      *)
(* traces every result and every instruction in flight to its origin.      *)
(***************************************************************************)
EXTENDS DispatchProofs

USE DEF storeVars, sessVars, procVars, dedupVars, linkVars, nodeVars, histVars
USE DEF Proc, SendPC, RecordPC, CreatorPC, HandlerPC

(* The elements of a queue after the operations the two ends perform. *)
LEMMA AppendAll ==
    ASSUME NEW S, NEW q \in Seq(S), NEW x \in S
    PROVE  \A i \in 1..Len(Append(q, x)) :
               \/ i \in 1..Len(q) /\ Append(q, x)[i] = q[i]
               \/ Append(q, x)[i] = x
  BY AppendProperties

(* What readPump leaves in the queue was there, one place later. *)
LEMMA TailAll ==
    ASSUME NEW S, NEW q \in Seq(S), q # <<>>
    PROVE  /\ \A i \in 1..Len(Tail(q)) : i + 1 \in 1..Len(q) /\ Tail(q)[i] = q[i+1]
           /\ 1 \in 1..Len(q) /\ Head(q) = q[1]
  BY HeadTailProperties

(* What survives a loss of the last frames was there, at its place. *)
LEMMA PrefixAll ==
    ASSUME NEW S, NEW q \in Seq(S), NEW k \in 0..Len(q)
    PROVE  \A i \in 1..Len(Prefix(q, k)) : i \in 1..Len(q) /\ Prefix(q, k)[i] = q[i]
  BY SubSeqProperties DEF Prefix

(* Nothing is in flight at the start. *)
LEMMA ProvenanceInit == Init => Provenance
  BY DEF Init, Provenance, Outcome, TS!Outcome, ResultsReal, NresTraced, UpTraced, GotTraced,
     RowTraced, SendTraced, DownTraced, ExecTraced, FlushTraced

(* The dispatcher's send offers only tasks that have a row. *)
LEMMA SendProvenance ==
    ASSUME TypeInv, Provenance, NEW p \in Proc, SendStep(p)
    PROVE  Provenance'
<1> USE TaskAssumption, ConnAssumption DEF Provenance
<1>1. CASE LookupConn(p)
  <2> USE <1>1 DEF LookupConn
  <2>1. /\ ResultsReal' /\ NresTraced' /\ UpTraced' /\ RowTraced'
        /\ DownTraced' /\ ExecTraced' /\ FlushTraced'
    BY DEF ResultsReal, NresTraced, UpTraced, RowTraced, DownTraced,
       ExecTraced, FlushTraced, Real
  <2>2. /\ pc'[p] \in {"done", "flush", "push"}
        /\ pc'[p] = "push" => cur'[p] = cur[p]
        /\ \A q \in Proc : q # p => pc'[q] = pc[q] /\ cur'[q] = cur[q]
    <3>1. CASE reg = NoConn \/ link[reg] = "down"
      BY <3>1, ReturnType DEF TypeInv, TypeOK
    <3>2. CASE ~(reg = NoConn \/ link[reg] = "down")
      BY <3>2, GotoType DEF TypeInv, TypeOK
    <3> QED BY <3>1, <3>2
  <2>3. GotTraced'
    BY <2>2 DEF GotTraced
  <2>4. SendTraced'
    BY <2>2 DEF SendTraced
  <2> QED
    BY <2>1, <2>3, <2>4
<1>2. CASE Push(p)
  <2> USE <1>2 DEF Push
  <2>1. /\ ResultsReal' /\ NresTraced' /\ UpTraced' /\ FlushTraced'
    BY DEF ResultsReal, NresTraced, UpTraced, FlushTraced, Real
  <2>2. pc'[p] = "mark" /\ \A q \in Proc : q # p => pc'[q] = pc[q]
    BY GotoType DEF TypeInv, TypeOK
  <2>3. cur[p] \in Task /\ dst[p] \in Conn
    BY DEF TypeInv, LocalsOK
  <2>4. GotTraced'
    BY <2>2, <2>3 DEF GotTraced
  <2>5. RowTraced'
    BY <2>2, <2>3 DEF RowTraced, SendTraced
  <2>6. SendTraced'
    BY <2>2, <2>3 DEF SendTraced
  <2>7. DownTraced'
    <3>1. \A i \in 1..Len(Append(down[dst[p]], cur[p])) :
           \/ i \in 1..Len(down[dst[p]]) /\ Append(down[dst[p]], cur[p])[i] = down[dst[p]][i]
           \/ Append(down[dst[p]], cur[p])[i] = cur[p]
      <4>1. down[dst[p]] \in Seq(Task)
        BY <2>3 DEF TypeInv, TypeOK, LinkType
      <4> QED BY <2>3, <4>1, AppendAll
    <3>2. /\ down'[dst[p]] = Append(down[dst[p]], cur[p])
          /\ \A c \in Conn : c # dst[p] => down'[c] = down[c]
      BY <2>3 DEF TypeInv, TypeOK, LinkType
    <3>3. offered' = offered \cup {cur[p]}
      OBVIOUS
    <3>4. ASSUME NEW i \in 1..Len(down'[dst[p]]) PROVE down'[dst[p]][i] \in offered'
      BY <2>3, <3>1, <3>2, <3>3 DEF DownTraced
    <3>5. ASSUME NEW c \in Conn, c # dst[p], NEW i \in 1..Len(down'[c])
          PROVE  down'[c][i] \in offered'
      BY <3>2, <3>3, <3>5 DEF DownTraced
    <3> QED BY <3>4, <3>5, Zenon DEF DownTraced
  <2>8. ExecTraced'
    BY <2>2, <2>3 DEF ExecTraced
  <2> QED
    BY <2>1, <2>2, <2>3, <2>4, <2>5, <2>6, <2>7, <2>8
<1>3. CASE PushFails(p)
  <2> USE <1>3 DEF PushFails
  <2>1. /\ ResultsReal' /\ NresTraced' /\ UpTraced' /\ RowTraced'
        /\ DownTraced' /\ ExecTraced' /\ FlushTraced'
    BY DEF ResultsReal, NresTraced, UpTraced, RowTraced, DownTraced,
       ExecTraced, FlushTraced, Real
  <2>2. /\ pc'[p] \in {"done", "flush"}
        /\ \A q \in Proc : q # p => pc'[q] = pc[q] /\ cur'[q] = cur[q]
    BY ReturnType DEF TypeInv, TypeOK
  <2>3. GotTraced'
    BY <2>2 DEF GotTraced
  <2>4. SendTraced'
    BY <2>2 DEF SendTraced
  <2> QED
    BY <2>1, <2>2, <2>3, <2>4
<1>4. CASE MarkSent(p)
  <2> USE <1>4 DEF MarkSent
  <2>1. /\ NresTraced' /\ UpTraced' /\ DownTraced' /\ ExecTraced'
    BY DEF NresTraced, UpTraced, DownTraced, ExecTraced
  <2>2. /\ pc'[p] \in {"done", "flush"}
        /\ \A q \in Proc : q # p => pc'[q] = pc[q] /\ cur'[q] = cur[q]
    BY ReturnType DEF TypeInv, TypeOK
  <2>3. cur[p] \in Task
    BY DEF TypeInv, LocalsOK
  <2>4. ResultsReal'
    BY <2>2, <2>3 DEF ResultsReal, Real, Outcome, TS!Outcome, TypeInv, TypeOK, StoreType
  <2>5. GotTraced'
    BY <2>2, <2>3 DEF GotTraced
  <2>6. RowTraced'
    BY <2>2, <2>3 DEF RowTraced, TypeInv, TypeOK, StoreType, HistType
  <2>7. SendTraced'
    BY <2>2, <2>3 DEF SendTraced, TypeInv, TypeOK, StoreType, LocalsOK
  <2>8. FlushTraced'
    BY <2>2, <2>3 DEF FlushTraced, TypeInv, TypeOK, StoreType, HandlerType
  <2> QED
    BY <2>1, <2>2, <2>3, <2>4, <2>5, <2>6, <2>7, <2>8
<1> QED
  BY <1>1, <1>2, <1>3, <1>4 DEF SendStep

(* CreateTask and the clock touch no result. *)
LEMMA CreatorProvenance ==
    ASSUME TypeInv, Provenance, NEW t \in Task, CreatorStep(t) \/ DeadlinePasses(t)
    PROVE  Provenance'
<1> USE TaskAssumption, ConnAssumption DEF Provenance
<1>1. CASE Submit(t)
  <2> USE <1>1 DEF Submit
  <2>1. /\ NresTraced' /\ UpTraced' /\ DownTraced' /\ ExecTraced'
    BY DEF NresTraced, UpTraced, DownTraced, ExecTraced
  <2>2. pc'[t] = "lookup" /\ \A q \in Proc : q # t => pc'[q] = pc[q]
    BY GotoType DEF TypeInv, TypeOK
  <2>3. ResultsReal'
    BY <2>2 DEF ResultsReal, Real, Outcome, TS!Outcome, TypeInv, TypeOK, StoreType, WaiterType
  <2>4. GotTraced'
    BY <2>2 DEF GotTraced
  <2>5. RowTraced'
    BY <2>2 DEF RowTraced, TypeInv, TypeOK, StoreType, HistType
  <2>6. SendTraced'
    BY <2>2 DEF SendTraced, TypeInv, TypeOK, StoreType, LocalsOK, CurType
  <2>7. FlushTraced'
    BY <2>2 DEF FlushTraced, TypeInv, TypeOK, StoreType, HandlerType
  <2> QED
    BY <2>1, <2>2, <2>3, <2>4, <2>5, <2>6, <2>7
<1>2. CASE CancelWait(t)
  <2> USE <1>2 DEF CancelWait
  <2>1. /\ NresTraced' /\ UpTraced' /\ GotTraced' /\ RowTraced'
        /\ SendTraced' /\ DownTraced' /\ ExecTraced' /\ FlushTraced'
    BY DEF NresTraced, UpTraced, GotTraced, RowTraced, SendTraced,
       DownTraced, ExecTraced, FlushTraced
  <2>2. ResultsReal'
    BY DEF ResultsReal, Real, Outcome, TS!Outcome, TypeInv, TypeOK, WaiterType
  <2> QED
    BY <2>1, <2>2
<1>3. CASE PushCancelled(t)
  <2> USE <1>3 DEF PushCancelled
  <2>1. /\ ResultsReal' /\ NresTraced' /\ UpTraced' /\ RowTraced'
        /\ DownTraced' /\ ExecTraced' /\ FlushTraced'
    BY DEF ResultsReal, NresTraced, UpTraced, RowTraced, DownTraced,
       ExecTraced, FlushTraced, Real
  <2>2. /\ pc'[t] \in {"done", "flush"}
        /\ \A q \in Proc : q # t => pc'[q] = pc[q] /\ cur'[q] = cur[q]
    BY ReturnType DEF TypeInv, TypeOK
  <2>3. GotTraced'
    BY <2>2 DEF GotTraced
  <2>4. SendTraced'
    BY <2>2 DEF SendTraced
  <2> QED
    BY <2>1, <2>2, <2>3, <2>4
<1>4. CASE DeadlinePasses(t)
  <2> USE <1>4 DEF DeadlinePasses
  <2>1. /\ ResultsReal' /\ NresTraced' /\ UpTraced' /\ GotTraced'
        /\ RowTraced' /\ SendTraced' /\ DownTraced' /\ ExecTraced'
    BY DEF ResultsReal, NresTraced, UpTraced, GotTraced, RowTraced,
       SendTraced, DownTraced, ExecTraced, Real
  <2>2. FlushTraced'
    BY DEF FlushTraced
  <2> QED
    BY <2>1, <2>2
<1> QED
  BY <1>1, <1>2, <1>3, <1>4 DEF CreatorStep

(* Losing the last frames of the node loses no origin. *)
LEMMA ArriveTraced ==
    ASSUME TypeInv, UpTraced, NEW c \in Conn, NEW n, ArriveAtMost(c, n),
           UNCHANGED produced
    PROVE  UpTraced'
<1>1. PICK k \in 0..Len(up[c]) : up' = [up EXCEPT ![c] = Prefix(up[c], k)]
  BY DEF ArriveAtMost
<1>2. \A i \in 1..Len(Prefix(up[c], k)) :
         i \in 1..Len(up[c]) /\ Prefix(up[c], k)[i] = up[c][i]
  BY PrefixAll DEF TypeInv, TypeOK, LinkType
<1> QED BY <1>1, <1>2 DEF UpTraced, TypeInv, TypeOK, LinkType

(* Closing the manager's end loses frames only. *)
LEMMA CloseTraced ==
    ASSUME TypeInv, UpTraced, NEW c \in Conn, CloseManagerEnd(c), UNCHANGED produced
    PROVE  UpTraced'
<1>1. CASE link[c] = "up"
  BY <1>1, ArriveTraced DEF CloseManagerEnd
<1>2. CASE link[c] # "up"
  BY <1>2 DEF CloseManagerEnd, UpTraced
<1> QED BY <1>1, <1>2

(* The result a handler receives was produced for the task it names. *)
LEMMA ReceiveTraced ==
    ASSUME TypeInv, UpTraced, NEW c \in Conn, NEW kind, Receive(c, kind),
           UNCHANGED produced
    PROVE  /\ UpTraced'
           /\ kind = "result" => Head(up[c]).res \in produced[Head(up[c]).id]
<1>1. /\ \A i \in 1..Len(Tail(up[c])) :
            i + 1 \in 1..Len(up[c]) /\ Tail(up[c])[i] = up[c][i+1]
      /\ 1 \in 1..Len(up[c]) /\ Head(up[c]) = up[c][1]
  BY TailAll DEF Receive, TypeInv, TypeOK, LinkType
<1>2. up' = [up EXCEPT ![c] = Tail(up[c])]
  BY DEF Receive
<1>3. UpTraced'
  BY <1>1, <1>2 DEF UpTraced, TypeInv, TypeOK, LinkType
<1>4. kind = "result" => Head(up[c]).res \in produced[Head(up[c]).id]
  BY <1>1 DEF UpTraced, Receive
<1> QED BY <1>3, <1>4

(* HandleResult and FlushQueue keep origin: a handler's result is
   read, claimed, recorded and handed on for one and the same task. *)
LEMMA HandlerProvenance ==
    ASSUME TypeInv, Provenance, NEW c \in Conn, HandlerStep(c) \/ Dial(c)
    PROVE  Provenance'
<1> USE TaskAssumption, ConnAssumption DEF Provenance
<1>1. CASE AddSession(c)
  <2> USE <1>1 DEF AddSession
  <2>1. /\ ResultsReal' /\ NresTraced' /\ RowTraced' /\ DownTraced'
        /\ ExecTraced' /\ FlushTraced'
    BY DEF ResultsReal, NresTraced, RowTraced, DownTraced, ExecTraced,
       FlushTraced, Real
  <2>2. pc'[c] = "read" /\ \A q \in Proc : q # c => pc'[q] = pc[q]
    BY GotoType DEF TypeInv, TypeOK
  <2>3. UpTraced'
    BY <2>2, CloseTraced DEF UpTraced, TypeInv, TypeOK, SessType
  <2>4. GotTraced'
    BY <2>2 DEF GotTraced
  <2>5. SendTraced'
    BY <2>2 DEF SendTraced
  <2> QED
    BY <2>1, <2>2, <2>3, <2>4, <2>5
<1>2. CASE ReadRegister(c)
  <2> USE <1>2 DEF ReadRegister
  <2>1. /\ ResultsReal' /\ NresTraced' /\ RowTraced' /\ DownTraced'
        /\ ExecTraced'
    BY DEF ResultsReal, NresTraced, RowTraced, DownTraced, ExecTraced, Real
  <2>2. pc'[c] = "flush" /\ \A q \in Proc : q # c => pc'[q] = pc[q]
    BY GotoType DEF TypeInv, TypeOK
  <2>3. UpTraced'
    BY <2>2, ReceiveTraced DEF UpTraced
  <2>4. GotTraced'
    BY <2>2 DEF GotTraced
  <2>5. SendTraced'
    BY <2>2 DEF SendTraced
  <2>6. FlushTraced'
    BY <2>2 DEF FlushTraced, TypeInv, TypeOK, StoreType, HandlerType
  <2> QED
    BY <2>1, <2>2, <2>3, <2>4, <2>5, <2>6
<1>3. CASE FlushDone(c)
  <2> USE <1>3 DEF FlushDone
  <2>1. /\ ResultsReal' /\ NresTraced' /\ UpTraced' /\ RowTraced'
        /\ DownTraced' /\ ExecTraced' /\ FlushTraced'
    BY DEF ResultsReal, NresTraced, UpTraced, RowTraced, DownTraced,
       ExecTraced, FlushTraced, Real
  <2>2. pc'[c] = "read" /\ \A q \in Proc : q # c => pc'[q] = pc[q]
    BY GotoType DEF TypeInv, TypeOK
  <2>3. GotTraced'
    BY <2>2 DEF GotTraced
  <2>4. SendTraced'
    BY <2>2 DEF SendTraced
  <2> QED
    BY <2>1, <2>2, <2>3, <2>4
<1>4. CASE \E t \in Task : FlushExpire(c, t)
  <2> PICK t \in Task : FlushExpire(c, t)
    BY <1>4
  <2> USE DEF FlushExpire, NextInFlush
  <2>1. /\ NresTraced' /\ UpTraced' /\ GotTraced' /\ DownTraced'
        /\ ExecTraced'
    BY DEF NresTraced, UpTraced, GotTraced, DownTraced, ExecTraced
  <2>2. ResultsReal'
    BY DEF ResultsReal, Real, Outcome, TS!Outcome, TypeInv, TypeOK, StoreType
  <2>3. RowTraced'
    BY DEF RowTraced, TypeInv, TypeOK, StoreType, HistType
  <2>4. SendTraced'
    BY DEF SendTraced, TypeInv, TypeOK, StoreType, LocalsOK
  <2>5. FlushTraced'
    BY DEF FlushTraced, TypeInv, TypeOK, StoreType, HandlerType
  <2> QED
    BY <2>1, <2>2, <2>3, <2>4, <2>5
<1>5. CASE \E t \in Task : FlushSend(c, t)
  <2> PICK t \in Task : FlushSend(c, t)
    BY <1>5
  <2> USE DEF FlushSend, NextInFlush
  <2>1. /\ ResultsReal' /\ NresTraced' /\ UpTraced' /\ RowTraced'
        /\ DownTraced' /\ ExecTraced'
    BY DEF ResultsReal, NresTraced, UpTraced, RowTraced, DownTraced,
       ExecTraced, Real
  <2>2. pc'[c] = "lookup" /\ \A q \in Proc : q # c => pc'[q] = pc[q]
    <3>1. PcType /\ Goto(c, "lookup") /\ c \in Proc
      BY DEF TypeInv, TypeOK
    <3>2. "lookup" \in CreatorPC /\ "lookup" \in HandlerPC
      OBVIOUS
    <3> HIDE DEF CreatorPC, HandlerPC, Proc
    <3> QED BY <3>1, <3>2, GotoType
  <2>3. cur'[c] = t /\ \A q \in Proc : q # c => cur'[q] = cur[q]
    BY DEF TypeInv, TypeOK, CurType
  <2>4. GotTraced'
    BY <2>2, <2>3 DEF GotTraced
  <2>5. SendTraced'
    BY <2>2, <2>3 DEF SendTraced, FlushTraced
  <2>6. FlushTraced'
    BY <2>2, <2>3 DEF FlushTraced, TypeInv, TypeOK, HandlerType
  <2> QED
    BY <2>1, <2>2, <2>3, <2>4, <2>5, <2>6
<1>6. CASE ReadResult(c)
  <2> USE <1>6 DEF ReadResult
  <2>1. /\ ResultsReal' /\ NresTraced' /\ RowTraced' /\ DownTraced'
        /\ ExecTraced' /\ FlushTraced'
    BY DEF ResultsReal, NresTraced, RowTraced, DownTraced, ExecTraced,
       FlushTraced, Real
  <2>2. UpTraced'
    BY ReceiveTraced
  <2>3. CASE Head(up[c]).id \in seen
    BY <2>1, <2>2, <2>3 DEF GotTraced, SendTraced
  <2>4. CASE Head(up[c]).id \notin seen
    <3>1. pc'[c] = "claim" /\ \A q \in Proc : q # c => pc'[q] = pc[q]
      BY <2>4, GotoType DEF TypeInv, TypeOK
    <3>2. /\ cur'[c] = Head(up[c]).id
          /\ \A q \in Proc : q # c => cur'[q] = cur[q]
      BY <2>4 DEF TypeInv, TypeOK, CurType
    <3>3. /\ got'[c] = Head(up[c]).res
          /\ \A d \in Conn : d # c => got'[d] = got[d]
      BY <2>4 DEF TypeInv, TypeOK, HandlerType
    <3>4. GotTraced'
      <4>1. got'[c] \in produced[cur'[c]] /\ produced' = produced
        BY <3>2, <3>3, ReceiveTraced
      <4>2. \A d \in Conn : d # c => pc'[d] = pc[d] /\ cur'[d] = cur[d] /\ got'[d] = got[d]
        BY <3>1, <3>2, <3>3
      <4> QED BY <4>1, <4>2, Zenon DEF GotTraced
    <3>5. SendTraced'
      BY <3>1, <3>2 DEF SendTraced
    <3> QED BY <2>1, <2>2, <3>4, <3>5
  <2> QED BY <2>3, <2>4
<1>7. CASE MarkSeen(c)
  <2> USE <1>7 DEF MarkSeen
  <2>1. /\ ResultsReal' /\ NresTraced' /\ UpTraced' /\ RowTraced'
        /\ DownTraced' /\ ExecTraced' /\ FlushTraced'
    BY DEF ResultsReal, NresTraced, UpTraced, RowTraced, DownTraced,
       ExecTraced, FlushTraced, Real
  <2>2. pc'[c] = "complete" /\ \A q \in Proc : q # c => pc'[q] = pc[q]
    BY GotoType DEF TypeInv, TypeOK
  <2>3. GotTraced'
    BY <2>2 DEF GotTraced
  <2>4. SendTraced'
    BY <2>2 DEF SendTraced
  <2> QED
    BY <2>1, <2>2, <2>3, <2>4
<1>8. CASE CompleteTask(c)
  <2> USE <1>8 DEF CompleteTask
  <2>1. /\ NresTraced' /\ UpTraced' /\ DownTraced' /\ ExecTraced'
    BY DEF NresTraced, UpTraced, DownTraced, ExecTraced
  <2>2. pc'[c] = "notify" /\ \A q \in Proc : q # c => pc'[q] = pc[q]
    BY GotoType DEF TypeInv, TypeOK
  <2>3. /\ cur[c] \in Task /\ got[c] \in produced[cur[c]]
        /\ StateOf(got[c]) \in Outcome
    BY StateOfType DEF TypeInv, LocalsOK, GotTraced
  <2>4. StateOf(got[c]) # "none"
    BY <2>3 DEF Outcome, TS!Outcome
  <2>5. ResultsReal'
    BY <2>2, <2>3, <2>4 DEF ResultsReal, Real, Outcome, TS!Outcome, TypeInv, TypeOK, StoreType
  <2>6. GotTraced'
    BY <2>2, <2>3, <2>4 DEF GotTraced
  <2>7. RowTraced'
    BY <2>2, <2>3, <2>4 DEF RowTraced, TypeInv, TypeOK, StoreType
  <2>8. SendTraced'
    BY <2>2, <2>3, <2>4 DEF SendTraced, TypeInv, TypeOK, StoreType, LocalsOK
  <2>9. FlushTraced'
    BY <2>2, <2>3, <2>4 DEF FlushTraced, TypeInv, TypeOK, StoreType, HandlerType
  <2> QED
    BY <2>1, <2>2, <2>3, <2>4, <2>5, <2>6, <2>7, <2>8, <2>9
<1>9. CASE NotifyWaiter(c)
  <2> USE <1>9 DEF NotifyWaiter
  <2>1. /\ NresTraced' /\ UpTraced' /\ RowTraced' /\ DownTraced'
        /\ ExecTraced' /\ FlushTraced'
    BY DEF NresTraced, UpTraced, RowTraced, DownTraced, ExecTraced,
       FlushTraced
  <2>2. /\ pc'[c] = "read"
        /\ \A q \in Proc : q # c => pc'[q] = pc[q] /\ cur'[q] = cur[q]
        /\ \A d \in Conn : d # c => got'[d] = got[d]
    BY EndResultType DEF TypeInv, TypeOK
  <2>3. ResultsReal'
    BY <2>2 DEF ResultsReal, Real, Outcome, TS!Outcome, TypeInv, TypeOK, WaiterType
  <2>4. GotTraced'
    BY <2>2 DEF GotTraced
  <2>5. SendTraced'
    BY <2>2 DEF SendTraced
  <2> QED
    BY <2>1, <2>2, <2>3, <2>4, <2>5
<1>10. CASE Leave(c)
  <2> USE <1>10 DEF Leave
  <2>1. /\ ResultsReal' /\ NresTraced' /\ RowTraced' /\ DownTraced'
        /\ ExecTraced' /\ FlushTraced'
    BY DEF ResultsReal, NresTraced, RowTraced, DownTraced, ExecTraced,
       FlushTraced, Real
  <2>2. pc'[c] = "idle" /\ \A q \in Proc : q # c => pc'[q] = pc[q]
    <3>1. PcType /\ Goto(c, "idle") /\ c \in Proc
      BY DEF TypeInv, TypeOK
    <3>2. "idle" \in CreatorPC /\ "idle" \in HandlerPC
      OBVIOUS
    <3> HIDE DEF CreatorPC, HandlerPC, Proc
    <3> QED BY <3>1, <3>2, GotoType
  <2>3. UpTraced'
    <3>1. up'[c] = <<>> /\ \A d \in Conn : d # c => up'[d] = up[d]
      BY DEF TypeInv, TypeOK, LinkType
    <3>2. Len(<<>>) = 0
      OBVIOUS
    <3>3. ASSUME NEW d \in Conn, NEW i \in 1..Len(up'[d]), up'[d][i].kind = "result"
          PROVE  up'[d][i].res \in produced'[up'[d][i].id]
      <4>1. d # c
        BY <3>1, <3>2, <3>3
      <4> QED BY <4>1, <3>1, <3>3 DEF UpTraced
    <3> QED BY <3>3 DEF UpTraced
  <2>4. GotTraced'
    BY <2>2 DEF GotTraced
  <2>5. SendTraced'
    BY <2>2 DEF SendTraced
  <2> QED
    BY <2>1, <2>2, <2>3, <2>4, <2>5
<1>11. CASE Dial(c)
  <2> USE <1>11 DEF Dial
  <2>1. /\ ResultsReal' /\ NresTraced' /\ RowTraced' /\ ExecTraced'
        /\ FlushTraced'
    BY DEF ResultsReal, NresTraced, RowTraced, ExecTraced, FlushTraced, Real
  <2>2. pc'[c] = "add" /\ \A q \in Proc : q # c => pc'[q] = pc[q]
    BY GotoType DEF TypeInv, TypeOK
  <2>3. /\ Len(<<RegisterFrame>>) = 1
        /\ <<RegisterFrame>>[1].kind = "register"
    BY DEF RegisterFrame
  <2>4. UpTraced'
    BY <2>2, <2>3 DEF UpTraced, TypeInv, TypeOK, LinkType
  <2>5. GotTraced'
    BY <2>2, <2>3 DEF GotTraced
  <2>6. SendTraced'
    BY <2>2, <2>3 DEF SendTraced
  <2>7. DownTraced'
    BY <2>2, <2>3 DEF DownTraced, TypeInv, TypeOK, LinkType
  <2> QED
    BY <2>1, <2>2, <2>3, <2>4, <2>5, <2>6, <2>7
<1> QED
  BY <1>1, <1>2, <1>3, <1>4, <1>5, <1>6, <1>7, <1>8, <1>9, <1>10, <1>11
  DEF HandlerStep

(* The instruction Serve takes was offered to a connection. *)
LEMMA TakeTraced ==
    ASSUME TypeInv, DownTraced, NEW t \in Task, TakeInstruction(t), UNCHANGED offered
    PROVE  DownTraced' /\ t \in offered
<1>1. /\ \A i \in 1..Len(Tail(down[nconn])) :
            i + 1 \in 1..Len(down[nconn]) /\ Tail(down[nconn])[i] = down[nconn][i+1]
      /\ 1 \in 1..Len(down[nconn]) /\ Head(down[nconn]) = down[nconn][1]
  BY TailAll DEF TakeInstruction, TypeInv, TypeOK, LinkType
<1>2. down' = [down EXCEPT ![nconn] = Tail(down[nconn])] /\ nconn \in Conn
  BY DEF TakeInstruction
<1>3. DownTraced'
  BY <1>1, <1>2 DEF DownTraced, TypeInv, TypeOK, LinkType
<1>4. t \in offered
  BY <1>1 DEF DownTraced, TakeInstruction
<1> QED BY <1>3, <1>4

(* A result the node reports was produced, now or earlier. *)
LEMMA ReportTraced ==
    ASSUME TypeInv, UpTraced, NEW c \in Conn, NEW t \in Task, NEW r \in Result,
           Report(c, ResultFrame(t, r)), r \in produced'[t],
           \A u \in Task : produced[u] \subseteq produced'[u]
    PROVE  UpTraced'
<1>1. \A d \in Conn : \A i \in 1..Len(up[d]) :
          up[d][i].kind = "result" => up[d][i].res \in produced'[up[d][i].id]
  <2>1. ASSUME NEW d \in Conn, NEW i \in 1..Len(up[d]), up[d][i].kind = "result"
        PROVE  up[d][i].res \in produced'[up[d][i].id]
    <3>1. up[d][i] \in Frame
      BY DEF TypeInv, TypeOK, LinkType
    <3>2. up[d][i].id \in Task
      BY <3>1, <2>1 DEF Frame, RegisterFrame, ResultFrame
    <3> QED BY <3>2, <2>1 DEF UpTraced
  <2> QED BY <2>1
<1>2. CASE up' = up
  BY <1>1, <1>2 DEF UpTraced
<1>3. CASE up' = [up EXCEPT ![c] = Append(up[c], ResultFrame(t, r))]
  <2>1. ResultFrame(t, r) \in Frame
    BY DEF Frame
  <2>2. \A i \in 1..Len(Append(up[c], ResultFrame(t, r))) :
           \/ i \in 1..Len(up[c]) /\ Append(up[c], ResultFrame(t, r))[i] = up[c][i]
           \/ Append(up[c], ResultFrame(t, r))[i] = ResultFrame(t, r)
    BY <2>1, AppendAll DEF TypeInv, TypeOK, LinkType
  <2>3. ResultFrame(t, r).res = r /\ ResultFrame(t, r).id = t
    BY DEF ResultFrame
  <2>4. up'[c] = Append(up[c], ResultFrame(t, r)) /\ \A d \in Conn : d # c => up'[d] = up[d]
    BY <1>3 DEF TypeInv, TypeOK, LinkType
  <2>5. ASSUME NEW d \in Conn, NEW i \in 1..Len(up'[d]), up'[d][i].kind = "result"
        PROVE  up'[d][i].res \in produced'[up'[d][i].id]
    <3>1. CASE d # c
      <4>1. up'[d] = up[d]
        BY <2>4, <3>1
      <4> QED BY <1>1, <4>1, <2>5
    <3>2. CASE d = c
      <4>1. CASE i \in 1..Len(up[c]) /\ up'[c][i] = up[c][i]
        BY <1>1, <2>5, <3>2, <4>1
      <4>2. CASE up'[c][i] = ResultFrame(t, r)
        BY <2>3, <3>2, <4>2
      <4> QED BY <2>2, <2>4, <3>2, <4>1, <4>2
    <3> QED BY <3>1, <3>2
  <2> QED BY <2>5 DEF UpTraced
<1> QED BY <1>2, <1>3 DEF Report

(* Executor.remember adds a result and forgets results, no more. *)
LEMMA RememberTraced ==
    ASSUME TypeInv, Provenance, NEW t \in Task, NEW r \in Result, t \in offered,
           Remember(t, r), UNCHANGED <<storeVars, procVars, waiter, offered>>
    PROVE  /\ r \in produced'[t]
           /\ \A u \in Task : produced[u] \subseteq produced'[u]
           /\ ResultsReal' /\ NresTraced' /\ GotTraced' /\ RowTraced'
<1> USE TaskAssumption, ConnAssumption DEF Provenance
<1>1. /\ produced'[t] = produced[t] \cup {r}
      /\ \A u \in Task : u # t => produced'[u] = produced[u]
  BY DEF Remember, TypeInv, TypeOK, HistType
<1>2. r \in produced'[t] /\ \A u \in Task : produced[u] \subseteq produced'[u]
  BY <1>1
<1>3. ResultsReal'
  BY <1>2 DEF ResultsReal, Real
<1>4. NresTraced'
  <2>1. \A u \in Task : nres'[u] \in {"none", nres[u]} \/ (u = t /\ nres'[u] = r)
    BY DEF Remember
  <2> QED BY <2>1, <1>2 DEF NresTraced
<1>5. GotTraced'
  BY <1>2 DEF GotTraced, TypeInv, LocalsOK
<1>6. RowTraced'
  BY <1>1 DEF RowTraced
<1> QED BY <1>2, <1>3, <1>4, <1>5, <1>6

(* Execute produces results of offered instructions only, and a replay
   repeats what was produced. *)
LEMMA NodeProvenance ==
    ASSUME TypeInv, Provenance, NodeStep
    PROVE  Provenance'
<1> USE TaskAssumption, ConnAssumption DEF Provenance
<1>1. ASSUME NEW t \in Task, NodeReplay(t)
      PROVE  Provenance'
  <2> USE <1>1 DEF NodeReplay
  <2>1. /\ ResultsReal' /\ NresTraced' /\ GotTraced' /\ RowTraced'
        /\ SendTraced' /\ ExecTraced' /\ FlushTraced'
    BY DEF ResultsReal, NresTraced, GotTraced, RowTraced, SendTraced,
       ExecTraced, FlushTraced, Real
  <2>2. DownTraced'
    BY TakeTraced
  <2>3. nconn \in Conn /\ nres[t] \in Result /\ nres[t] \in produced[t]
    BY DEF TakeInstruction, TypeInv, TypeOK, NodeType, NresTraced
  <2>4. UpTraced'
    BY <2>3, ReportTraced
  <2> QED BY <2>1, <2>2, <2>4
<1>2. ASSUME NEW t \in Task, NodeDiscard(t)
      PROVE  Provenance'
  <2> USE <1>2 DEF NodeDiscard
  <2>1. SendTraced' /\ ExecTraced' /\ FlushTraced'
    BY DEF SendTraced, ExecTraced, FlushTraced
  <2>2. DownTraced' /\ t \in offered
    BY TakeTraced
  <2>3. nconn \in Conn /\ "discarded" \in Result
    BY DEF TakeInstruction, Result, TS!Result
  <2>4. /\ "discarded" \in produced'[t]
        /\ \A u \in Task : produced[u] \subseteq produced'[u]
        /\ ResultsReal' /\ NresTraced' /\ GotTraced' /\ RowTraced'
    BY <2>2, <2>3, RememberTraced
  <2>5. UpTraced'
    BY <2>3, <2>4, ReportTraced
  <2> QED BY <2>1, <2>2, <2>4, <2>5
<1>3. ASSUME NEW t \in Task, NodeStart(t)
      PROVE  Provenance'
  <2> USE <1>3 DEF NodeStart
  <2>1. /\ ResultsReal' /\ NresTraced' /\ UpTraced' /\ GotTraced'
        /\ RowTraced' /\ SendTraced' /\ FlushTraced'
    BY DEF ResultsReal, NresTraced, UpTraced, GotTraced, RowTraced,
       SendTraced, FlushTraced, Real
  <2>2. DownTraced' /\ t \in offered
    BY TakeTraced
  <2>3. ExecTraced'
    BY <2>2 DEF ExecTraced
  <2> QED BY <2>1, <2>2, <2>3
<1>4. ASSUME NEW r \in Endings \ {"discarded"}, NodeFinish(r)
      PROVE  Provenance'
  <2> USE <1>4 DEF NodeFinish
  <2>1. SendTraced' /\ DownTraced' /\ FlushTraced' /\ ExecTraced'
    BY DEF SendTraced, DownTraced, FlushTraced, ExecTraced
  <2>2. nconn \in Conn /\ exec \in Task /\ exec \in offered /\ r \in Result
    BY DEF TypeInv, TypeOK, NodeType, LocalsOK, ExecTraced, Result, TS!Result
  <2>3. /\ r \in produced'[exec]
        /\ \A u \in Task : produced[u] \subseteq produced'[u]
        /\ ResultsReal' /\ NresTraced' /\ GotTraced' /\ RowTraced'
    BY <2>2, RememberTraced
  <2>4. UpTraced'
    BY <2>2, <2>3, ReportTraced
  <2> QED BY <2>1, <2>3, <2>4
<1> QED BY <1>1, <1>2, <1>3, <1>4 DEF NodeStep

(* A queue that is dropped holds nothing unoffered. *)
LEMMA EmptyTraced ==
    ASSUME DownTraced, NEW c \in Conn, TypeInv, UNCHANGED offered,
           down' = [down EXCEPT ![c] = <<>>]
    PROVE  DownTraced'
<1>1. down'[c] = <<>> /\ \A d \in Conn : d # c => down'[d] = down[d]
  BY DEF TypeInv, TypeOK, LinkType
<1>2. Len(<<>>) = 0
  OBVIOUS
<1>3. ASSUME NEW d \in Conn, NEW i \in 1..Len(down'[d])
      PROVE  down'[d][i] \in offered'
  <2>1. d # c
    BY <1>1, <1>2
  <2> QED BY <2>1, <1>1 DEF DownTraced
<1> QED BY <1>3 DEF DownTraced

(* No failure invents a result or an instruction. *)
LEMMA FailureProvenance ==
    ASSUME TypeInv, Provenance, Failure
    PROVE  Provenance'
<1> USE TaskAssumption, ConnAssumption DEF Provenance
<1>1. ASSUME NEW p \in Proc, StoreFails(p)
      PROVE  Provenance'
  <2> USE <1>1 DEF StoreFails
  <2>1. /\ ResultsReal' /\ NresTraced' /\ UpTraced' /\ RowTraced'
        /\ DownTraced' /\ ExecTraced' /\ FlushTraced'
    BY DEF ResultsReal, NresTraced, UpTraced, RowTraced, DownTraced,
       ExecTraced, FlushTraced, Real
  <2>2. CASE pc[p] = "mark"
    <3>1. /\ pc'[p] \in {"done", "flush"}
          /\ \A q \in Proc : q # p => pc'[q] = pc[q] /\ cur'[q] = cur[q]
          /\ got' = got
      BY <2>2, ReturnType DEF TypeInv, TypeOK
    <3>2. GotTraced'
      BY <3>1 DEF GotTraced
    <3>3. SendTraced'
      BY <3>1 DEF SendTraced
    <3> QED BY <2>1, <3>2, <3>3
  <2>3. CASE pc[p] # "mark"
    <3>1. EndResult(p) /\ p \in Conn
      BY <2>3 DEF TypeInv, TypeOK, PcType
    <3>2. /\ pc'[p] = "read"
          /\ \A q \in Proc : q # p => pc'[q] = pc[q] /\ cur'[q] = cur[q]
          /\ \A d \in Conn : d # p => got'[d] = got[d]
      BY <2>3, <3>1, EndResultType DEF TypeInv, TypeOK
    <3>3. GotTraced'
      BY <3>2 DEF GotTraced
    <3>4. SendTraced'
      BY <3>2 DEF SendTraced
    <3> QED BY <2>1, <3>3, <3>4
  <2> QED BY <2>2, <2>3
<1>2. ASSUME NEW c \in Conn, RegisterFails(c)
      PROVE  Provenance'
  <2> USE <1>2 DEF RegisterFails
  <2>1. /\ ResultsReal' /\ NresTraced' /\ GotTraced' /\ RowTraced'
        /\ SendTraced' /\ DownTraced' /\ ExecTraced' /\ FlushTraced'
    BY DEF ResultsReal, NresTraced, GotTraced, RowTraced, SendTraced,
       DownTraced, ExecTraced, FlushTraced, Real
  <2>2. UpTraced'
    BY ReceiveTraced
  <2> QED BY <2>1, <2>2
<1>3. ASSUME NEW c \in Conn, Break(c)
      PROVE  Provenance'
  <2> USE <1>3 DEF Break
  <2>1. /\ ResultsReal' /\ NresTraced' /\ GotTraced' /\ RowTraced'
        /\ SendTraced' /\ DownTraced' /\ ExecTraced' /\ FlushTraced'
    BY DEF ResultsReal, NresTraced, GotTraced, RowTraced, SendTraced,
       DownTraced, ExecTraced, FlushTraced, Real
  <2>2. UpTraced'
    BY CloseTraced
  <2> QED BY <2>1, <2>2
<1>4. CASE Reap
  <2> USE <1>4 DEF Reap
  <2>1. /\ ResultsReal' /\ NresTraced' /\ GotTraced' /\ RowTraced'
        /\ SendTraced' /\ DownTraced' /\ ExecTraced' /\ FlushTraced'
    BY DEF ResultsReal, NresTraced, GotTraced, RowTraced, SendTraced,
       DownTraced, ExecTraced, FlushTraced, Real
  <2>2. UpTraced'
    BY CloseTraced DEF TypeInv, TypeOK, SessType
  <2> QED BY <2>1, <2>2
<1>5. CASE NodeDrop
  <2> USE <1>5 DEF NodeDrop
  <2>1. /\ ResultsReal' /\ NresTraced' /\ GotTraced' /\ RowTraced'
        /\ SendTraced' /\ ExecTraced' /\ FlushTraced'
    BY DEF ResultsReal, NresTraced, GotTraced, RowTraced, SendTraced,
       ExecTraced, FlushTraced, Real
  <2>2. UpTraced'
    BY ArriveTraced DEF LoseUnsent
  <2>3. DownTraced'
    BY EmptyTraced
  <2> QED BY <2>1, <2>2, <2>3
<1>6. CASE NodeCrash
  <2> USE <1>6 DEF NodeCrash
  <2>1. /\ ResultsReal' /\ NresTraced' /\ GotTraced' /\ RowTraced'
        /\ SendTraced' /\ ExecTraced' /\ FlushTraced'
    BY DEF ResultsReal, NresTraced, GotTraced, RowTraced, SendTraced,
       ExecTraced, FlushTraced, Real
  <2>2. CASE nconn \in Conn
    <3>1. UpTraced'
      BY <2>2, ArriveTraced DEF LoseUnsent
    <3>2. DownTraced'
      BY <2>2, EmptyTraced
    <3> QED BY <2>1, <3>1, <3>2
  <2>3. CASE nconn \notin Conn
    BY <2>1, <2>3 DEF UpTraced, DownTraced
  <2> QED BY <2>2, <2>3
<1>7. CASE ManagerCrash
  <2> USE <1>7 DEF ManagerCrash
  <2>1. /\ NresTraced' /\ RowTraced' /\ DownTraced' /\ ExecTraced'
    BY DEF NresTraced, RowTraced, DownTraced, ExecTraced
  <2>2. \A p \in Proc : pc'[p] \in {"done", "idle"}
    OBVIOUS
  <2>3. SendTraced' /\ GotTraced' /\ FlushTraced'
    BY <2>2 DEF SendTraced, GotTraced, FlushTraced
  <2>4. ResultsReal'
    BY DEF ResultsReal, Real, Outcome, TS!Outcome
  <2>5. UpTraced'
    <3>1. \A c \in Conn : Len(up'[c]) = 0
      OBVIOUS
    <3> QED BY <3>1 DEF UpTraced
  <2> QED BY <2>1, <2>3, <2>4, <2>5
<1> QED BY <1>1, <1>2, <1>3, <1>4, <1>5, <1>6, <1>7 DEF Failure

(* Nothing changes, nothing loses its origin. *)
LEMMA StutterProvenance ==
    ASSUME Provenance, UNCHANGED vars
    PROVE  Provenance'
  BY DEF vars, Provenance, ResultsReal, Real, NresTraced, UpTraced, GotTraced,
     RowTraced, SendTraced, DownTraced, ExecTraced, FlushTraced

(* The induction step, one case per disjunct of Next. *)
LEMMA ProvenanceStep ==
    ASSUME TypeInv, Provenance, [Next]_vars
    PROVE  Provenance'
<1>1. ASSUME NEW t \in Task, CreatorStep(t) \/ DeadlinePasses(t)
      PROVE  Provenance'
  BY <1>1, CreatorProvenance
<1>2. ASSUME NEW p \in Proc, SendStep(p)
      PROVE  Provenance'
  BY <1>2, SendProvenance
<1>3. ASSUME NEW c \in Conn, Dial(c) \/ HandlerStep(c)
      PROVE  Provenance'
  BY <1>3, HandlerProvenance
<1>4. ASSUME NEW c \in Conn, IdleHeartbeat(c)
      PROVE  Provenance'
  BY <1>4, StutterProvenance DEF IdleHeartbeat
<1>5. CASE NodeStep
  BY <1>5, NodeProvenance
<1>6. CASE Failure
  BY <1>6, FailureProvenance
<1>7. CASE UNCHANGED vars
  BY <1>7, StutterProvenance
<1> QED
  BY <1>1, <1>2, <1>3, <1>4, <1>5, <1>6, <1>7 DEF Next

(* Every result, instruction and late task in flight has its origin: the   *)
(* inductive part of what HandleResult, FlushQueue and the executor do.    *)
THEOREM ProvenanceInvariant == Spec => []Provenance
<1>1. Init => Provenance
  BY ProvenanceInit
<1>2. TypeInv /\ Provenance /\ [Next]_vars => Provenance'
  BY ProvenanceStep
<1> QED BY <1>1, <1>2, TypeInvariant, PTL DEF Spec

(* HandleResult records, and notifyWaiter hands on, only outcomes that a   *)
(* node process produced for that very task.                               *)
THEOREM ResultsAreReal == Spec => []ResultsReal
<1>1. Provenance => ResultsReal
  BY DEF Provenance
<1> QED BY <1>1, ProvenanceInvariant, PTL

(* The steps of the dispatch path as steps of the task service. *)
LEMMA CreateMaps ==
    ASSUME NEW t \in Task, CreatorStep(t) \/ DeadlinePasses(t)
    PROVE  [TS!TNext]_TS!tvars
<1>1. Submit(t) => TS!Create(t)
  BY DEF Submit, TS!Create
<1>2. CancelWait(t) => UNCHANGED TS!tvars
  BY DEF CancelWait, TS!tvars
<1>3. PushCancelled(t) => UNCHANGED TS!tvars
  BY DEF PushCancelled, TS!tvars
<1>4. DeadlinePasses(t) => TS!DeadlinePassesOn(t)
  BY DEF DeadlinePasses, TS!DeadlinePassesOn
<1> QED BY <1>1, <1>2, <1>3, <1>4 DEF CreatorStep, TS!TNext

(* The dispatcher's send offers and marks. *)
LEMMA SendMaps ==
    ASSUME TypeInv, Provenance, NEW p \in Proc, SendStep(p)
    PROVE  [TS!TNext]_TS!tvars
<1>1. LookupConn(p) \/ PushFails(p) => UNCHANGED TS!tvars
  BY DEF LookupConn, PushFails, TS!tvars
<1>2. ASSUME Push(p)
      PROVE  cur[p] \in Task /\ TS!Offer(cur[p])
  BY <1>2 DEF Push, TS!Offer, Provenance, SendTraced, TypeInv, LocalsOK
<1>3. ASSUME MarkSent(p)
      PROVE  cur[p] \in Task /\ TS!Mark(cur[p])
  BY <1>3 DEF MarkSent, TS!Mark, Provenance, SendTraced, TypeInv, LocalsOK
<1> QED BY <1>1, <1>2, <1>3 DEF SendStep, TS!TNext

(* The handler expires and records; reading and claiming are internal. *)
LEMMA HandlerMaps ==
    ASSUME TypeInv, Provenance, NEW c \in Conn, HandlerStep(c) \/ Dial(c)
    PROVE  [TS!TNext]_TS!tvars
<1>1. AddSession(c) \/ ReadRegister(c) \/ FlushDone(c) => UNCHANGED TS!tvars
  BY DEF AddSession, ReadRegister, FlushDone, TS!tvars
<1>2. ReadResult(c) \/ MarkSeen(c) \/ NotifyWaiter(c) => UNCHANGED TS!tvars
  BY DEF ReadResult, MarkSeen, NotifyWaiter, TS!tvars
<1>3. Leave(c) \/ Dial(c) => UNCHANGED TS!tvars
  BY DEF Leave, Dial, TS!tvars
<1>4. ASSUME NEW t \in Task, FlushSend(c, t)
      PROVE  UNCHANGED TS!tvars
  BY <1>4 DEF FlushSend, NextInFlush, TS!tvars
<1>5. ASSUME NEW t \in Task, FlushExpire(c, t)
      PROVE  TS!Expire(t) \/ UNCHANGED TS!tvars
  <2>1. task[t] # "none" /\ t \in late
    BY <1>5 DEF FlushExpire, NextInFlush, Provenance, FlushTraced
  <2> QED BY <1>5, <2>1 DEF FlushExpire, NextInFlush, TS!Expire, TS!tvars
<1>6. ASSUME CompleteTask(c)
      PROVE  /\ cur[c] \in Task /\ got[c] \in Result
             /\ TS!Record(cur[c], got[c])
  <2>1. cur[c] \in Task /\ got[c] \in Result /\ got[c] \in produced[cur[c]]
    BY <1>6 DEF CompleteTask, Provenance, GotTraced, TypeInv, LocalsOK
  <2> QED BY <1>6, <2>1 DEF CompleteTask, TS!Record, StateOf
<1> QED BY <1>1, <1>2, <1>3, <1>4, <1>5, <1>6 DEF HandlerStep, TS!TNext, Result

(* The node produces; a replay and a start are internal. *)
LEMMA NodeMaps ==
    ASSUME TypeInv, Provenance, NodeStep
    PROVE  [TS!TNext]_TS!tvars
<1>1. ASSUME NEW t \in Task, NodeReplay(t) \/ NodeStart(t)
      PROVE  UNCHANGED TS!tvars
  BY <1>1 DEF NodeReplay, NodeStart, TS!tvars
<1>2. ASSUME NEW t \in Task, NodeDiscard(t)
      PROVE  TS!Produce(t, "discarded") /\ "discarded" \in Result
  <2>1. t \in offered
    BY <1>2, TakeTraced DEF NodeDiscard, Provenance
  <2> QED BY <1>2, <2>1 DEF NodeDiscard, Remember, TS!Produce, Result, TS!Result
<1>3. ASSUME NEW r \in Endings \ {"discarded"}, NodeFinish(r)
      PROVE  exec \in Task /\ r \in Result /\ TS!Produce(exec, r)
  <2>1. exec \in Task /\ exec \in offered
    BY <1>3 DEF NodeFinish, TypeInv, TypeOK, NodeType, Provenance, ExecTraced
  <2> QED BY <1>3, <2>1, TaskAssumption
          DEF NodeFinish, Remember, TS!Produce, Result, TS!Result
<1> QED BY <1>1, <1>2, <1>3 DEF NodeStep, TS!TNext, Result

(* Failures are not visible to the task service. *)
LEMMA FailureMaps ==
    ASSUME Failure
    PROVE  UNCHANGED TS!tvars
<1>1. ASSUME NEW p \in Proc, StoreFails(p)
      PROVE  UNCHANGED TS!tvars
  BY <1>1 DEF StoreFails, TS!tvars
<1>2. ASSUME NEW c \in Conn, RegisterFails(c) \/ Break(c)
      PROVE  UNCHANGED TS!tvars
  BY <1>2 DEF RegisterFails, Break, TS!tvars
<1>3. Reap \/ NodeDrop \/ NodeCrash \/ ManagerCrash => UNCHANGED TS!tvars
  BY DEF Reap, NodeDrop, NodeCrash, ManagerCrash, TS!tvars
<1> QED BY <1>1, <1>2, <1>3 DEF Failure

(* The dispatch path, with all its connections, handlers, windows, retries *)
(* and crashes, implements the abstract task service: a task is marked     *)
(* sent only if offered, expired only if late, and completed only with a   *)
(* result the node produced.                                               *)
THEOREM ImplementsTaskService == Spec => TaskServiceSpec
<1>1. Init => TS!TInit
  BY DEF Init, TS!TInit
<1>2. TypeInv /\ Provenance /\ [Next]_vars => [TS!TNext]_TS!tvars
  <2> SUFFICES ASSUME TypeInv, Provenance, [Next]_vars
               PROVE  [TS!TNext]_TS!tvars
    OBVIOUS
  <2>1. ASSUME NEW c \in Conn, IdleHeartbeat(c)
        PROVE  UNCHANGED TS!tvars
    BY <2>1 DEF IdleHeartbeat, vars, TS!tvars
  <2>2. UNCHANGED vars => UNCHANGED TS!tvars
    BY DEF vars, TS!tvars
  <2> QED BY <2>1, <2>2, CreateMaps, SendMaps, HandlerMaps, NodeMaps, FailureMaps DEF Next
<1> QED
  BY <1>1, <1>2, TypeInvariant, ProvenanceInvariant, PTL DEF Spec, TaskServiceSpec, TS!TSpec

=============================================================================
