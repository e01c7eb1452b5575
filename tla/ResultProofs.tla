---------------------------- MODULE ResultProofs ----------------------------
(***************************************************************************)
(* What becomes of one instruction: the node process runs it at most once, *)
(* remembers one result for it and repeats that one, so that the outcomes  *)
(* recorded for a task agree however often it is sent, and an MCP caller   *)
(* that waits for it is told; and what must happen for a sent task to be   *)
(* left without an answer.  For every number of tasks and connections.     *)
(***************************************************************************)
EXTENDS DispatchSafety, FiniteSetTheorems

USE DEF TS!Result, TS!Outcome, TS!TaskState, TS!Terminal
USE DEF storeVars, sessVars, procVars, dedupVars, linkVars, nodeVars, histVars
USE DEF Proc, CreatorPC, HandlerPC, SendPC, RecordPC, Result, TaskState, Outcome

-----------------------------------------------------------------------------
(* The window of ids, as a set kept in the order of arrival.               *)
Ids(order) == {order[i] : i \in 1..Len(order)}
Distinct(order) == \A i, j \in 1..Len(order) : order[i] = order[j] => i = j

(* As many numbers as it says. *)
LEMMA IntervalCard ==
    ASSUME NEW n \in Nat
    PROVE  IsFiniteSet(1..n) /\ Cardinality(1..n) = n
<1>1. 1 \in Int /\ n \in Int
  OBVIOUS
<1>2. IsFiniteSet(1..n) /\ Cardinality(1..n) = IF 1 > n THEN 0 ELSE n - 1 + 1
  BY <1>1, FS_Interval, Zenon
<1> QED BY <1>2

(* One more id, not there yet. *)
LEMMA AppendIds ==
    ASSUME NEW S, NEW order \in Seq(S), NEW id \in S
    PROVE  /\ Ids(Append(order, id)) = Ids(order) \cup {id}
           /\ Distinct(order) /\ id \notin Ids(order) => Distinct(Append(order, id))
<1> DEFINE longer == Append(order, id)
<1>1. /\ Len(longer) = Len(order) + 1 /\ Len(order) \in Nat
      /\ \A i \in 1..Len(order) : longer[i] = order[i]
      /\ longer[Len(order) + 1] = id
  BY AppendProperties, LenProperties
<1> HIDE DEF longer
<1>2. \A x : x \in Ids(longer) <=> x \in Ids(order) \cup {id}
  BY <1>1 DEF Ids
<1>3. Distinct(order) /\ id \notin Ids(order) => Distinct(longer)
  BY <1>1 DEF Ids, Distinct
<1> QED BY <1>2, <1>3 DEF longer

(* The oldest id less. *)
LEMMA TailIds ==
    ASSUME NEW S, NEW order \in Seq(S), order # <<>>, Distinct(order)
    PROVE  Distinct(Tail(order)) /\ Ids(Tail(order)) = Ids(order) \ {Head(order)}
<1>1. /\ Len(Tail(order)) = Len(order) - 1 /\ Len(order) \in Nat \ {0}
      /\ \A i \in 1..Len(Tail(order)) : Tail(order)[i] = order[i + 1]
      /\ Head(order) = order[1]
  BY HeadTailProperties, LenProperties, EmptySeq
<1>2. Distinct(Tail(order))
  BY <1>1 DEF Distinct
<1>3. ASSUME NEW x \in Ids(order), x # Head(order)
      PROVE  x \in Ids(Tail(order))
  <2>1. PICK i \in 1..Len(order) : x = order[i]
    BY DEF Ids
  <2>2. i - 1 \in 1..Len(Tail(order)) /\ Tail(order)[i - 1] = order[i]
    BY <1>1, <1>3, <2>1
  <2> QED BY <2>1, <2>2 DEF Ids
<1>4. ASSUME NEW x \in Ids(Tail(order))
      PROVE  x \in Ids(order) /\ x # Head(order)
  <2>1. PICK i \in 1..Len(Tail(order)) : x = Tail(order)[i]
    BY <1>4 DEF Ids
  <2>2. i + 1 \in 1..Len(order) /\ i + 1 # 1 /\ x = order[i + 1]
    BY <1>1, <2>1
  <2> QED BY <1>1, <2>2 DEF Ids, Distinct
<1> QED BY <1>2, <1>3, <1>4

(* Entering a new id keeps a window exact: it has the ids it had and the   *)
(* new one, but those it forgets, and the new one is not among them.       *)
LEMMA PushedIds ==
    ASSUME NEW S, NEW order \in Seq(S), NEW id \in S, NEW w \in Nat \ {0},
           Distinct(order), id \notin Ids(order)
    PROVE  /\ Distinct(Pushed(order, id, w))
           /\ Ids(Pushed(order, id, w)) = (Ids(order) \cup {id}) \ Evicted(order, id, w)
           /\ id \notin Evicted(order, id, w)
<1> DEFINE longer == Append(order, id)
<1>1. /\ longer \in Seq(S) /\ longer # <<>> /\ Len(longer) = Len(order) + 1
      /\ Ids(longer) = Ids(order) \cup {id} /\ Distinct(longer)
      /\ Len(order) \in Nat
      /\ longer[Len(order) + 1] = id
  BY AppendIds, AppendProperties, LenProperties
<1>2. Distinct(Tail(longer)) /\ Ids(Tail(longer)) = Ids(longer) \ {Head(longer)}
  BY <1>1, TailIds
<1>3. CASE Len(order) + 1 > w
  <2>1. Head(longer) = longer[1] /\ Len(order) + 1 # 1
    BY <1>1, <1>3, HeadTailProperties
  <2>2. Head(longer) # id
    BY <1>1, <2>1 DEF Distinct
  <2> QED BY <1>1, <1>2, <1>3, <2>2 DEF Pushed, Evicted
<1>4. CASE ~(Len(order) + 1 > w)
  BY <1>1, <1>4 DEF Pushed, Evicted
<1> QED BY <1>3, <1>4

(* A window of distinct ids is no longer than there are ids, ...           *)
LEMMA DistinctBound ==
    ASSUME NEW S, IsFiniteSet(S), NEW order \in Seq(S), Distinct(order)
    PROVE  Len(order) <= Cardinality(S)
<1>1. Len(order) \in Nat /\ order \in [1..Len(order) -> S]
  BY LenProperties
<1>2. order \in Injection(1..Len(order), S)
  BY <1>1 DEF Distinct, Injection, IsInjective
<1>3. Cardinality(1..Len(order)) <= Cardinality(S)
  BY <1>2, FS_Injection
<1>4. Cardinality(1..Len(order)) = Len(order)
  BY <1>1, IntervalCard, Zenon
<1> QED BY <1>3, <1>4

(* ... so one with a place for each of them forgets none.                  *)
LEMMA NothingEvicted ==
    ASSUME NEW S, IsFiniteSet(S), NEW order \in Seq(S), Distinct(order),
           NEW id \in S, id \notin Ids(order), NEW w \in Nat, Cardinality(S) <= w
    PROVE  Evicted(order, id, w) = {}
<1>1. Append(order, id) \in Seq(S) /\ Len(Append(order, id)) = Len(order) + 1
  BY AppendProperties
<1>2. Distinct(Append(order, id))
  BY AppendIds
<1>3. Len(order) + 1 <= Cardinality(S)
  BY <1>1, <1>2, DistinctBound
<1>4. Cardinality(S) \in Nat /\ Len(order) \in Nat
  BY FS_CardinalityType, LenProperties
<1> QED BY <1>3, <1>4 DEF Evicted

-----------------------------------------------------------------------------
(* Executor.seen and seenOrder name the same ids, each once, and the       *)
(* instruction being executed is not one of them.                          *)
WindowExact ==
    /\ Distinct(nresOrder)
    /\ \A t \in Task : nres[t] # "none" <=> t \in Ids(nresOrder)
    /\ exec # NoTask => nres[exec] = "none"

(* Only the node's loop and the death of its process touch what the        *)
(* executor remembers.                                                     *)
LEMMA OnlyTheNode ==
    ASSUME [Next]_vars, ~NodeStep, ~NodeCrash
    PROVE  UNCHANGED <<exec, nres, nresOrder, ran, produced>>
<1>1. ASSUME NEW t \in Task, CreatorStep(t) \/ DeadlinePasses(t)
      PROVE  UNCHANGED <<exec, nres, nresOrder, ran, produced>>
  BY <1>1 DEF CreatorStep, Submit, CancelWait, PushCancelled, DeadlinePasses
<1>2. ASSUME NEW p \in Proc, SendStep(p)
      PROVE  UNCHANGED <<exec, nres, nresOrder, ran, produced>>
  BY <1>2 DEF SendStep, LookupConn, Push, PushFails, MarkSent
<1>3. ASSUME NEW c \in Conn, Dial(c) \/ IdleHeartbeat(c)
      PROVE  UNCHANGED <<exec, nres, nresOrder, ran, produced>>
  BY <1>3 DEF Dial, IdleHeartbeat, vars
<1>4. ASSUME NEW c \in Conn, HandlerStep(c)
      PROVE  UNCHANGED <<exec, nres, nresOrder, ran, produced>>
  BY <1>4 DEF HandlerStep, AddSession, ReadRegister, FlushDone, FlushExpire, FlushSend,
     ReadResult, MarkSeen, CompleteTask, NotifyWaiter, Leave
<1>5. CASE Failure
  BY <1>5 DEF Failure, StoreFails, RegisterFails, Break, Reap, NodeDrop, ManagerCrash
<1>6. CASE UNCHANGED vars
  BY <1>6 DEF vars
<1> QED BY <1>1, <1>2, <1>3, <1>4, <1>5, <1>6 DEF Next

(* Remembering a result for a new id. *)
LEMMA RememberExact ==
    ASSUME NodeType, WindowExact, NEW t \in Task, nres[t] = "none",
           NEW r \in Result, Remember(t, r)
    PROVE  /\ Distinct(nresOrder')
           /\ \A u \in Task : nres'[u] # "none" <=> u \in Ids(nresOrder')
           /\ nres'[t] = r
           /\ \A u \in Task \ {t} : nres'[u] # "none" => nres'[u] = nres[u]
<1>1. /\ Distinct(nresOrder')
      /\ Ids(nresOrder') = (Ids(nresOrder) \cup {t}) \ Evicted(nresOrder, t, NodeWindow)
      /\ t \notin Evicted(nresOrder, t, NodeWindow)
  BY PushedIds, BoundAssumption DEF Remember, NodeType, WindowExact
<1>2. nres'[t] = r
  BY <1>1 DEF Remember
<1>3. ASSUME NEW u \in Task \ {t}
      PROVE  nres'[u] = IF u \in Evicted(nresOrder, t, NodeWindow) THEN "none" ELSE nres[u]
  BY <1>3 DEF Remember
<1>4. r # "none"
  OBVIOUS
<1> QED BY <1>1, <1>2, <1>3, <1>4 DEF WindowExact

(* The node's loop remembers only what it does not remember yet. *)
LEMMA WindowNode ==
    ASSUME TypeInv, WindowExact, NodeStep
    PROVE  WindowExact'
<1> USE TaskAssumption DEF TypeInv, TypeOK
<1>1. ASSUME NEW t \in Task, NodeReplay(t)
      PROVE  WindowExact'
  BY <1>1 DEF NodeReplay, WindowExact
<1>2. ASSUME NEW t \in Task, NodeDiscard(t)
      PROVE  WindowExact'
  BY <1>2, RememberExact DEF NodeDiscard, TakeInstruction, WindowExact
<1>3. ASSUME NEW t \in Task, NodeStart(t)
      PROVE  WindowExact'
  BY <1>3 DEF NodeStart, WindowExact
<1>4. ASSUME NEW r \in Endings \ {"discarded"}, NodeFinish(r)
      PROVE  WindowExact'
  BY <1>4, RememberExact DEF NodeFinish, WindowExact, NodeType
<1> QED BY <1>1, <1>2, <1>3, <1>4 DEF NodeStep

(* The executor's map holds exactly the ids its order list holds, for      *)
(* every window size: it forgets what it drops, and nothing else.          *)
THEOREM WindowIsExact == Spec => []WindowExact
<1>1. Init => WindowExact
  <2>1. Ids(<<>>) = {} /\ Distinct(<<>>)
    BY DEF Ids, Distinct
  <2> QED BY <2>1 DEF Init, WindowExact
<1>2. TypeInv /\ WindowExact /\ [Next]_vars => WindowExact'
  <2> SUFFICES ASSUME TypeInv, WindowExact, [Next]_vars PROVE WindowExact'
    OBVIOUS
  <2>1. CASE NodeStep
    BY <2>1, WindowNode
  <2>2. CASE NodeCrash
    <3>1. Ids(<<>>) = {} /\ Distinct(<<>>)
      BY DEF Ids, Distinct
    <3> QED BY <2>2, <3>1 DEF NodeCrash, WindowExact
  <2>3. CASE ~NodeStep /\ ~NodeCrash
    BY <2>3, OnlyTheNode DEF WindowExact
  <2> QED BY <2>1, <2>2, <2>3
<1> QED BY <1>1, <1>2, TypeInvariant, PTL DEF Spec

-----------------------------------------------------------------------------
(* The manager's window, which may hold an id twice: two handlers can both *)
(* find it missing before either marks it (seenRecently, then markSeen).   *)
SeenKnown == seen \subseteq Ids(seenOrder)

(* Whatever its order list holds, marking an id forgets what it drops. *)
LEMMA PushedCovers ==
    ASSUME NEW S, NEW order \in Seq(S), NEW id \in S, NEW w \in Nat
    PROVE  (Ids(order) \cup {id}) \ Evicted(order, id, w) \subseteq Ids(Pushed(order, id, w))
<1> DEFINE longer == Append(order, id)
<1>1. /\ longer \in Seq(S) /\ longer # <<>> /\ Len(longer) = Len(order) + 1
      /\ Ids(longer) = Ids(order) \cup {id} /\ Len(order) \in Nat
  BY AppendIds, AppendProperties, LenProperties
<1>2. ASSUME NEW x \in Ids(longer), x # Head(longer)
      PROVE  x \in Ids(Tail(longer))
  <2>1. PICK i \in 1..Len(longer) : x = longer[i]
    BY <1>2 DEF Ids
  <2>2. /\ Len(Tail(longer)) = Len(longer) - 1 /\ Head(longer) = longer[1]
        /\ \A j \in 1..Len(Tail(longer)) : Tail(longer)[j] = longer[j + 1]
    BY <1>1, HeadTailProperties, LenProperties, EmptySeq
  <2>3. i - 1 \in 1..Len(Tail(longer)) /\ Tail(longer)[i - 1] = longer[i]
    BY <1>1, <1>2, <2>1, <2>2
  <2> QED BY <2>1, <2>3 DEF Ids
<1>3. CASE Len(order) + 1 > w
  BY <1>1, <1>2, <1>3 DEF Pushed, Evicted
<1>4. CASE ~(Len(order) + 1 > w)
  BY <1>1, <1>4 DEF Pushed, Evicted
<1> QED BY <1>3, <1>4

(* Only markSeen and the death of the manager touch the manager's window. *)
LEMMA OnlyMarked ==
    ASSUME [Next]_vars, ~ManagerCrash, \A c \in Conn : ~MarkSeen(c)
    PROVE  UNCHANGED <<seen, seenOrder>>
<1>1. ASSUME NEW t \in Task, CreatorStep(t) \/ DeadlinePasses(t)
      PROVE  UNCHANGED <<seen, seenOrder>>
  BY <1>1 DEF CreatorStep, Submit, CancelWait, PushCancelled, DeadlinePasses
<1>2. ASSUME NEW p \in Proc, SendStep(p)
      PROVE  UNCHANGED <<seen, seenOrder>>
  BY <1>2 DEF SendStep, LookupConn, Push, PushFails, MarkSent
<1>3. ASSUME NEW c \in Conn, Dial(c) \/ IdleHeartbeat(c)
      PROVE  UNCHANGED <<seen, seenOrder>>
  BY <1>3 DEF Dial, IdleHeartbeat, vars
<1>4. ASSUME NEW c \in Conn, HandlerStep(c)
      PROVE  UNCHANGED <<seen, seenOrder>>
  BY <1>4 DEF HandlerStep, AddSession, ReadRegister, FlushDone, FlushExpire, FlushSend,
     ReadResult, CompleteTask, NotifyWaiter, Leave
<1>5. CASE Failure
  BY <1>5 DEF Failure, StoreFails, RegisterFails, Break, Reap, NodeDrop, NodeCrash
<1>6. CASE NodeStep
  BY <1>6 DEF NodeStep, NodeReplay, NodeDiscard, NodeStart, NodeFinish, TakeInstruction, Remember
<1>7. CASE UNCHANGED vars
  BY <1>7 DEF vars
<1> QED BY <1>1, <1>2, <1>3, <1>4, <1>5, <1>6, <1>7 DEF Next

(* There are no more ids in an order list than it is long. *)
LEMMA IdsBound ==
    ASSUME NEW S, NEW order \in Seq(S), NEW part, part \subseteq Ids(order)
    PROVE  IsFiniteSet(part) /\ Cardinality(part) <= Len(order)
<1>1. Len(order) \in Nat /\ order \in [1..Len(order) -> S]
  BY LenProperties
<1>2. order \in Surjection(1..Len(order), Ids(order))
  BY <1>1 DEF Surjection, Ids
<1>3. IsFiniteSet(1..Len(order)) /\ Cardinality(1..Len(order)) = Len(order)
  BY <1>1, IntervalCard, Zenon
<1>4. IsFiniteSet(Ids(order)) /\ Cardinality(Ids(order)) <= Len(order)
  BY <1>2, <1>3, FS_Surjection
<1>5. IsFiniteSet(part) /\ Cardinality(part) <= Cardinality(Ids(order))
  BY <1>4, FS_Subset
<1>6. Cardinality(part) \in Nat /\ Cardinality(Ids(order)) \in Nat
  BY <1>4, <1>5, FS_CardinalityType
<1> QED BY <1>1, <1>4, <1>5, <1>6

(* The dispatcher remembers at most as many result ids as its window is    *)
(* long, and only ids its order list still has: whatever handlers race to  *)
(* mark the same one, nothing stays in the set that no later mark removes. *)
SeenBounded == IsFiniteSet(seen) /\ Cardinality(seen) <= ManagerWindow

THEOREM SeenIsBounded == Spec => [](SeenKnown /\ SeenBounded)
<1>1. Init => SeenKnown
  BY DEF Init, SeenKnown
<1>2. TypeInv /\ SeenKnown /\ [Next]_vars => SeenKnown'
  <2> SUFFICES ASSUME TypeInv, SeenKnown, [Next]_vars PROVE SeenKnown'
    OBVIOUS
  <2>1. ASSUME NEW c \in Conn, MarkSeen(c)
        PROVE  SeenKnown'
    <3>1. cur[c] \in Task /\ seenOrder \in Seq(Task)
      BY <2>1 DEF MarkSeen, TypeInv, TypeOK, LocalsOK, DedupType
    <3> QED BY <2>1, <3>1, PushedCovers, BoundAssumption DEF MarkSeen, SeenKnown
  <2>2. CASE ManagerCrash
    BY <2>2 DEF ManagerCrash, SeenKnown
  <2>3. CASE ~ManagerCrash /\ \A c \in Conn : ~MarkSeen(c)
    <3>1. UNCHANGED <<seen, seenOrder>>
      BY <2>3, OnlyMarked
    <3> QED BY <3>1 DEF SeenKnown
  <2> QED BY <2>1, <2>2, <2>3
<1>3. TypeInv /\ SeenKnown => SeenBounded
  <2> SUFFICES ASSUME TypeInv, SeenKnown PROVE SeenBounded
    OBVIOUS
  <2>1. seenOrder \in Seq(Task) /\ Len(seenOrder) <= ManagerWindow
    BY DEF TypeInv, TypeOK, DedupType
  <2>2. IsFiniteSet(seen) /\ Cardinality(seen) <= Len(seenOrder)
    BY <2>1, IdsBound DEF SeenKnown
  <2>3. Cardinality(seen) \in Nat /\ Len(seenOrder) \in Nat
    BY <2>1, <2>2, FS_CardinalityType, LenProperties
  <2> QED BY <2>1, <2>2, <2>3, BoundAssumption DEF SeenBounded
<1> QED BY <1>1, <1>2, <1>3, TypeInvariant, PTL DEF Spec

-----------------------------------------------------------------------------
(* The window has a place for every instruction of the node's life.        *)
NothingForgotten == IsFiniteSet(Task) /\ Cardinality(Task) <= NodeWindow

(* What the process has run it remembers, or is running. *)
RanKnown == \A t \in ran : t = exec \/ nres[t] # "none"

(* With a large enough window remembering one id forgets no other. *)
LEMMA RememberAll ==
    ASSUME NothingForgotten, NodeType, WindowExact, NEW t \in Task, nres[t] = "none",
           NEW r \in Result, Remember(t, r)
    PROVE  nres' = [nres EXCEPT ![t] = r]
<1>1. Evicted(nresOrder, t, NodeWindow) = {}
  BY NothingEvicted, BoundAssumption DEF NothingForgotten, NodeType, WindowExact
<1> QED BY <1>1 DEF Remember, NodeType

LEMMA RanNode ==
    ASSUME NothingForgotten, TypeInv, WindowExact, RanKnown, NodeStep
    PROVE  RanKnown'
<1> USE TaskAssumption DEF TypeInv, TypeOK
<1>1. ASSUME NEW t \in Task, NodeReplay(t)
      PROVE  RanKnown'
  BY <1>1 DEF NodeReplay, RanKnown
<1>2. ASSUME NEW t \in Task, NodeDiscard(t)
      PROVE  RanKnown'
  <2>1. nres' = [nres EXCEPT ![t] = "discarded"]
    BY <1>2, RememberAll DEF NodeDiscard
  <2> QED BY <1>2, <2>1 DEF NodeDiscard, RanKnown, NodeType
<1>3. ASSUME NEW t \in Task, NodeStart(t)
      PROVE  RanKnown'
  BY <1>3 DEF NodeStart, TakeInstruction, RanKnown, NodeType
<1>4. ASSUME NEW r \in Endings \ {"discarded"}, NodeFinish(r)
      PROVE  RanKnown'
  <2>1. exec \in Task /\ nres[exec] = "none" /\ r \in Result
    BY <1>4 DEF NodeFinish, NodeType, WindowExact
  <2>2. nres' = [nres EXCEPT ![exec] = r]
    BY <1>4, <2>1, RememberAll DEF NodeFinish
  <2> QED BY <1>4, <2>1, <2>2 DEF NodeFinish, RanKnown, NodeType
<1> QED BY <1>1, <1>2, <1>3, <1>4 DEF NodeStep

LEMMA RanInvariant ==
    ASSUME NothingForgotten
    PROVE  Spec => []RanKnown
<1>1. Init => RanKnown
  BY DEF Init, RanKnown
<1>2. TypeInv /\ WindowExact /\ RanKnown /\ [Next]_vars => RanKnown'
  <2> SUFFICES ASSUME TypeInv, WindowExact, RanKnown, [Next]_vars PROVE RanKnown'
    OBVIOUS
  <2>1. CASE NodeStep
    BY <2>1, RanNode
  <2>2. CASE NodeCrash
    BY <2>2 DEF NodeCrash, RanKnown
  <2>3. CASE ~NodeStep /\ ~NodeCrash
    BY <2>3, OnlyTheNode DEF RanKnown
  <2> QED BY <2>1, <2>2, <2>3
<1> QED BY <1>1, <1>2, TypeInvariant, WindowIsExact, PTL DEF Spec

(* Executor.Execute is idempotent: one node process with a large enough    *)
(* window runs an instruction once, however often creators and flushes of  *)
(* however many connections send it.                                       *)
THEOREM RunsOnce ==
    ASSUME NothingForgotten
    PROVE  Spec => AtMostOncePerProcess
<1>1. TypeInv /\ WindowExact /\ RanKnown /\ [Next]_vars
        => [exec' # exec /\ exec' # NoTask => exec' \notin ran]_vars
  <2> SUFFICES ASSUME TypeInv, WindowExact, RanKnown, [Next]_vars,
                      exec' # exec, exec' # NoTask
               PROVE  exec' \notin ran
    OBVIOUS
  <2>1. ~NodeCrash
    BY DEF NodeCrash
  <2>2. NodeStep
    BY <2>1, OnlyTheNode
  <2>3. PICK t \in Task : NodeStart(t)
    BY <2>2 DEF NodeStep, NodeReplay, NodeDiscard, NodeFinish
  <2>4. exec = NoTask /\ nres[t] = "none" /\ exec' = t
    BY <2>3 DEF NodeStart, TakeInstruction
  <2> QED BY <2>4 DEF RanKnown
<1> QED
  BY <1>1, TypeInvariant, WindowIsExact, RanInvariant, PTL DEF Spec, AtMostOncePerProcess

-----------------------------------------------------------------------------
(* While the node process lives, the results ever produced for a task are  *)
(* the one it remembers: discarded or run, once.                           *)
OneResult == \A t \in Task : produced[t] \subseteq {nres[t]}

LEMMA ProducedOnce ==
    ASSUME NothingForgotten, TypeInv, WindowExact, OneResult,
           NEW t \in Task, nres[t] = "none", NEW r \in Result, Remember(t, r)
    PROVE  OneResult'
<1>1. nres' = [nres EXCEPT ![t] = r]
  BY RememberAll DEF TypeInv, TypeOK
<1>2. produced[t] = {}
  BY DEF OneResult, TypeInv, TypeOK, HistType
<1>3. produced' = [produced EXCEPT ![t] = produced[t] \cup {r}]
  BY DEF Remember
<1> QED BY <1>1, <1>2, <1>3 DEF OneResult, TypeInv, TypeOK, HistType, NodeType

LEMMA OneResultNode ==
    ASSUME NothingForgotten, TypeInv, WindowExact, OneResult, NodeStep
    PROVE  OneResult'
<1> USE TaskAssumption
<1>1. ASSUME NEW t \in Task, NodeReplay(t) \/ NodeStart(t)
      PROVE  OneResult'
  BY <1>1 DEF NodeReplay, NodeStart, OneResult
<1>2. ASSUME NEW t \in Task, NodeDiscard(t)
      PROVE  OneResult'
  BY <1>2, ProducedOnce DEF NodeDiscard
<1>3. ASSUME NEW r \in Endings \ {"discarded"}, NodeFinish(r)
      PROVE  OneResult'
  BY <1>3, ProducedOnce DEF NodeFinish, WindowExact, TypeInv, TypeOK, NodeType
<1> QED BY <1>1, <1>2, <1>3 DEF NodeStep

(* As long as the node process does not die, and its window is large       *)
(* enough, one instruction has one result.                                 *)
THEOREM OneResultEach ==
    ASSUME NothingForgotten, "node" \notin Failures
    PROVE  Spec => []OneResult
<1>1. Init => OneResult
  BY DEF Init, OneResult
<1>2. TypeInv /\ WindowExact /\ OneResult /\ [Next]_vars => OneResult'
  <2> SUFFICES ASSUME TypeInv, WindowExact, OneResult, [Next]_vars PROVE OneResult'
    OBVIOUS
  <2>1. CASE NodeStep
    BY <2>1, OneResultNode
  <2>2. ~NodeCrash
    BY DEF NodeCrash, Fault
  <2>3. CASE ~NodeStep
    BY <2>2, <2>3, OnlyTheNode DEF OneResult
  <2> QED BY <2>1, <2>3
<1> QED BY <1>1, <1>2, TypeInvariant, WindowIsExact, PTL DEF Spec

(* A recorded outcome may be overwritten by a late mark or a late expiry,  *)
(* but no other outcome ever takes its place, and the caller that was told *)
(* an outcome was told that one.                                           *)
OutcomeStands ==
    /\ [](\A t \in Task : task[t] \in Outcome /\ waiter[t] \in Outcome
              => task[t] = waiter[t])
    /\ [][\A t \in Task : task[t] \in Outcome /\ task'[t] \in Outcome
              => task'[t] = task[t]]_vars

(* What was produced stays produced. *)
LEMMA ProducedKept ==
    ASSUME TypeInv, [Next]_vars, NEW t \in Task
    PROVE  produced[t] \subseteq produced'[t]
<1>1. ASSUME NEW u \in Task, NEW r, Remember(u, r)
      PROVE  produced[t] \subseteq produced'[t]
  BY <1>1 DEF Remember, TypeInv, TypeOK, HistType
<1>2. CASE NodeStep
  BY <1>1, <1>2 DEF NodeStep, NodeReplay, NodeDiscard, NodeStart, NodeFinish,
     TypeInv, TypeOK, NodeType
<1>3. CASE NodeCrash
  BY <1>3 DEF NodeCrash
<1>4. CASE ~NodeStep /\ ~NodeCrash
  BY <1>4, OnlyTheNode
<1> QED BY <1>2, <1>3, <1>4

(* HandleResult looks at its window and enters the id under two separate   *)
(* acquisitions of the mutex, so two handlers may record the same id, and  *)
(* after a crash of the manager, or 4096 other results, it records it      *)
(* again.  None of this changes an outcome: what is recorded again is the  *)
(* same.                                                                   *)
THEOREM OutcomesStand ==
    ASSUME NothingForgotten, "node" \notin Failures
    PROVE  Spec => OutcomeStands
<1>1. ResultsReal /\ OneResult
        => \A t \in Task : task[t] \in Outcome /\ waiter[t] \in Outcome
                           => task[t] = waiter[t]
  BY DEF ResultsReal, Real, OneResult
<1>2. /\ TypeInv /\ ResultsReal /\ ResultsReal' /\ OneResult' /\ [Next]_vars
      => \A t \in Task : task[t] \in Outcome /\ task'[t] \in Outcome
                         => task'[t] = task[t]
  <2> SUFFICES ASSUME TypeInv, ResultsReal, ResultsReal', OneResult', [Next]_vars,
                      NEW t \in Task, task[t] \in Outcome, task'[t] \in Outcome
               PROVE  task'[t] = task[t]
    OBVIOUS
  <2>1. PICK r \in produced[t] : task[t] = StateOf(r)
    BY DEF ResultsReal, Real
  <2>2. PICK q \in produced'[t] : task'[t] = StateOf(q)
    BY DEF ResultsReal, Real
  <2>3. r = q
    BY ProducedKept DEF OneResult
  <2> QED BY <2>1, <2>2, <2>3
<1> QED
  BY <1>1, <1>2, TypeInvariant, ResultsAreReal, OneResultEach, PTL DEF Spec, OutcomeStands

-----------------------------------------------------------------------------
(* A step that leaves the handlers about to notify alone, and neither      *)
(* records an outcome nor registers a waiter.                              *)
LEMMA ToldApart ==
    ASSUME WaiterIsTold,
           \A t \in Task : waiter'[t] = "waiting" /\ task'[t] \in Outcome
                            => waiter[t] = "waiting" /\ task[t] \in Outcome,
           \A c \in Conn : pc[c] = "notify" => pc'[c] = "notify" /\ cur'[c] = cur[c]
    PROVE  WaiterIsTold'
  BY DEF WaiterIsTold

(* What the steps need to know of the types. *)
LEMMA ToldTypes ==
    ASSUME TypeInv
    PROVE  /\ pc \in [Proc -> CreatorPC \cup HandlerPC]
           /\ cur \in [Proc -> Task \cup {NoTask}]
           /\ task \in [Task -> TaskState]
           /\ waiter \in [Task -> TaskState \cup {"waiting"}]
           /\ \A t \in Task : pc[t] # "notify"
  BY DEF TypeInv, TypeOK, PcType, CurType, StoreType, WaiterType

(* A process that is not about to notify moves. *)
LEMMA ToldMove ==
    ASSUME TypeInv, NEW p \in Proc, NEW label, pc[p] # "notify", Goto(p, label),
           cur' = cur \/ (\E t : cur' = [cur EXCEPT ![p] = t])
    PROVE  \A c \in Conn : pc[c] = "notify" => pc'[c] = "notify" /\ cur'[c] = cur[c]
  BY ToldTypes DEF Goto

LEMMA ToldSend ==
    ASSUME TypeInv, WaiterIsTold, NEW p \in Proc, SendStep(p)
    PROVE  WaiterIsTold'
<1>1. \A c \in Conn : pc[c] = "notify" => pc'[c] = "notify" /\ cur'[c] = cur[c]
  <2>1. CASE LookupConn(p)
    BY <2>1, ToldMove DEF LookupConn, Return, Drop
  <2>2. CASE Push(p)
    BY <2>2, ToldMove DEF Push
  <2>3. CASE PushFails(p)
    BY <2>3, ToldMove DEF PushFails, Return, Drop
  <2>4. CASE MarkSent(p)
    BY <2>4, ToldMove DEF MarkSent, Return, Drop
  <2> QED BY <2>1, <2>2, <2>3, <2>4 DEF SendStep
<1>2. waiter' = waiter /\ (task' = task \/ task' = [task EXCEPT ![cur[p]] = "sent"])
  BY DEF SendStep, LookupConn, Push, PushFails, MarkSent
<1>3. \A t \in Task : task'[t] \in Outcome => task[t] \in Outcome
  BY <1>2, ToldTypes
<1> QED BY <1>1, <1>2, <1>3, ToldApart

(* The waiter is there before the row is. *)
LEMMA ToldCreator ==
    ASSUME TypeInv, WaiterIsTold, NEW t \in Task, CreatorStep(t) \/ DeadlinePasses(t)
    PROVE  WaiterIsTold'
<1>1. pc[t] # "notify"
  BY ToldTypes
<1>2. CASE Submit(t)
  <2>1. \A c \in Conn : pc[c] = "notify" => pc'[c] = "notify" /\ cur'[c] = cur[c]
    BY <1>1, <1>2, ToldMove DEF Submit
  <2>2. \A u \in Task : waiter'[u] = "waiting" /\ task'[u] \in Outcome
                          => waiter[u] = "waiting" /\ task[u] \in Outcome
    BY <1>2, ToldTypes DEF Submit
  <2> QED BY <2>1, <2>2, ToldApart
<1>3. CASE CancelWait(t)
  <2>1. \A u \in Task : waiter'[u] = "waiting" => waiter[u] = "waiting"
    BY <1>3, ToldTypes DEF CancelWait
  <2> QED BY <1>3, <2>1, ToldApart DEF CancelWait
<1>4. CASE PushCancelled(t)
  <2>1. \A c \in Conn : pc[c] = "notify" => pc'[c] = "notify" /\ cur'[c] = cur[c]
    BY <1>1, <1>4, ToldMove DEF PushCancelled, Return, Drop
  <2> QED BY <1>4, <2>1, ToldApart DEF PushCancelled
<1>5. CASE DeadlinePasses(t)
  BY <1>5, ToldApart DEF DeadlinePasses
<1> QED BY <1>2, <1>3, <1>4, <1>5 DEF CreatorStep

(* The handler that records an outcome notifies next. *)
LEMMA ToldHandler ==
    ASSUME TypeInv, WaiterIsTold, NEW c \in Conn, Dial(c) \/ HandlerStep(c)
    PROVE  WaiterIsTold'
<1>1. CASE AddSession(c) \/ FlushDone(c) \/ MarkSeen(c) \/ Leave(c) \/ Dial(c)
  <2>1. \A d \in Conn : pc[d] = "notify" => pc'[d] = "notify" /\ cur'[d] = cur[d]
    BY <1>1, ToldMove DEF AddSession, FlushDone, MarkSeen, Leave, Dial
  <2>2. UNCHANGED <<task, waiter>>
    BY <1>1 DEF AddSession, FlushDone, MarkSeen, Leave, Dial
  <2> QED BY <2>1, <2>2, ToldApart
<1>2. CASE ReadRegister(c)
  <2>1. \A d \in Conn : pc[d] = "notify" => pc'[d] = "notify" /\ cur'[d] = cur[d]
    BY <1>2, ToldMove DEF ReadRegister, Receive
  <2> QED BY <1>2, <2>1, ToldApart DEF ReadRegister
<1>3. ASSUME NEW t \in Task, FlushExpire(c, t)
      PROVE  WaiterIsTold'
  <2>1. \A u \in Task : task'[u] \in Outcome => task[u] \in Outcome
    BY <1>3, ToldTypes DEF FlushExpire
  <2> QED BY <1>3, <2>1, ToldApart DEF FlushExpire
<1>4. ASSUME NEW t \in Task, FlushSend(c, t)
      PROVE  WaiterIsTold'
  <2>1. \A d \in Conn : pc[d] = "notify" => pc'[d] = "notify" /\ cur'[d] = cur[d]
    BY <1>4, ToldMove DEF FlushSend, NextInFlush
  <2> QED BY <1>4, <2>1, ToldApart DEF FlushSend
<1>5. CASE ReadResult(c)
  <2>1. \A d \in Conn : pc[d] = "notify" => pc'[d] = "notify" /\ cur'[d] = cur[d]
    BY <1>5, ToldMove DEF ReadResult, Receive
  <2> QED BY <1>5, <2>1, ToldApart DEF ReadResult
<1>6. CASE CompleteTask(c)
  <2>1. /\ pc' = [pc EXCEPT ![c] = "notify"]
        /\ \E r : task' = [task EXCEPT ![cur[c]] = r]
        /\ UNCHANGED <<cur, waiter>>
    BY <1>6 DEF CompleteTask, Goto
  <2> QED BY <2>1, ToldTypes DEF WaiterIsTold
<1>7. CASE NotifyWaiter(c)
  <2>1. /\ pc[c] = "notify" /\ task' = task
        /\ waiter' = IF waiter[cur[c]] = "waiting"
                      THEN [waiter EXCEPT ![cur[c]] = task[cur[c]]] ELSE waiter
    BY <1>7 DEF NotifyWaiter
  <2>2. pc' = [pc EXCEPT ![c] = "read"] /\ \E t : cur' = [cur EXCEPT ![c] = t]
    BY <1>7 DEF NotifyWaiter, EndResult, Drop, Goto
  <2>3. cur[c] \in Task
    BY <2>1 DEF TypeInv, LocalsOK
  <2>4. waiter'[cur[c]] # "waiting" /\ \A t \in Task : t # cur[c] => waiter'[t] = waiter[t]
    BY <2>1, <2>3, ToldTypes
  <2>5. ASSUME NEW t \in Task, waiter'[t] = "waiting", task'[t] \in Outcome
        PROVE  \E d \in Conn : pc'[d] = "notify" /\ cur'[d] = t
    <3>1. t # cur[c] /\ waiter[t] = "waiting" /\ task[t] \in Outcome
      BY <2>1, <2>4, <2>5
    <3>2. PICK d \in Conn : pc[d] = "notify" /\ cur[d] = t
      BY <3>1 DEF WaiterIsTold
    <3>3. d # c
      BY <3>1, <3>2
    <3> QED BY <2>2, <3>2, <3>3, ToldTypes
  <2> QED BY <2>5 DEF WaiterIsTold
<1> QED BY <1>1, <1>2, <1>3, <1>4, <1>5, <1>6, <1>7 DEF HandlerStep

LEMMA ToldFailure ==
    ASSUME "store" \notin Failures, TypeInv, WaiterIsTold, Failure
    PROVE  WaiterIsTold'
<1>1. \A p \in Proc : ~StoreFails(p)
  BY DEF StoreFails, Fault
<1>2. CASE ManagerCrash
  BY <1>2 DEF ManagerCrash, WaiterIsTold
<1>3. CASE ~ManagerCrash
  BY <1>1, <1>3, ToldApart DEF Failure, RegisterFails, Break, Reap, NodeDrop, NodeCrash
<1> QED BY <1>2, <1>3

(* No wakeup is lost: an MCP call that still waits for a task whose        *)
(* outcome is recorded is about to be told by the handler that recorded    *)
(* it, or by another one that recorded it again.                           *)
THEOREM WaitersAreTold ==
    ASSUME "store" \notin Failures
    PROVE  Spec => []WaiterIsTold
<1>1. Init => WaiterIsTold
  BY DEF Init, WaiterIsTold
<1>2. TypeInv /\ WaiterIsTold /\ [Next]_vars => WaiterIsTold'
  <2> SUFFICES ASSUME TypeInv, WaiterIsTold, [Next]_vars PROVE WaiterIsTold'
    OBVIOUS
  <2>1. ASSUME NEW c \in Conn, IdleHeartbeat(c)
        PROVE  WaiterIsTold'
    BY <2>1, ToldApart DEF IdleHeartbeat, vars
  <2>2. CASE NodeStep
    BY <2>2, ToldApart DEF NodeStep, NodeReplay, NodeDiscard, NodeStart, NodeFinish
  <2>3. CASE UNCHANGED vars
    BY <2>3, ToldApart DEF vars
  <2> QED
    BY <2>1, <2>2, <2>3, ToldSend, ToldCreator, ToldHandler, ToldFailure DEF Next
<1> QED BY <1>1, <1>2, TypeInvariant, PTL DEF Spec

-----------------------------------------------------------------------------
(* What overwrites a final state.                                          *)

(* A send goes on although its task is final: it puts an expired task in   *)
(* the channel, or marks a final one sent.  Or a flush marks a task of its *)
(* snapshot expired that another send has put in a channel meanwhile.      *)
ActsOnStale ==
    \/ \E p \in Proc : Push(p) /\ task[cur[p]] = "expired"
    \/ \E p \in Proc : MarkSent(p) /\ task[cur[p]] \in Terminal
    \/ \E c \in Conn, t \in Task : FlushExpire(c, t) /\ t \in offered

(* An expired task was never put in a channel. *)
ExpiredUnsent == \A t \in Task : task[t] = "expired" => t \notin offered

(* The steps that write the state of a task, or put one in a channel. *)
LEMMA TaskSteps ==
    ASSUME [Next]_vars
    PROVE  \/ UNCHANGED <<task, offered>>
           \/ \E t \in Task : Submit(t)
           \/ \E p \in Proc : Push(p) \/ MarkSent(p)
           \/ \E c \in Conn, t \in Task : FlushExpire(c, t)
           \/ \E c \in Conn : CompleteTask(c)
<1>1. ASSUME NEW t \in Task, CreatorStep(t) \/ DeadlinePasses(t)
      PROVE  UNCHANGED <<task, offered>> \/ Submit(t)
  BY <1>1 DEF CreatorStep, CancelWait, PushCancelled, DeadlinePasses
<1>2. ASSUME NEW p \in Proc, SendStep(p)
      PROVE  UNCHANGED <<task, offered>> \/ Push(p) \/ MarkSent(p)
  BY <1>2 DEF SendStep, LookupConn, PushFails
<1>3. ASSUME NEW c \in Conn, Dial(c) \/ HandlerStep(c) \/ IdleHeartbeat(c)
      PROVE  \/ UNCHANGED <<task, offered>> \/ CompleteTask(c)
             \/ \E t \in Task : FlushExpire(c, t)
  BY <1>3
  DEF Dial, HandlerStep, AddSession, ReadRegister, FlushDone, FlushSend, ReadResult,
      MarkSeen, NotifyWaiter, Leave, IdleHeartbeat, vars
<1>4. NodeStep \/ Failure => UNCHANGED <<task, offered>>
  BY DEF NodeStep, NodeReplay, NodeDiscard, NodeStart, NodeFinish, Failure, StoreFails,
         RegisterFails, Break, Reap, NodeDrop, NodeCrash, ManagerCrash
<1>5. UNCHANGED vars => UNCHANGED <<task, offered>>
  BY DEF vars
<1> QED BY <1>1, <1>2, <1>3, <1>4, <1>5 DEF Next

LEMMA UnsentKept ==
    ASSUME TypeInv, ExpiredUnsent, [Next]_vars, [~ActsOnStale]_vars
    PROVE  ExpiredUnsent'
<1>0. task \in [Task -> TaskState]
  BY ToldTypes
<1>1. CASE UNCHANGED <<task, offered>>
  BY <1>1 DEF ExpiredUnsent
<1>2. CASE ~ActsOnStale
  <2>1. ASSUME NEW t \in Task, Submit(t)
        PROVE  ExpiredUnsent'
    BY <1>0, <2>1 DEF Submit, ExpiredUnsent
  <2>2. ASSUME NEW p \in Proc, Push(p)
        PROVE  ExpiredUnsent'
    BY <1>2, <2>2 DEF Push, ActsOnStale, ExpiredUnsent
  <2>3. ASSUME NEW p \in Proc, MarkSent(p)
        PROVE  ExpiredUnsent'
    BY <1>0, <2>3 DEF MarkSent, ExpiredUnsent
  <2>4. ASSUME NEW c \in Conn, NEW t \in Task, FlushExpire(c, t)
        PROVE  ExpiredUnsent'
    <3>1. t \notin offered
      BY <1>2, <2>4 DEF ActsOnStale
    <3> QED BY <1>0, <2>4, <3>1 DEF FlushExpire, ExpiredUnsent
  <2>5. ASSUME NEW c \in Conn, CompleteTask(c)
        PROVE  ExpiredUnsent'
    <3>1. got[c] \in Result
      BY <2>5 DEF CompleteTask, TypeInv, LocalsOK
    <3>2. StateOf(got[c]) # "expired"
      BY <3>1, StateOfType
    <3> QED BY <1>0, <2>5, <3>2 DEF CompleteTask, ExpiredUnsent
  <2> QED BY <1>1, <2>1, <2>2, <2>3, <2>4, <2>5, TaskSteps
<1> QED BY <1>1, <1>2 DEF vars

(* docs/design/03-rest-api.md, the task state machine: succeeded, failed,  *)
(* timeout and expired are final.  The dispatcher breaks this in no other  *)
(* way than by a send or an expiry that acts on what it read earlier: the  *)
(* results themselves, repeated, late or recorded twice, never do.         *)
THEOREM FinalUnlessStale ==
    ASSUME NothingForgotten, "node" \notin Failures
    PROVE  Spec /\ [][~ActsOnStale]_vars => TerminalFinal
<1> DEFINE Final == \A t \in Task : task[t] \in Terminal => task'[t] = task[t]
<1>1. Init => ExpiredUnsent
  BY DEF Init, ExpiredUnsent
<1>2. TypeInv /\ ExpiredUnsent /\ [Next]_vars /\ [~ActsOnStale]_vars => ExpiredUnsent'
  BY UnsentKept
<1>3. ASSUME TypeInv, Provenance, Provenance', OneResult', ExpiredUnsent,
             [Next]_vars, [~ActsOnStale]_vars
      PROVE  [Final]_vars
  <2>0. task \in [Task -> TaskState]
    BY <1>3, ToldTypes
  <2>1. CASE task' = task
    BY <2>1
  <2>2. ASSUME NEW t \in Task, Submit(t)
        PROVE  Final
    BY <2>0, <2>2 DEF Submit, Terminal
  <2>3. ASSUME NEW p \in Proc, MarkSent(p), ~ActsOnStale
        PROVE  Final
    <3>1. task[cur[p]] \notin Terminal
      BY <2>3 DEF ActsOnStale
    <3> QED BY <2>0, <2>3, <3>1 DEF MarkSent
  <2>4. ASSUME NEW c \in Conn, NEW t \in Task, FlushExpire(c, t), ~ActsOnStale
        PROVE  Final
    <3>1. t \notin offered
      BY <2>4 DEF ActsOnStale
    <3>2. task[t] \notin Outcome
      BY <1>3, <3>1 DEF Provenance, ResultsReal, Real, RowTraced
    <3> QED BY <2>0, <2>4, <3>2 DEF FlushExpire, Terminal, Outcome
  <2>5. ASSUME NEW c \in Conn, CompleteTask(c)
        PROVE  Final
    <3>1. got[c] \in Result /\ cur[c] \in Task /\ got[c] \in produced[cur[c]]
      BY <1>3, <2>5 DEF CompleteTask, TypeInv, LocalsOK, Provenance, GotTraced
    <3>2. StateOf(got[c]) \in Outcome
      BY <3>1, StateOfType
    <3>3. task[cur[c]] # "expired"
      BY <1>3, <3>1 DEF ExpiredUnsent, Provenance, RowTraced
    <3>4. task[cur[c]] \in Outcome => task'[cur[c]] = task[cur[c]]
      <4> SUFFICES ASSUME task[cur[c]] \in Outcome
                   PROVE  task'[cur[c]] = task[cur[c]]
        OBVIOUS
      <4>1. PICK r \in produced[cur[c]] : task[cur[c]] = StateOf(r)
        BY <1>3, <3>1 DEF Provenance, ResultsReal, Real
      <4>2. r = got[c]
        BY <1>3, <3>1, ProducedKept DEF OneResult
      <4> QED BY <2>0, <2>5, <3>1, <4>1, <4>2 DEF CompleteTask
    <3> QED BY <2>0, <2>5, <3>1, <3>3, <3>4 DEF CompleteTask, Terminal, Outcome
  <2> QED
    BY <1>3, <2>1, <2>2, <2>3, <2>4, <2>5, TaskSteps DEF Push
<1> QED
  BY <1>1, <1>2, <1>3, TypeInvariant, ProvenanceInvariant, OneResultEach, PTL
  DEF Spec, TerminalFinal

-----------------------------------------------------------------------------
(* What keeps a sent task from being answered.                             *)

(* Where the answer to a task stands while it has none: the instruction is *)
(* on its way to the node, or executed there, or its result is on its way  *)
(* back, or a handler is recording that result.                            *)
HasResult(t, q) == \E i \in 1..Len(q) : q[i].kind = "result" /\ q[i].id = t
HasTask(t, q) == \E i \in 1..Len(q) : q[i] = t

Instructed(t) == nconn \in Conn /\ HasTask(t, down[nconn])
Answered(t) == \E c \in Conn : HasResult(t, up[c])
Recording(t) == \E c \in Conn : pc[c] \in {"claim", "complete"} /\ cur[c] = t

UnderWay(t) == Instructed(t) \/ exec = t \/ Answered(t) \/ Recording(t)

SentIsUnderWay == \A t \in Task : task[t] = "sent" => UnderWay(t)

(* The five ways in which an answer gets lost.  The last result of a task  *)
(* disappears from a connection without being read; the node leaves its    *)
(* connection with instructions unread or one running; a frame is given to *)
(* a connection nobody reads, at either end; a result that was received is *)
(* not recorded; or a recorded outcome is overwritten by MarkSent.         *)
DropsResult ==
    \E c \in Conn, t \in Task :
        HasResult(t, up[c]) /\ ~HasResult(t, up'[c]) /\ ~ReadResult(c)

DropsInstruction ==
    nconn \in Conn /\ nconn' = NoConn /\ (down[nconn] # <<>> \/ exec # NoTask)

SendsToNobody ==
    \/ \E p \in Proc : Push(p) /\ dst[p] # nconn
    \/ NodeStep /\ link[nconn] = "down" /\ ~\E t \in Task : NodeStart(t)

DropsRecord ==
    \E c \in Conn : pc[c] \in {"claim", "complete"} /\ (StoreFails(c) \/ ManagerCrash)

ForgetsOutcome == \E p \in Proc : MarkSent(p) /\ task[cur[p]] \in Terminal

Loses == DropsResult \/ DropsInstruction \/ SendsToNobody \/ DropsRecord \/ ForgetsOutcome

(* What makes it inductive: what was offered is under way or answered, and *)
(* an id in the window of results is recorded or about to be.              *)
SentOffered == \A t \in Task : task[t] = "sent" => t \in offered
OfferedUnderWay == \A t \in offered : UnderWay(t) \/ task[t] \in Terminal
SeenRecorded ==
    \A t \in seen : \/ task[t] \in Terminal
                    \/ \E c \in Conn : pc[c] = "complete" /\ cur[c] = t

DeliveryInv == SentOffered /\ OfferedUnderWay /\ SeenRecorded

(* What the steps need to know of the types. *)
LEMMA DeliveryTypes ==
    ASSUME TypeInv
    PROVE  /\ pc \in [Proc -> CreatorPC \cup HandlerPC]
           /\ cur \in [Proc -> Task \cup {NoTask}]
           /\ task \in [Task -> TaskState]
           /\ up \in [Conn -> Seq(Frame)] /\ down \in [Conn -> Seq(Task)]
           /\ nconn \in Conn \cup {NoConn} /\ exec \in Task \cup {NoTask}
           /\ seen \subseteq Task /\ offered \subseteq Task
           /\ \A t \in Task : pc[t] \notin {"claim", "complete"}
           /\ NoTask \notin Task /\ NoConn \notin Conn /\ Conn \cap Task = {}
  BY TaskAssumption, ConnAssumption
  DEF TypeInv, TypeOK, PcType, CurType, StoreType, LinkType, NodeType, DedupType, HistType

(* A process that is not recording a result moves. *)
LEMMA RecordMove ==
    ASSUME TypeInv, NEW p \in Proc, pc[p] \notin {"claim", "complete"},
           pc' = pc \/ (\E label : Goto(p, label)),
           cur' = cur \/ (\E t : cur' = [cur EXCEPT ![p] = t])
    PROVE  \A c \in Conn : pc[c] \in {"claim", "complete"} => pc'[c] = pc[c] /\ cur'[c] = cur[c]
  BY DeliveryTypes DEF Goto

(* A handler records the result it has received, unless that fails. *)
LEMMA RecordGoesOn ==
    ASSUME TypeInv, [Next]_vars, ~DropsRecord, NEW c \in Conn,
           pc[c] \in {"claim", "complete"}, ~CompleteTask(c)
    PROVE  /\ pc'[c] \in {"claim", "complete"} /\ cur'[c] = cur[c]
           /\ pc[c] = "complete" => pc'[c] = "complete"
<1> DEFINE Kept == pc'[c] = pc[c] /\ cur'[c] = cur[c]
<1>1. ASSUME NEW t \in Task, CreatorStep(t) \/ DeadlinePasses(t)
      PROVE  Kept
  <2>1. pc[t] \notin {"claim", "complete"}
    BY DeliveryTypes
  <2> QED
    BY <1>1, <2>1, RecordMove
    DEF CreatorStep, Submit, CancelWait, PushCancelled, DeadlinePasses, Return, Drop
<1>2. ASSUME NEW p \in Proc, SendStep(p)
      PROVE  Kept
  BY <1>2, RecordMove DEF SendStep, LookupConn, Push, PushFails, MarkSent, Return, Drop
<1>3. ASSUME NEW d \in Conn, Dial(d) \/ IdleHeartbeat(d)
      PROVE  Kept
  BY <1>3, RecordMove DEF Dial, IdleHeartbeat, vars
<1>4. ASSUME NEW d \in Conn, HandlerStep(d), ~MarkSeen(d), ~CompleteTask(d)
      PROVE  Kept
  <2>1. pc[d] \notin {"claim", "complete"}
    BY <1>4
    DEF HandlerStep, AddSession, ReadRegister, Receive, FlushDone, FlushExpire, FlushSend,
        NextInFlush, ReadResult, NotifyWaiter, Leave
  <2>2. pc' = pc \/ (\E label : Goto(d, label))
    BY <1>4
    DEF HandlerStep, AddSession, ReadRegister, FlushDone, FlushExpire, FlushSend,
        ReadResult, NotifyWaiter, EndResult, Leave
  <2>3. cur' = cur \/ (\E t : cur' = [cur EXCEPT ![d] = t])
    BY <1>4
    DEF HandlerStep, AddSession, ReadRegister, FlushDone, FlushExpire, FlushSend,
        ReadResult, NotifyWaiter, EndResult, Drop, Leave
  <2> QED BY <2>1, <2>2, <2>3, RecordMove
<1>5. ASSUME NEW d \in Conn, MarkSeen(d) \/ CompleteTask(d)
      PROVE  Kept \/ (pc'[c] = "complete" /\ cur'[c] = cur[c])
  BY <1>5, DeliveryTypes DEF MarkSeen, CompleteTask, Goto
<1>6. NodeStep => Kept
  BY DEF NodeStep, NodeReplay, NodeDiscard, NodeStart, NodeFinish
<1>7. ASSUME NEW p \in Proc, StoreFails(p)
      PROVE  Kept
  <2>1. p # c
    BY <1>7 DEF DropsRecord
  <2> QED BY <1>7, <2>1, DeliveryTypes DEF StoreFails, Return, EndResult, Goto, Drop
<1>8. ASSUME Failure, \A p \in Proc : ~StoreFails(p)
      PROVE  Kept
  <2>1. ~ManagerCrash
    BY DEF DropsRecord
  <2> QED BY <1>8, <2>1 DEF Failure, RegisterFails, Break, Reap, NodeDrop, NodeCrash
<1>9. UNCHANGED vars => Kept
  BY DEF vars
<1> QED BY <1>1, <1>2, <1>3, <1>4, <1>5, <1>6, <1>7, <1>8, <1>9 DEF Next


(* A final state stays final, if not the same one, unless MarkSent forgets. *)
LEMMA TerminalKept ==
    ASSUME TypeInv, [Next]_vars, ~ForgetsOutcome, NEW t \in Task, task[t] \in Terminal
    PROVE  task'[t] \in Terminal
<1>0. task \in [Task -> TaskState]
  BY DeliveryTypes
<1>1. CASE UNCHANGED <<task, offered>>
  BY <1>1
<1>2. ASSUME NEW u \in Task, Submit(u)
      PROVE  task'[t] \in Terminal
  BY <1>0, <1>2 DEF Submit, Terminal
<1>3. ASSUME NEW p \in Proc, Push(p)
      PROVE  task'[t] \in Terminal
  BY <1>3 DEF Push
<1>4. ASSUME NEW p \in Proc, MarkSent(p)
      PROVE  task'[t] \in Terminal
  <2>1. task[cur[p]] \notin Terminal
    BY <1>4 DEF ForgetsOutcome
  <2> QED BY <1>0, <1>4, <2>1 DEF MarkSent
<1>5. ASSUME NEW c \in Conn, NEW u \in Task, FlushExpire(c, u)
      PROVE  task'[t] \in Terminal
  BY <1>0, <1>5 DEF FlushExpire, Terminal
<1>6. ASSUME NEW c \in Conn, CompleteTask(c)
      PROVE  task'[t] \in Terminal
  <2>1. StateOf(got[c]) \in Outcome
    BY <1>6, StateOfType DEF CompleteTask, TypeInv, LocalsOK
  <2> QED BY <1>0, <1>6, <2>1 DEF CompleteTask, Terminal
<1> QED BY <1>1, <1>2, <1>3, <1>4, <1>5, <1>6, TaskSteps

(* A frame more at the end of a queue, or the first one less. *)
LEMMA AppendHas ==
    ASSUME NEW q \in Seq(Task), NEW u \in Task
    PROVE  /\ HasTask(u, Append(q, u))
           /\ \A t : HasTask(t, q) => HasTask(t, Append(q, u))
<1>1. /\ Len(Append(q, u)) = Len(q) + 1 /\ Len(q) \in Nat
      /\ \A i \in 1..Len(q) : Append(q, u)[i] = q[i]
      /\ Append(q, u)[Len(q) + 1] = u
  BY AppendProperties, LenProperties
<1> QED BY <1>1 DEF HasTask

LEMMA AppendResult ==
    ASSUME NEW q \in Seq(Frame), NEW f \in Frame
    PROVE  f.kind = "result" => HasResult(f.id, Append(q, f))
<1>1. /\ Len(Append(q, f)) = Len(q) + 1 /\ Len(q) \in Nat
      /\ Append(q, f)[Len(q) + 1] = f
  BY AppendProperties, LenProperties
<1> QED BY <1>1 DEF HasResult

LEMMA TailHas ==
    ASSUME NEW S, NEW q \in Seq(S), q # <<>>
    PROVE  /\ \A t : HasTask(t, q) => t = Head(q) \/ HasTask(t, Tail(q))
           /\ \A t : HasResult(t, q) =>
                  (Head(q).kind = "result" /\ Head(q).id = t) \/ HasResult(t, Tail(q))
<1>1. /\ Len(Tail(q)) = Len(q) - 1 /\ Len(q) \in Nat \ {0}
      /\ \A i \in 1..Len(Tail(q)) : Tail(q)[i] = q[i + 1]
      /\ Head(q) = q[1]
  BY HeadTailProperties, LenProperties, EmptySeq
<1>2. ASSUME NEW i \in 1..Len(q), i # 1
      PROVE  i - 1 \in 1..Len(Tail(q)) /\ Tail(q)[i - 1] = q[i]
  BY <1>1, <1>2
<1>3. \A t : HasTask(t, q) => t = Head(q) \/ HasTask(t, Tail(q))
  BY <1>1, <1>2 DEF HasTask
<1>4. \A t : HasResult(t, q) =>
          (Head(q).kind = "result" /\ Head(q).id = t) \/ HasResult(t, Tail(q))
  BY <1>1, <1>2 DEF HasResult
<1> QED BY <1>3, <1>4

LEMMA TailDiffers ==
    ASSUME NEW S, NEW q \in Seq(S), q # <<>>
    PROVE  Tail(q) # q
<1>1. Tail(q) \in Seq(S) /\ Len(q) \in Nat
  BY HeadTailProperties, LenProperties
<1>2. Len(Tail(q)) = Len(q) - 1
  BY HeadTailProperties
<1>3. ASSUME NEW n \in Nat, NEW m, n = m, m = n - 1
      PROVE  FALSE
  BY <1>3
<1> QED BY <1>1, <1>2, <1>3, Zenon

(* Results are lost from a connection in the named ways only. *)
LEMMA ResultKept ==
    ASSUME ~DropsResult, NEW c \in Conn, ~ReadResult(c), NEW t \in Task,
           HasResult(t, up[c])
    PROVE  HasResult(t, up'[c])
  BY DEF DropsResult

(* A step that is no step of the node, of a channel to it, or of a handler *)
(* reading a result. *)
LEMMA UnderWayApart ==
    ASSUME TypeInv, [Next]_vars, ~DropsRecord, ~DropsResult,
           UNCHANGED <<nconn, exec, down>>,
           \A c \in Conn : ~ReadResult(c) /\ ~CompleteTask(c),
           NEW t \in Task, UnderWay(t)
    PROVE  UnderWay(t)'
<1>1. CASE Instructed(t) \/ exec = t
  BY <1>1 DEF Instructed, UnderWay
<1>2. CASE Answered(t)
  BY <1>2, ResultKept DEF Answered, UnderWay
<1>3. CASE Recording(t)
  BY <1>3, RecordGoesOn DEF Recording, UnderWay
<1> QED BY <1>1, <1>2, <1>3 DEF UnderWay


(* The steps that reach the node or the channel to it. *)
LEMMA NodeSteps ==
    ASSUME [Next]_vars
    PROVE  \/ UNCHANGED <<nconn, exec, down>>
           \/ \E p \in Proc : Push(p)
           \/ \E c \in Conn : Dial(c)
           \/ NodeStep \/ NodeDrop \/ NodeCrash
<1>1. ASSUME NEW t \in Task, CreatorStep(t) \/ DeadlinePasses(t)
      PROVE  UNCHANGED <<nconn, exec, down>>
  BY <1>1 DEF CreatorStep, Submit, CancelWait, PushCancelled, DeadlinePasses
<1>2. ASSUME NEW p \in Proc, SendStep(p)
      PROVE  UNCHANGED <<nconn, exec, down>> \/ Push(p)
  BY <1>2 DEF SendStep, LookupConn, PushFails, MarkSent
<1>3. ASSUME NEW c \in Conn, HandlerStep(c) \/ IdleHeartbeat(c)
      PROVE  UNCHANGED <<nconn, exec, down>>
  BY <1>3
  DEF HandlerStep, AddSession, ReadRegister, FlushDone, FlushExpire, FlushSend, ReadResult,
      MarkSeen, CompleteTask, NotifyWaiter, Leave, IdleHeartbeat, vars
<1>4. CASE Failure
  BY <1>4 DEF Failure, StoreFails, RegisterFails, Break, Reap, ManagerCrash
<1>5. UNCHANGED vars => UNCHANGED <<nconn, exec, down>>
  BY DEF vars
<1> QED BY <1>1, <1>2, <1>3, <1>4, <1>5 DEF Next

(* The handler that takes a result out of its connection is recording it,  *)
(* unless its id is in the window: then it is recorded, or is being.       *)
LEMMA ReadKeeps ==
    ASSUME TypeInv, SeenRecorded, [Next]_vars, ~Loses, NEW c \in Conn, ReadResult(c),
           NEW t \in Task, UnderWay(t)
    PROVE  UnderWay(t)' \/ task'[t] \in Terminal
<1> DEFINE h == Head(up[c]).id
<1>1. /\ up[c] \in Seq(Frame) /\ up[c] # <<>> /\ up' = [up EXCEPT ![c] = Tail(@)]
      /\ task' = task /\ UNCHANGED <<nconn, exec, down>>
  BY DeliveryTypes DEF ReadResult, Receive
<1>2. CASE Instructed(t) \/ exec = t
  BY <1>1, <1>2 DEF Instructed, UnderWay
<1>3. CASE Recording(t)
  <2>1. ~CompleteTask(c) /\ \A d \in Conn : ~CompleteTask(d)
    BY <1>1, DeliveryTypes DEF CompleteTask, ReadResult, Receive
  <2> QED BY <1>3, <2>1, RecordGoesOn DEF Recording, UnderWay, Loses
<1>4. CASE Answered(t)
  <2>1. PICK d \in Conn : HasResult(t, up[d])
    BY <1>4 DEF Answered
  <2>2. CASE HasResult(t, up'[d])
    BY <2>2 DEF Answered, UnderWay
  <2>3. CASE ~HasResult(t, up'[d])
    <3>1. d = c /\ h = t
      BY <1>1, <2>1, <2>3, DeliveryTypes, TailHas
    <3>2. CASE t \in seen
      <4>1. ASSUME NEW e \in Conn, pc[e] = "complete", cur[e] = t
            PROVE  pc'[e] = "complete" /\ cur'[e] = t
        BY <3>1, <3>2, <4>1 DEF ReadResult
      <4> QED BY <1>1, <3>2, <4>1 DEF SeenRecorded, Recording, UnderWay
    <3>3. CASE t \notin seen
      <4>1. pc'[c] = "claim" /\ cur'[c] = t
        BY <3>1, <3>3, DeliveryTypes DEF ReadResult, Goto
      <4> QED BY <4>1 DEF Recording, UnderWay
    <3> QED BY <3>2, <3>3
  <2> QED BY <2>2, <2>3
<1> QED BY <1>2, <1>3, <1>4 DEF UnderWay

(* An instruction moves from the channel into the executor, or is answered *)
(* at once, and what the executor finishes is answered. *)
LEMMA NodeKeeps ==
    ASSUME TypeInv, [Next]_vars, ~Loses, NodeStep, NEW t \in Task, UnderWay(t)
    PROVE  UnderWay(t)'
<1> USE DeliveryTypes
<1>1. \A c \in Conn : ~ReadResult(c) /\ ~CompleteTask(c)
  <2>1. exec # exec' \/ (nconn \in Conn /\ down # down')
    <3>1. ASSUME NEW u \in Task, TakeInstruction(u)
          PROVE  nconn \in Conn /\ down # down'
      <4>1. down[nconn] \in Seq(Task) /\ down[nconn] # <<>> /\ nconn \in Conn
        BY <3>1 DEF TakeInstruction
      <4>3. down'[nconn] = Tail(down[nconn])
        BY <3>1, <4>1 DEF TakeInstruction
      <4> QED BY <4>1, <4>3, TailDiffers
    <3> QED BY <3>1 DEF NodeStep, NodeReplay, NodeDiscard, NodeStart, NodeFinish
  <2> QED BY <2>1 DEF ReadResult, CompleteTask
<1>2. CASE Answered(t) \/ Recording(t)
  <2>1. Answered(t) => Answered(t)'
    BY <1>1, ResultKept DEF Answered, Loses
  <2>2. Recording(t) => Recording(t)'
    BY <1>1, RecordGoesOn DEF Recording, Loses
  <2> QED BY <1>2, <2>1, <2>2 DEF UnderWay
<1>3. ASSUME NEW u \in Task, NEW r \in Result, nconn \in Conn, link[nconn] # "down",
             Report(nconn, ResultFrame(u, r))
      PROVE  Answered(u)'
  <2>1. link[nconn] = "up" /\ up[nconn] \in Seq(Frame)
    BY <1>3 DEF TypeInv, TypeOK, LinkType
  <2>2. up'[nconn] = Append(up[nconn], ResultFrame(u, r))
    BY <1>3, <2>1 DEF Report
  <2>3. ResultFrame(u, r) \in Frame
    BY DEF Frame
  <2>4. ResultFrame(u, r).kind = "result" /\ ResultFrame(u, r).id = u
    BY DEF ResultFrame
  <2>5. HasResult(u, Append(up[nconn], ResultFrame(u, r)))
    BY <2>1, <2>3, <2>4, AppendResult
  <2> QED BY <1>3, <2>2, <2>5 DEF Answered
<1>4. ASSUME NEW u \in Task, TakeInstruction(u), nconn' = nconn, exec' = exec \/ exec' = u,
             Answered(u)' \/ exec' = u, Instructed(t) \/ exec = t
      PROVE  UnderWay(t)'
  <2>1. /\ nconn \in Conn /\ exec = NoTask /\ down[nconn] \in Seq(Task)
        /\ down[nconn] # <<>> /\ u = Head(down[nconn])
        /\ down'[nconn] = Tail(down[nconn])
    BY <1>4 DEF TakeInstruction
  <2>2. t = u \/ HasTask(t, down'[nconn])
    BY <1>4, <2>1, TailHas DEF Instructed
  <2> QED BY <1>4, <2>1, <2>2 DEF Instructed, UnderWay
<1>5. ASSUME NEW u \in Task, NodeReplay(u), Instructed(t) \/ exec = t
      PROVE  UnderWay(t)'
  <2>1. TakeInstruction(u) /\ nres[u] \in Result /\ nconn \in Conn /\ exec = NoTask
    BY <1>5 DEF NodeReplay, TakeInstruction, TypeInv, TypeOK, NodeType
  <2>2. link[nconn] # "down"
    <3>1. ~\E v \in Task : NodeStart(v)
      BY <1>5, <2>1 DEF NodeReplay, NodeStart
    <3> QED BY <3>1 DEF Loses, SendsToNobody
  <2> QED BY <1>3, <1>4, <1>5, <2>1, <2>2 DEF NodeReplay
<1>6. ASSUME NEW u \in Task, NodeDiscard(u), Instructed(t) \/ exec = t
      PROVE  UnderWay(t)'
  <2>1. TakeInstruction(u) /\ nconn \in Conn /\ exec = NoTask
    BY <1>6 DEF NodeDiscard, TakeInstruction
  <2>2. link[nconn] # "down"
    <3>1. ~\E v \in Task : NodeStart(v)
      BY <1>6, <2>1 DEF NodeDiscard, NodeStart
    <3> QED BY <3>1 DEF Loses, SendsToNobody
  <2> QED BY <1>3, <1>4, <1>6, <2>1, <2>2 DEF NodeDiscard
<1>7. ASSUME NEW u \in Task, NodeStart(u), Instructed(t) \/ exec = t
      PROVE  UnderWay(t)'
  BY <1>4, <1>7 DEF NodeStart
<1>8. ASSUME NEW r \in Endings \ {"discarded"}, NodeFinish(r), Instructed(t) \/ exec = t
      PROVE  UnderWay(t)'
  <2>1. nconn \in Conn /\ r \in Result
    BY <1>8, TaskAssumption DEF NodeFinish, TypeInv, LocalsOK
  <2>0. PICK u \in Task : u = exec
    BY <1>8 DEF NodeFinish
  <2>2. link[nconn] # "down"
    <3>1. ~\E v \in Task : NodeStart(v)
      BY <1>8 DEF NodeFinish, NodeStart, TakeInstruction
    <3> QED BY <3>1 DEF Loses, SendsToNobody
  <2>3. Answered(u)'
    BY <1>3, <1>8, <2>0, <2>1, <2>2 DEF NodeFinish
  <2>4. nconn' = nconn /\ down' = down
    BY <1>8 DEF NodeFinish
  <2> QED BY <1>8, <2>0, <2>3, <2>4 DEF Instructed, UnderWay
<1> QED BY <1>2, <1>5, <1>6, <1>7, <1>8 DEF NodeStep, UnderWay


(* What is under way stays so until its outcome is recorded. *)
LEMMA UnderWayKept ==
    ASSUME TypeInv, SeenRecorded, [Next]_vars, ~Loses, NEW t \in Task, UnderWay(t)
    PROVE  UnderWay(t)' \/ task'[t] \in Terminal
<1> USE DeliveryTypes
<1>1. ASSUME NEW c \in Conn, CompleteTask(c)
      PROVE  UnderWay(t)' \/ task'[t] \in Terminal
  <2>1. UNCHANGED <<nconn, exec, down, up, cur>> /\ pc' = [pc EXCEPT ![c] = "notify"]
    BY <1>1 DEF CompleteTask, Goto
  <2>2. CASE pc[c] = "complete" /\ cur[c] = t
    <3>1. task' = [task EXCEPT ![t] = StateOf(got[c])] /\ StateOf(got[c]) \in Outcome
      BY <1>1, <2>2, StateOfType DEF CompleteTask, TypeInv, LocalsOK
    <3> QED BY <3>1 DEF Terminal
  <2>3. CASE cur[c] # t
    BY <2>1, <2>3 DEF UnderWay, Instructed, Answered, Recording
  <2> QED BY <1>1, <2>2, <2>3 DEF CompleteTask
<1>2. ASSUME NEW p \in Proc, Push(p), \A c \in Conn : ~ReadResult(c) /\ ~CompleteTask(c)
      PROVE  UnderWay(t)'
  <2>1. CASE Instructed(t) \/ exec = t
    <3>1. /\ UNCHANGED <<nconn, exec>> /\ cur[p] \in Task
          /\ down' = [down EXCEPT ![dst[p]] = Append(@, cur[p])]
      BY <1>2 DEF Push, TypeInv, LocalsOK
    <3>2. ASSUME nconn \in Conn, HasTask(t, down[nconn])
          PROVE  HasTask(t, down'[nconn])
      BY <3>1, <3>2, AppendHas
    <3> QED BY <2>1, <3>1, <3>2 DEF Instructed, UnderWay
  <2>2. CASE Answered(t)
    BY <1>2, <2>2, ResultKept DEF Answered, UnderWay, Loses
  <2>3. CASE Recording(t)
    BY <1>2, <2>3, RecordGoesOn DEF Recording, UnderWay, Loses
  <2> QED BY <2>1, <2>2, <2>3 DEF UnderWay
<1>3. ASSUME \/ NodeDrop \/ NodeCrash \/ \E c \in Conn : Dial(c),
             \A c \in Conn : ~ReadResult(c) /\ ~CompleteTask(c)
      PROVE  UnderWay(t)'
  <2>1. ~Instructed(t) /\ exec # t
    <3>1. CASE \E c \in Conn : Dial(c)
      BY <3>1 DEF Dial, Instructed
    <3>2. CASE nconn \in Conn /\ nconn' = NoConn
      <4>1. down[nconn] = <<>> /\ exec = NoTask
        BY <3>2 DEF Loses, DropsInstruction
      <4>2. ~HasTask(t, <<>>)
        BY DEF HasTask
      <4> QED BY <4>1, <4>2 DEF Instructed
    <3>3. CASE nconn \notin Conn
      BY <3>3 DEF Instructed, TypeInv, LocalsOK
    <3> QED BY <1>3, <3>1, <3>2, <3>3 DEF NodeDrop, NodeCrash
  <2>2. CASE Answered(t)
    BY <1>3, <2>2, ResultKept DEF Answered, UnderWay, Loses
  <2>3. CASE Recording(t)
    BY <1>3, <2>3, RecordGoesOn DEF Recording, UnderWay, Loses
  <2> QED BY <2>1, <2>2, <2>3 DEF UnderWay
<1> QED
  BY <1>1, <1>2, <1>3, ReadKeeps, NodeKeeps, UnderWayApart, NodeSteps DEF Loses

(* Submit is the only step before a row, and it makes it queued; MarkSent  *)
(* marks what was offered, and what is offered goes to the node's end. *)
LEMMA OfferedStep ==
    ASSUME TypeInv, Provenance, DeliveryInv, [Next]_vars, ~Loses
    PROVE  SentOffered' /\ OfferedUnderWay'
<1> USE DeliveryTypes
<1>1. ASSUME NEW t \in offered
      PROVE  UnderWay(t)' \/ task'[t] \in Terminal
  <2>1. t \in Task
    OBVIOUS
  <2>2. UnderWay(t) \/ task[t] \in Terminal
    BY DEF DeliveryInv, OfferedUnderWay
  <2> QED BY <2>1, <2>2, UnderWayKept, TerminalKept DEF DeliveryInv, Loses
<1>2. CASE UNCHANGED <<task, offered>>
  BY <1>1, <1>2 DEF DeliveryInv, SentOffered, OfferedUnderWay
<1>3. ASSUME NEW u \in Task, Submit(u)
      PROVE  SentOffered' /\ offered' = offered
  BY <1>3 DEF Submit, DeliveryInv, SentOffered
<1>4. ASSUME NEW p \in Proc, Push(p)
      PROVE  SentOffered' /\ OfferedUnderWay'
  <2>1. /\ offered' = offered \cup {cur[p]} /\ task' = task /\ cur[p] \in Task
        /\ dst[p] \in Conn /\ nconn' = nconn
        /\ down' = [down EXCEPT ![dst[p]] = Append(@, cur[p])]
    BY <1>4 DEF Push, TypeInv, LocalsOK
  <2>2. dst[p] = nconn
    BY <1>4 DEF Loses, SendsToNobody
  <2>3. ASSUME NEW u \in Task, u = cur[p]
        PROVE  UnderWay(u)'
    <3>1. HasTask(u, down'[nconn])
      BY <2>1, <2>2, <2>3, AppendHas
    <3> QED BY <2>1, <2>2, <3>1 DEF Instructed, UnderWay
  <2> QED BY <1>1, <2>1, <2>3 DEF DeliveryInv, SentOffered, OfferedUnderWay
<1>5. ASSUME NEW p \in Proc, MarkSent(p)
      PROVE  SentOffered' /\ offered' = offered
  <2>1. cur[p] \in offered
    BY <1>5 DEF MarkSent, Provenance, SendTraced
  <2> QED BY <1>5, <2>1 DEF MarkSent, DeliveryInv, SentOffered
<1>6. ASSUME NEW c \in Conn, NEW u \in Task, FlushExpire(c, u)
      PROVE  SentOffered' /\ offered' = offered
  BY <1>6 DEF FlushExpire, DeliveryInv, SentOffered
<1>7. ASSUME NEW c \in Conn, CompleteTask(c)
      PROVE  SentOffered' /\ offered' = offered
  <2>1. StateOf(got[c]) # "sent"
    BY <1>7, StateOfType DEF CompleteTask, TypeInv, LocalsOK
  <2> QED BY <1>7, <2>1 DEF CompleteTask, DeliveryInv, SentOffered
<1>8. offered' = offered => OfferedUnderWay'
  BY <1>1 DEF OfferedUnderWay
<1> QED BY <1>2, <1>3, <1>4, <1>5, <1>6, <1>7, <1>8, TaskSteps

LEMMA SeenStep ==
    ASSUME TypeInv, DeliveryInv, [Next]_vars, ~Loses
    PROVE  SeenRecorded'
<1> USE DeliveryTypes
<1>1. ASSUME NEW t \in seen
      PROVE  task'[t] \in Terminal \/ \E c \in Conn : pc'[c] = "complete" /\ cur'[c] = t
  <2>1. CASE task[t] \in Terminal
    BY <2>1, TerminalKept DEF Loses
  <2>2. ASSUME NEW c \in Conn, pc[c] = "complete", cur[c] = t
        PROVE  task'[t] \in Terminal \/ (pc'[c] = "complete" /\ cur'[c] = t)
    <3>1. CASE CompleteTask(c)
      <4>1. task' = [task EXCEPT ![t] = StateOf(got[c])] /\ StateOf(got[c]) \in Outcome
        BY <2>2, <3>1, StateOfType DEF CompleteTask, TypeInv, LocalsOK
      <4> QED BY <4>1 DEF Terminal
    <3>2. CASE ~CompleteTask(c)
      BY <2>2, <3>2, RecordGoesOn DEF Loses
    <3> QED BY <3>1, <3>2
  <2> QED BY <2>1, <2>2 DEF DeliveryInv, SeenRecorded
<1>2. ASSUME NEW c \in Conn, MarkSeen(c)
      PROVE  SeenRecorded'
  <2>1. /\ pc'[c] = "complete" /\ cur' = cur
        /\ seen' \subseteq seen \cup {cur[c]}
    BY <1>2 DEF MarkSeen, Goto
  <2> QED BY <1>1, <2>1 DEF SeenRecorded
<1>3. CASE ManagerCrash
  BY <1>3 DEF ManagerCrash, SeenRecorded
<1>4. CASE ~ManagerCrash /\ \A c \in Conn : ~MarkSeen(c)
  <2>1. seen' = seen
    BY <1>4, OnlyMarked
  <2> QED BY <1>1, <2>1 DEF SeenRecorded
<1> QED BY <1>2, <1>3, <1>4

(* docs/design/01-protocol.md: delivery is at least once.  The dispatcher  *)
(* does not keep this (SentIsAnswered fails), but the five losses named    *)
(* above are all that is wrong: as long as none happens, every task marked *)
(* sent has its instruction or its result somewhere, whatever connections  *)
(* are replaced, windows overflow and duplicates are dropped meanwhile.    *)
THEOREM SentUnderWay == Spec /\ [][~Loses]_vars => []SentIsUnderWay
<1>1. Init => DeliveryInv
  BY DEF Init, DeliveryInv, SentOffered, OfferedUnderWay, SeenRecorded
<1>2. TypeInv /\ Provenance /\ DeliveryInv /\ [Next]_vars /\ [~Loses]_vars => DeliveryInv'
  <2> SUFFICES ASSUME TypeInv, Provenance, DeliveryInv, [Next]_vars, [~Loses]_vars
               PROVE  DeliveryInv'
    OBVIOUS
  <2>1. CASE UNCHANGED vars
    BY <2>1
    DEF vars, DeliveryInv, SentOffered, OfferedUnderWay, SeenRecorded, UnderWay,
        Instructed, Answered, Recording
  <2>2. CASE ~Loses
    BY <2>2, OfferedStep, SeenStep DEF DeliveryInv
  <2> QED BY <2>1, <2>2
<1>3. TypeInv /\ DeliveryInv => SentIsUnderWay
  <2> SUFFICES ASSUME TypeInv, DeliveryInv, NEW t \in Task, task[t] = "sent"
               PROVE  UnderWay(t)
    BY DEF SentIsUnderWay
  <2>1. task[t] \notin Terminal
    BY DEF Terminal
  <2> QED BY <2>1 DEF DeliveryInv, SentOffered, OfferedUnderWay
<1> QED
  BY <1>1, <1>2, <1>3, TypeInvariant, ProvenanceInvariant, PTL DEF Spec

=============================================================================
