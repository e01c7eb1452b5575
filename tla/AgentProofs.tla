---------------------------- MODULE AgentProofs ----------------------------
(***************************************************************************)
(* Proofs about the timing of Agent, for every period, timeout, delay and  *)
(* number of endpoints: its types, that a silent session is reaped in time,*)
(* how long a live node is silent at most, that a kill reaches the process *)
(* group, and that an agent that knows of its disconnection is back soon   *)
(* after the manager is.                                                   *)
(***************************************************************************)
EXTENDS Agent, SequenceTheorems, TLAPS

USE DEF xvars, agentVars, loopVars, mgrVars, histVars

-----------------------------------------------------------------------------
(* Types.                                                                  *)

AgentType ==
    /\ stage \in {"off", "dial", "serve", "sleep"}
    /\ base \in 1..Cap /\ wake \in Nat
    /\ ep \in 1..Endpoints /\ tried \in 0..DialTimeout

LoopType == next \in 1..Heartbeat /\ inbox \in Seq({0})

(* Of the notifications under way none is older than Delay, and they come  *)
(* in the order of their age.                                              *)
Aged(q) == q \in Seq(0..Delay) /\ \A i, j \in 1..Len(q) : i <= j => q[j] <= q[i]

(* Nothing is under way on a link that is not up. *)
LinkType ==
    /\ link \in {"up", "cut", "closed"} /\ Aged(wire)
    /\ link # "up" => wire = <<>>

ManagerType == silent \in Nat \cup {NoSession} /\ reapIn \in 0..ReapPeriod /\ apart \in Nat

(* The agent executes only while it serves, for the default timeout. *)
CommandType ==
    /\ alive \subseteq Process /\ holds \subseteq alive
    /\ limit \in {0, DefaultTimeout} /\ age \in 0 .. limit + 1
    /\ limit # 0 => stage = "serve"

Flags ==
    /\ stopping \in BOOLEAN /\ pending \in BOOLEAN /\ killed \in BOOLEAN
    /\ reachable \in BOOLEAN /\ handler \in BOOLEAN /\ leaving \in BOOLEAN
    /\ overran \in BOOLEAN

Types == AgentType /\ LoopType /\ LinkType /\ ManagerType /\ CommandType

(* Of a queue that is ordered by age, what is left after the oldest, what  *)
(* it is with a new one, and what it is a unit of time later, is too.      *)
LEMMA EmptyAged == Aged(<<>>)
  BY EmptySeq DEF Aged

LEMMA AppendAged ==
    ASSUME NEW q, Aged(q)
    PROVE  Aged(Append(q, 0)) /\ (q # <<>> => Head(Append(q, 0)) = Head(q))
           /\ Append(q, 0) # <<>> /\ (q = <<>> => Head(Append(q, 0)) = 0)
<1>1. 0 \in 0..Delay
  BY ClockAssumption
<1>2. /\ Append(q, 0) \in Seq(0..Delay)
      /\ Len(Append(q, 0)) = Len(q) + 1
      /\ \A i \in 1..Len(q) : Append(q, 0)[i] = q[i]
      /\ Append(q, 0)[Len(q) + 1] = 0
  BY <1>1, AppendProperties DEF Aged
<1>3. Aged(Append(q, 0))
  <2> SUFFICES ASSUME NEW i \in 1..Len(Append(q, 0)), NEW j \in 1..Len(Append(q, 0)), i <= j
               PROVE  Append(q, 0)[j] <= Append(q, 0)[i]
    BY <1>2 DEF Aged
  <2>1. CASE j = Len(q) + 1
    <3>1. Append(q, 0)[i] \in 0..Delay
      BY <1>2, ElementOfSeq DEF Aged
    <3> QED BY <1>2, <2>1, <3>1
  <2>2. CASE j # Len(q) + 1
    <3>1. Len(q) \in Nat
      BY LenProperties DEF Aged
    <3> QED BY <1>2, <2>2, <3>1 DEF Aged
  <2> QED BY <2>1, <2>2
<1> QED BY <1>2, <1>3 DEF Aged

LEMMA TailAged ==
    ASSUME NEW q, Aged(q), q # <<>>
    PROVE  Aged(Tail(q)) /\ Head(q) \in 0..Delay
<1>1. /\ Tail(q) \in Seq(0..Delay)
      /\ Len(Tail(q)) = Len(q) - 1
      /\ \A i \in 1..Len(Tail(q)) : Tail(q)[i] = q[i + 1]
      /\ Head(q) \in 0..Delay
      /\ Len(q) \in Nat
  BY HeadTailProperties, LenProperties DEF Aged
<1> QED BY <1>1 DEF Aged

LEMMA OlderAged ==
    ASSUME NEW q, Aged(q), q # <<>> => Head(q) < Delay
    PROVE  /\ Aged([i \in DOMAIN q |-> q[i] + 1])
           /\ q # <<>> => /\ [i \in DOMAIN q |-> q[i] + 1] # <<>>
                          /\ Head([i \in DOMAIN q |-> q[i] + 1]) = Head(q) + 1
           /\ q = <<>> => [i \in DOMAIN q |-> q[i] + 1] = <<>>
<1> DEFINE r == [i \in DOMAIN q |-> q[i] + 1]
<1>1. Len(q) \in Nat /\ DOMAIN q = 1..Len(q)
  BY LenProperties DEF Aged
<1>2. \A i \in 1..Len(q) : q[i] \in 0..Delay
  BY <1>1, ElementOfSeq DEF Aged
<1>3. \A i \in 1..Len(q) : q[i] + 1 \in 0..Delay
  <2>1. ASSUME NEW i \in 1..Len(q)
        PROVE  q[i] <= q[1] /\ q[1] < Delay
    <3>1. q # <<>> /\ 1 \in 1..Len(q) /\ Head(q) = q[1]
      BY <1>1, EmptySeq DEF Aged
    <3> QED BY <3>1 DEF Aged
  <2> QED BY <1>2, <2>1, ClockAssumption
<1>4. r \in Seq(0..Delay) /\ Len(r) = Len(q)
  <2>1. r \in [1..Len(q) -> 0..Delay]
    BY <1>1, <1>3
  <2>2. r \in Seq(0..Delay)
    BY <1>1, <2>1, IsASeq
  <2> QED BY <1>1, <2>1, <2>2, LenProperties
<1>5. Aged(r)
  BY <1>1, <1>2, <1>4 DEF Aged
<1>6. ASSUME q # <<>>
      PROVE  r # <<>> /\ Head(r) = Head(q) + 1
  <2>1. Len(q) # 0 /\ 1 \in 1..Len(q)
    BY <1>1, <1>6, EmptySeq DEF Aged
  <2>2. Head(q) = q[1] /\ Head(r) = r[1] /\ r[1] = q[1] + 1
    BY <1>1, <2>1
  <2> QED BY <1>4, <2>1, <2>2
<1>7. q = <<>> => r = <<>>
  BY <1>1, <1>4
<1> HIDE DEF r
<1> QED BY <1>5, <1>6, <1>7 DEF r

(* The delays: doubling stays between one and the cap, and the jitter adds *)
(* at most its part of the cap.                                            *)
LEMMA ProductPositive ==
    ASSUME NEW a \in Nat \ {0}, NEW b \in Nat \ {0}
    PROVE  a * b \in Nat \ {0}
  OBVIOUS

LEMMA DoubledType ==
    ASSUME base \in 1..Cap
    PROVE  Doubled(base) \in 1..Cap
<1>1. Factor * base \in Nat \ {0}
  BY ProductPositive, BackoffAssumption
<1> QED BY <1>1, BackoffAssumption DEF Doubled, Smaller

LEMMA FirstDelay == Smaller(Base, Cap) \in 1..Cap
  BY BackoffAssumption DEF Smaller

LEMMA BackoffType ==
    ASSUME AgentType, Backoff(base), UNCHANGED <<ep, tried, stopping>>
    PROVE  AgentType'
  BY DoubledType DEF AgentType, Backoff, Jittered

LEMMA TypesInit == Init => Types
<1>1. Init => AgentType
  BY FirstDelay, DialAssumption DEF Init, AgentType
<1>2. Init => LoopType
  BY ClockAssumption DEF Init, LoopType
<1>3. Init => LinkType
  BY EmptyAged DEF Init, LinkType
<1>4. Init => ManagerType
  BY ClockAssumption DEF Init, ManagerType, NoSession
<1>5. Init => CommandType
  BY DEF Init, XInit, CommandType, Executing
<1> QED BY <1>1, <1>2, <1>3, <1>4, <1>5 DEF Types

(* A process that is gone leaves nothing on its way. *)
LEMMA GoneType ==
    ASSUME Types, NEW how \in {"cut", "closed"}, Gone(how)
    PROVE  Types'
<1>1. AgentType'
  BY DEF Types, AgentType, Gone
<1>2. LoopType'
  BY DEF Types, LoopType, Gone
<1>3. LinkType'
  BY EmptyAged DEF Types, LinkType, Gone
<1>4. ManagerType'
  BY DEF Types, ManagerType, Gone
<1>5. CommandType'
  BY DEF Gone, CommandType, Executing
<1> QED BY <1>1, <1>2, <1>3, <1>4, <1>5 DEF Types

LEMMA AgentTypes ==
    ASSUME Types, AgentStep
    PROVE  Types'
<1>1. CASE Start \/ WakeUp \/ CancelRun \/ CancelServe
  <2>1. Smaller(Base, Cap) \in 1..Cap
    BY FirstDelay
  <2>2. AgentType'
    BY <1>1, <2>1, DialAssumption
    DEF Types, AgentType, Start, WakeUp, CancelRun, CancelServe, StartDial
  <2>3. UNCHANGED <<xvars, loopVars, link, wire, mgrVars>>
    BY <1>1 DEF Start, WakeUp, CancelRun, CancelServe, StartDial
  <2>6. Executing => stage' = stage
    BY <1>1 DEF Start, WakeUp, CancelRun, CancelServe, StartDial, Types, CommandType, Executing
  <2>4. apart' \in Nat
    BY <1>1 DEF Types, ManagerType, Start, WakeUp, CancelRun, CancelServe
  <2>5. LoopType' /\ LinkType' /\ ManagerType' /\ CommandType'
    BY <2>3, <2>4, <2>6 DEF Types, LoopType, LinkType, ManagerType, CommandType, Executing
  <2> QED BY <2>2, <2>5 DEF Types
<1>2. CASE AttemptFails
  <2>1. UNCHANGED <<xvars, loopVars, link, wire, mgrVars, histVars, stopping>> /\ stage = "dial"
    BY <1>2 DEF AttemptFails
  <2>2. AgentType'
    <3>1. CASE ep < Endpoints
      BY <1>2, <3>1, DialAssumption DEF AttemptFails, Types, AgentType
    <3>2. CASE ~(ep < Endpoints)
      BY <1>2, <2>1, <3>2, BackoffType DEF AttemptFails, Types
    <3> QED BY <3>1, <3>2
  <2>3. LoopType' /\ LinkType' /\ ManagerType' /\ CommandType'
    BY <2>1 DEF Types, LoopType, LinkType, ManagerType, CommandType, Executing
  <2> QED BY <2>2, <2>3 DEF Types
<1>3. CASE Connect
  <2>1. AgentType'
    BY <1>3, FirstDelay DEF Connect, Types, AgentType
  <2>2. LoopType' /\ ManagerType'
    BY <1>3, ClockAssumption DEF Connect, Types, LoopType, ManagerType
  <2>3. Aged(<<0>>)
    <3>1. Append(<<>>, 0) = <<0>>
      OBVIOUS
    <3> QED BY <3>1, EmptyAged, AppendAged
  <2>4. LinkType'
    BY <1>3, <2>3 DEF Connect, LinkType
  <2>5. CommandType'
    BY <1>3 DEF Connect, Types, CommandType, Executing
  <2> QED BY <2>1, <2>2, <2>4, <2>5 DEF Types
<1>4. CASE Disconnected
  <2>1. AgentType'
    BY <1>4, BackoffType DEF Disconnected, Types
  <2>2. LoopType'
    BY <1>4 DEF Disconnected, Types, LoopType
  <2>3. LinkType' /\ ManagerType'
    BY <1>4 DEF Disconnected, Types, LinkType, ManagerType
  <2>4. CommandType'
    BY <1>4 DEF Disconnected, Idle, Types, CommandType, Executing
  <2> QED BY <2>1, <2>2, <2>3, <2>4 DEF Types
<1>5. CASE ContextDone \/ Crash
  BY <1>5, GoneType DEF ContextDone, Crash
<1> QED BY <1>1, <1>2, <1>3, <1>4, <1>5 DEF AgentStep

LEMMA ReportType ==
    ASSUME LinkType, Report, UNCHANGED link
    PROVE  LinkType'
  BY AppendAged DEF LinkType, Report

(* The steps of a command keep what is known of it. *)
LEMMA CommandTypes ==
    ASSUME CommandType, CommandStep \/ KillGroup(stopping), UNCHANGED stage
    PROVE  CommandType'
<1>1. ASSUME NEW q \in Process, NEW p \in Process, Spawn(q, p)
      PROVE  CommandType'
  BY <1>1 DEF Spawn, CommandType, Executing, Process
<1>2. ASSUME NEW p \in Process, Exit(p) \/ CloseOutput(p)
      PROVE  CommandType'
  BY <1>2 DEF Exit, CloseOutput, CommandType, Executing
<1>3. CASE KillGroup(stopping)
  BY <1>3 DEF KillGroup, Kill, CommandType, Executing
<1> QED BY <1>1, <1>2, <1>3 DEF CommandStep

LEMMA LoopTypes ==
    ASSUME Types, LoopStep
    PROVE  Types'
<1>1. CASE SendHeartbeat
  <2>1. LinkType'
    BY <1>1, ReportType DEF SendHeartbeat, Types
  <2> QED BY <1>1, <2>1
          DEF SendHeartbeat, Types, AgentType, LoopType, ManagerType,
              CommandType, Executing
<1>2. CASE Answer
  <2>1. LinkType'
    BY <1>2, ReportType DEF Answer, Types
  <2>2. LoopType'
    BY <1>2, HeadTailProperties DEF Answer, Types, LoopType
  <2> QED BY <1>2, <2>1, <2>2
          DEF Answer, Types, AgentType, ManagerType, CommandType, Executing
<1>3. CASE Execute
  <2>1. LoopType' /\ Head(inbox) = 0
    BY <1>3, HeadTailProperties DEF Execute, Types, LoopType
  <2>2. limit' = DefaultTimeout
    BY <1>3, <2>1 DEF Execute, StartShell, Effective
  <2>3. CommandType'
    BY <1>3, <2>2, TimeoutAssumption
    DEF Execute, Idle, StartShell, CommandType, Executing, Process
  <2> QED BY <1>3, <2>1, <2>3
          DEF Execute, Types, AgentType, LinkType, ManagerType
<1>4. CASE Finish
  <2>1. LinkType'
    BY <1>4, ReportType DEF Finish, Types
  <2>2. CommandType'
    BY <1>4 DEF Finish, Return, CommandType, Executing
  <2> QED BY <1>4, <2>1, <2>2
          DEF Finish, Types, AgentType, LoopType, ManagerType
<1>5. CASE Running
  <2>1. CommandType'
    BY <1>5, CommandTypes DEF Running, Types
  <2> QED BY <1>5, <2>1
          DEF Running, Types, AgentType, LoopType, LinkType, ManagerType
<1> QED BY <1>1, <1>2, <1>3, <1>4, <1>5 DEF LoopStep

LEMMA ManagerTypes ==
    ASSUME Types, ManagerStep
    PROVE  Types'
<1>1. ASSUME NEW r \in Requests, Instruct(r)
      PROVE  Types'
  <2>1. LoopType'
    BY <1>1, AppendProperties DEF Instruct, SentTimeout, Types, LoopType
  <2> QED BY <1>1, <2>1
          DEF Instruct, Types, AgentType, LinkType, ManagerType, CommandType,
              Executing
<1>2. CASE Touch
  <2>1. LinkType'
    BY <1>2, TailAged DEF Touch, Types, LinkType
  <2>2. ManagerType'
    BY <1>2 DEF Touch, Overdue, Executing, Types, ManagerType, NoSession
  <2> QED BY <1>2, <2>1, <2>2
          DEF Touch, Types, AgentType, LoopType, CommandType, Executing
<1>3. CASE Reap \/ Leave \/ ManagerDown \/ Cut \/ Recover
  <2>1. LinkType'
    BY <1>3, EmptyAged DEF Reap, Leave, ManagerDown, Cut, Recover, Types, LinkType
  <2>2. ManagerType'
    BY <1>3, ClockAssumption
    DEF Reap, Leave, ManagerDown, Cut, Recover, Types, ManagerType, NoSession
  <2>3. AgentType' /\ LoopType' /\ CommandType'
    BY <1>3
    DEF Reap, Leave, ManagerDown, Cut, Recover, Types, AgentType, LoopType, CommandType,
        Executing
  <2> QED BY <2>1, <2>2, <2>3 DEF Types
<1> QED BY <1>1, <1>2, <1>3 DEF ManagerStep

(* Time passes, as long as nothing is due. *)
LEMMA TickTypes ==
    ASSUME Types, Tick
    PROVE  Types'
<1>1. AgentType'
  BY DialAssumption DEF Tick, NothingDue, Types, AgentType
<1>2. LoopType'
  BY ClockAssumption DEF Tick, TickerRuns, Types, LoopType
<1>3. LinkType'
  <2>1. wire # <<>> => Head(wire) < Delay
    BY DEF Tick, NothingDue, Types, LinkType
  <2> QED BY <2>1, OlderAged DEF Tick, Types, LinkType
<1>4. ManagerType'
  BY ClockAssumption DEF Tick, NothingDue, Types, ManagerType, NoSession
<1>5. CommandType'
  BY DEF Tick, Older, Types, CommandType, Executing
<1> QED BY <1>1, <1>2, <1>3, <1>4, <1>5 DEF Types

LEMMA TypesInvariant == Spec => []Types
<1>1. Types /\ [Next]_vars => Types'
  <2>1. Types /\ UNCHANGED vars => Types'
    BY DEF vars, Types, AgentType, LoopType, LinkType, ManagerType,
           CommandType, Executing
  <2> QED BY <2>1, AgentTypes, LoopTypes, ManagerTypes, TickTypes DEF Next
<1> QED BY <1>1, TypesInit, PTL DEF Spec

(* The flags are flags. *)
LEMMA FlagsInvariant == Spec => []Flags
<1>1. Init => Flags
  BY DEF Init, XInit, Flags
<1>2. Flags /\ [Next]_vars => Flags'
  <2> SUFFICES ASSUME Flags, [Next]_vars PROVE Flags'
    OBVIOUS
  <2>1. CASE AgentStep
    <3>1. ASSUME NEW how, Gone(how) PROVE Flags'
      BY <3>1, Zenon DEF Gone, Flags
    <3>2. CASE Start \/ WakeUp \/ AttemptFails
      BY <3>2, Zenon DEF Start, WakeUp, AttemptFails, Flags
    <3>3. CASE Connect
      BY <3>3, Zenon DEF Connect, Flags
    <3>4. CASE Disconnected \/ CancelRun \/ CancelServe
      BY <3>4, Zenon DEF Disconnected, CancelRun, CancelServe, Flags
    <3>5. CASE ContextDone \/ Crash
      BY <3>1, <3>5, Zenon DEF ContextDone, Crash
    <3> QED BY <2>1, <3>2, <3>3, <3>4, <3>5, Zenon DEF AgentStep
  <2>2. CASE LoopStep
    <3>1. CASE Running
      <4>1. UNCHANGED <<stopping, pending, reachable, handler, leaving, overran>>
        BY <3>1, Zenon DEF Running
      <4>2. killed' \in BOOLEAN
        BY <3>1, Zenon
        DEF Running, CommandStep, Spawn, Exit, CloseOutput, KillGroup, Kill, Flags
      <4> QED BY <4>1, <4>2, Zenon DEF Flags
    <3>2. CASE SendHeartbeat \/ Answer
      BY <3>2, Zenon DEF SendHeartbeat, Answer, Flags
    <3>3. CASE Execute \/ Finish
      BY <3>3, Zenon DEF Execute, StartShell, Finish, Return, Flags
    <3> QED BY <2>2, <3>1, <3>2, <3>3, Zenon DEF LoopStep
  <2>3. CASE ManagerStep
    <3>1. ASSUME NEW r \in Requests, Instruct(r) PROVE Flags'
      BY <3>1, Zenon DEF Instruct, Flags
    <3>2. CASE Touch
      BY <3>2, Zenon DEF Touch, Overdue, Executing, Flags
    <3>3. CASE Reap \/ Leave
      BY <3>3, Zenon DEF Reap, Leave, Flags
    <3>4. CASE ManagerDown \/ Recover
      BY <3>4, Zenon DEF ManagerDown, Recover, Flags
    <3>5. CASE Cut
      BY <3>5, Zenon DEF Cut, Flags
    <3> QED BY <2>3, <3>1, <3>2, <3>3, <3>4, <3>5, Zenon DEF ManagerStep
  <2>4. CASE Tick
    <3>1. pending' \in BOOLEAN
      BY <2>4, Zenon DEF Tick, TickerRuns, Flags
    <3>2. UNCHANGED <<stopping, reachable, handler, leaving>>
      BY <2>4, Zenon DEF Tick
    <3>3. overran' \in BOOLEAN
      BY <2>4, Zenon DEF Tick, Overdue, Executing, Flags
    <3>4. killed' \in BOOLEAN
      BY <2>4, Zenon DEF Tick, Older, Flags
    <3> QED BY <3>1, <3>2, <3>3, <3>4, Zenon DEF Flags
  <2>5. CASE UNCHANGED vars
    BY <2>5, Zenon DEF vars, Flags
  <2> QED BY <2>1, <2>2, <2>3, <2>4, <2>5 DEF Next
<1> QED BY <1>1, <1>2, PTL DEF Spec

(* The timers, queues and delays stay within their bounds. *)
THEOREM AgentTypeCorrect == Spec => []TypeOK
<1>1. Types /\ Flags => TypeOK
  <2> SUFFICES ASSUME Types, Flags PROVE TypeOK
    OBVIOUS
  <2>1. inbox \in Seq(Nat)
    BY SeqMonotonic DEF Types, LoopType
  <2>2. XType
    <3>1. alive \subseteq Process /\ holds \subseteq alive /\ limit \in Nat /\ age \in 0 .. limit + 1
      BY TimeoutAssumption DEF Types, CommandType
    <3> QED BY <3>1, Zenon DEF XType, Flags
  <2> QED BY <2>1, <2>2, Zenon
          DEF Types, TypeOK, AgentType, LoopType, LinkType, Aged, ManagerType, Flags
<1> QED BY <1>1, TypesInvariant, FlagsInvariant, PTL

-----------------------------------------------------------------------------
(* The kill.                                                               *)

(* No process joins a group that was killed, and nobody but a shell that   *)
(* is gone keeps time from standing still at the timeout.                  *)
THEOREM KillsReachGroup == Spec => []KillReachesGroup
<1> USE DEF Group, Executing, Overdue
<1>1. Init => KillReachesGroup
  BY DEF Init, XInit, KillReachesGroup
<1>2. Types /\ KillReachesGroup /\ [Next]_vars => KillReachesGroup'
  <2> SUFFICES ASSUME Types, KillReachesGroup, [Next]_vars PROVE KillReachesGroup'
    OBVIOUS
  <2>1. CASE UNCHANGED xvars
    BY <2>1 DEF KillReachesGroup
  <2>2. ASSUME NEW how, Gone(how) PROVE KillReachesGroup'
    BY <2>2 DEF Gone, KillReachesGroup
  <2>3. CASE Execute
    BY <2>3, TimeoutAssumption DEF Execute, StartShell, Effective, KillReachesGroup
  <2>4. CASE Finish
    BY <2>4 DEF Finish, Return, KillReachesGroup
  <2>5. CASE Running
    <3>1. ASSUME NEW q \in Process, NEW p \in Process, Spawn(q, p)
          PROVE  KillReachesGroup'
      BY <3>1 DEF Spawn, KillReachesGroup
    <3>2. ASSUME NEW p \in Process, Exit(p) \/ CloseOutput(p)
          PROVE  KillReachesGroup'
      BY <3>2 DEF Exit, CloseOutput, KillReachesGroup
    <3>3. CASE KillGroup(stopping)
      BY <3>3 DEF KillGroup, Kill, KillReachesGroup
    <3> QED BY <2>5, <3>1, <3>2, <3>3 DEF Running, CommandStep
  <2>6. CASE Tick
    <3>1. alive' = alive /\ killed' = killed /\ limit' = limit
      BY <2>6 DEF Tick, Older
    <3>2. limit # 0 /\ age' > limit => "shell" \notin alive
      <4>1. limit # 0 /\ "shell" \in alive => age < limit
        BY <2>6 DEF Tick, Older, CancelDue, Types, CommandType
      <4>2. age' \in {age, age + 1} /\ age \in Nat /\ limit \in Nat
        BY <2>6, TimeoutAssumption DEF Tick, Older, Types, CommandType
      <4> QED BY <4>1, <4>2
    <3> QED BY <3>1, <3>2 DEF KillReachesGroup
  <2>7. CASE AgentStep
    BY <2>1, <2>2, <2>7
    DEF AgentStep, Start, WakeUp, AttemptFails, Connect, Disconnected, CancelRun,
        CancelServe, ContextDone, Crash
  <2>8. CASE LoopStep
    BY <2>1, <2>3, <2>4, <2>5, <2>8 DEF LoopStep, SendHeartbeat, Answer
  <2>9. CASE ManagerStep
    BY <2>1, <2>9 DEF ManagerStep, Instruct, Touch, Reap, Leave, ManagerDown, Cut, Recover
  <2> QED BY <2>1, <2>6, <2>7, <2>8, <2>9 DEF Next, vars
<1> QED BY <1>1, <1>2, TypesInvariant, PTL DEF Spec

(* The shell goes, by itself or with its group, and leaves its output open *)
(* in another process.                                                     *)
LeavesOutputOpen == "shell" \in alive /\ "shell" \notin alive' /\ holds' # {}

(* The output ends with the shell, and so does what is executed: in time. *)
InTime == ("shell" \notin alive => holds = {}) /\ ~Overdue

LEMMA InTimeKept ==
    ASSUME InTime, Types,
           \/ UNCHANGED <<alive, holds, limit, age>>
           \/ limit' = 0 /\ holds' = {}
           \/ UNCHANGED <<limit, age>> /\ ("shell" \notin alive' => holds' = {})
    PROVE  InTime'
  BY DEF InTime, Overdue, Executing

(* A process starts another, ends or closes its output. *)
LEMMA InTimeCommand ==
    ASSUME InTime, Types, CommandStep, ~LeavesOutputOpen
    PROVE  InTime'
<1>1. UNCHANGED <<limit, age>>
  BY DEF CommandStep, Spawn, Exit, CloseOutput
<1>2. ASSUME "shell" \notin alive'
      PROVE  holds' = {}
  <2>1. CASE "shell" \in alive
    BY <1>2, <2>1 DEF LeavesOutputOpen
  <2>2. CASE "shell" \notin alive
    <3>1. holds = {}
      BY <2>2 DEF InTime
    <3> QED BY <3>1 DEF CommandStep, Spawn, Exit, CloseOutput
  <2> QED BY <2>1, <2>2
<1> QED BY <1>1, <1>2, InTimeKept

(* internal/protocol/instruction.go: "Node force-kills on overrun".  It is *)
(* so unless the shell leaves its output open in another process: nothing  *)
(* else lets an execution pass its timeout.                                *)
THEOREM OverrunsAreKilled == Spec /\ [][~LeavesOutputOpen]_vars => []OverrunIsKilled
<1>1. Init => InTime
  BY DEF Init, XInit, InTime, Overdue, Executing
<1>2. ASSUME InTime, Types, [Next]_vars, [~LeavesOutputOpen]_vars
      PROVE  InTime'
  <2>1. CASE UNCHANGED xvars
    BY <1>2, <2>1, InTimeKept
  <2>2. ASSUME NEW how, Gone(how)
        PROVE  InTime'
    BY <1>2, <2>2, InTimeKept DEF Gone
  <2>3. CASE Execute
    BY <2>3, TimeoutAssumption DEF Execute, StartShell, Effective, InTime, Overdue, Executing
  <2>4. CASE Finish
    BY <1>2, <2>4, InTimeKept DEF Finish, Return
  <2>5. CASE Running
    <3>1. CASE KillGroup(stopping)
      <4>1. UNCHANGED <<limit, age>> /\ "shell" \notin alive' /\ "shell" \in alive
        BY <3>1 DEF KillGroup, Kill, CancelDue, Group
      <4>2. holds' = {}
        BY <1>2, <4>1 DEF LeavesOutputOpen, vars
      <4> QED BY <1>2, <4>1, <4>2, InTimeKept
    <3>2. CASE CommandStep
      <4>1. CASE ~LeavesOutputOpen
        BY <1>2, <3>2, <4>1, InTimeCommand
      <4>2. CASE UNCHANGED vars
        BY <2>1, <4>2 DEF vars
      <4> QED BY <1>2, <4>1, <4>2
    <3> QED BY <2>5, <3>1, <3>2 DEF Running
  <2>6. CASE Tick
    <3>1. UNCHANGED <<alive, holds, limit>> /\ age' \in {age, age + 1}
      BY <2>6 DEF Tick, Older
    <3>2. age \in Nat /\ limit \in Nat
      BY <1>2, TimeoutAssumption DEF Types, CommandType
    <3>3. limit # 0 => age < limit
      <4>1. limit # 0 => ~("shell" \notin alive /\ holds = {})
        BY <2>6 DEF Tick, Older, Finished, Executing
      <4>2. limit # 0 => "shell" \in alive
        BY <1>2, <4>1 DEF InTime
      <4> QED BY <2>6, <3>2, <4>2 DEF Tick, Older, CancelDue, Executing
    <3> QED BY <1>2, <3>1, <3>2, <3>3 DEF InTime, Overdue, Executing
  <2>7. CASE AgentStep
    BY <2>1, <2>2, <2>7
    DEF AgentStep, Start, WakeUp, AttemptFails, Connect, Disconnected, CancelRun,
        CancelServe, ContextDone, Crash
  <2>8. CASE ManagerStep
    BY <2>1, <2>8
    DEF ManagerStep, Instruct, Touch, Reap, Leave, ManagerDown, Cut, Recover
  <2>9. LoopStep => Execute \/ Finish \/ Running \/ UNCHANGED xvars
    BY DEF LoopStep, SendHeartbeat, Answer
  <2>10. UNCHANGED vars => UNCHANGED xvars
    BY DEF vars
  <2> QED BY <1>2, <2>1, <2>3, <2>4, <2>5, <2>6, <2>7, <2>8, <2>9, <2>10 DEF Next
<1>3. InTime => OverrunIsKilled
  BY DEF InTime, OverrunIsKilled
<1> QED BY <1>1, <1>2, <1>3, TypesInvariant, PTL DEF Spec

-----------------------------------------------------------------------------
(* The reaper.                                                             *)

(* The silence of a session and the time to the next look at it together   *)
(* never grow beyond the limit and one period.                             *)
SilenceInv == silent # NoSession => silent + reapIn <= OfflineLimit + ReapPeriod

LEMMA SilenceInvariant == Spec => []SilenceInv
<1> USE ClockAssumption DEF NoSession
<1>1. Init => SilenceInv
  BY DEF Init, SilenceInv
<1>2. Types /\ SilenceInv /\ [Next]_vars => SilenceInv'
  <2> SUFFICES ASSUME Types, SilenceInv, [Next]_vars PROVE SilenceInv'
    OBVIOUS
  <2>1. silent \in Nat \cup {-1} /\ reapIn \in 0..ReapPeriod
    BY DEF Types, ManagerType
  <2>2. CASE (silent' = silent \/ silent' = 0 \/ silent' = -1) /\ reapIn' = reapIn
    BY <2>1, <2>2 DEF SilenceInv
  <2>3. CASE Reap
    BY <2>1, <2>3 DEF Reap, Stale, SilenceInv
  <2>4. CASE Tick
    <3>1. /\ silent' = IF silent = -1 THEN -1 ELSE silent + 1
          /\ reapIn' = reapIn - 1
      BY <2>4 DEF Tick
    <3> QED BY <2>1, <3>1 DEF SilenceInv
  <2>5. CASE AgentStep
    BY <2>2, <2>5
    DEF AgentStep, Start, WakeUp, AttemptFails, Connect, Disconnected, CancelRun,
        CancelServe, ContextDone, Crash, Gone
  <2>6. CASE LoopStep
    BY <2>2, <2>6 DEF LoopStep, SendHeartbeat, Answer, Execute, Finish, Running
  <2>7. CASE ManagerStep
    BY <2>2, <2>3, <2>7 DEF ManagerStep, Instruct, Touch, Leave, ManagerDown, Cut, Recover
  <2>8. CASE UNCHANGED vars
    BY <2>2, <2>8 DEF vars
  <2> QED BY <2>4, <2>5, <2>6, <2>7, <2>8 DEF Next
<1> QED BY <1>1, <1>2, TypesInvariant, PTL DEF Spec

(* A registered session that has gone silent is closed within one period   *)
(* of the reaper after its limit.                                          *)
THEOREM SilentAreReaped == Spec => []SilentIsReaped
<1>1. Types /\ SilenceInv => SilentIsReaped
  BY ClockAssumption DEF Types, ManagerType, SilenceInv, SilentIsReaped, NoSession
<1> QED BY <1>1, TypesInvariant, SilenceInvariant, PTL

-----------------------------------------------------------------------------
(* The session of a live node.                                             *)

(* The longest a live node may have been silent where its loop stands, and *)
(* hence how long before its oldest notification under way it was sent the *)
(* one before.                                                             *)
Quiet == IF Executing THEN Heartbeat + age
         ELSE IF pending THEN Heartbeat
         ELSE Heartbeat - next

Beats ==
    Live => IF wire = <<>> THEN silent <= Quiet
            ELSE silent <= Head(wire) + Heartbeat + DefaultTimeout

LiveInv == Beats /\ (~overran => ~Overdue)

(* The silence of a live node was never longer than a heartbeat period and *)
(* one execution.                                                          *)
LEMMA QuietBound ==
    ASSUME Types, ~overran => ~Overdue, ~overran
    PROVE  Quiet \in Nat /\ Quiet <= Heartbeat + DefaultTimeout
  BY ClockAssumption, TimeoutAssumption
  DEF Types, CommandType, LoopType, Overdue, Executing, Quiet

(* A session just touched meets every bound. *)
LEMMA JustTouched == Types /\ (~overran => ~Overdue) /\ silent = 0 => LiveInv
<1> SUFFICES ASSUME Types, ~overran => ~Overdue, silent = 0, ~overran
             PROVE  Beats
  BY DEF LiveInv, Beats, Live
<1>1. Quiet \in Nat
  BY QuietBound
<1>2. wire # <<>> => Head(wire) \in Nat
  <2>1. wire # <<>> => Head(wire) \in 0..Delay
    BY TailAged DEF Types, LinkType
  <2> QED BY <2>1, ClockAssumption
<1> QED BY <1>1, <1>2, ClockAssumption, TimeoutAssumption DEF Beats

LEMMA JustTouchedNext ==
    Types' /\ (~overran => ~Overdue)' /\ (silent = 0)' => LiveInv'
  BY JustTouched, PTL

(* Steps that neither report nor let time pass. *)
LEMMA BeatsKept ==
    ASSUME LiveInv, UNCHANGED <<wire, silent, overran>>, ~overran => ~Overdue',
           Live' => Live /\ Quiet <= Quiet' /\ Quiet \in Int /\ Quiet' \in Int /\ silent \in Int
    PROVE  LiveInv'
  BY DEF LiveInv, Beats, Live

(* A report on a link that had nothing under way is due to the bound.      *)
LEMMA Reported ==
    ASSUME Types, LiveInv, Report, UNCHANGED <<silent, overran, link>>, ~overran => ~Overdue',
           Live' => Live
    PROVE  LiveInv'
<1>1. CASE ~Live'
  BY <1>1 DEF LiveInv, Beats
<1>2. CASE Live'
  <2>1. Live /\ link = "up" /\ ~overran
    BY <1>2 DEF Live
  <2>2. wire' = Append(wire, 0)
    BY <2>1 DEF Report
  <2>3. /\ wire' # <<>>
        /\ IF wire = <<>> THEN Head(wire') = 0 ELSE Head(wire') = Head(wire)
    BY <2>2, AppendAged DEF Types, LinkType
  <2>4. CASE wire = <<>>
    <3>1. silent <= Quiet
      BY <2>1, <2>4 DEF LiveInv, Beats
    <3>2. Quiet \in Nat /\ Quiet <= Heartbeat + DefaultTimeout /\ silent \in Nat
      BY <2>1, QuietBound DEF LiveInv, Live, Types, ManagerType
    <3>3. silent' <= Head(wire') + Heartbeat + DefaultTimeout
      BY <2>3, <2>4, <3>1, <3>2, ClockAssumption, TimeoutAssumption
    <3> QED BY <2>3, <3>3 DEF LiveInv, Beats
  <2>5. CASE wire # <<>>
    BY <2>1, <2>3, <2>5 DEF LiveInv, Beats
  <2> QED BY <2>4, <2>5
<1> QED BY <1>1, <1>2

LEMMA LiveAgent ==
    ASSUME Types, Types', LiveInv, AgentStep
    PROVE  LiveInv'
<1>1. CASE Connect
  <2>1. (~overran => ~Overdue)' /\ silent' = 0
    BY <1>1 DEF Connect, Types, CommandType, LiveInv, Overdue, Executing
  <2> QED BY <2>1, JustTouchedNext
<1>2. ASSUME NEW how, Gone(how)
      PROVE  LiveInv'
  BY <1>2 DEF Gone, LiveInv, Beats, Live, Overdue, Executing
<1>3. CASE Start \/ WakeUp \/ AttemptFails \/ Disconnected \/ CancelRun
  <2>1. UNCHANGED <<overran, xvars>> /\ stage' # "serve"
    BY <1>3 DEF Start, WakeUp, AttemptFails, Disconnected, CancelRun, StartDial, Backoff
  <2> QED BY <2>1 DEF LiveInv, Beats, Live, Overdue, Executing
<1>4. CASE CancelServe
  <2>1. UNCHANGED <<stage, link, wire, silent, overran, xvars, next, pending>>
    BY <1>4 DEF CancelServe
  <2> QED BY <2>1 DEF LiveInv, Beats, Live, Quiet, Overdue, Executing
<1> QED BY <1>1, <1>2, <1>3, <1>4 DEF AgentStep, ContextDone, Crash

LEMMA LiveLoop ==
    ASSUME Types, Types', LiveInv, LoopStep
    PROVE  LiveInv'
<1>1. CASE SendHeartbeat \/ Answer
  <2>1. Report /\ UNCHANGED <<silent, overran, link, stage, xvars>>
    BY <1>1 DEF SendHeartbeat, Answer
  <2> QED BY <2>1, Reported DEF LiveInv, Live, Overdue, Executing
<1>2. CASE Finish
  <2>1. Report /\ UNCHANGED <<silent, overran, link, stage>> /\ ~Overdue'
    BY <1>2 DEF Finish, Return, Overdue, Executing
  <2> QED BY <2>1, Reported DEF Live
<1>3. CASE Execute
  <2>1. /\ UNCHANGED <<wire, silent, overran, link, stage, next, pending>>
        /\ ~Executing /\ limit' # 0 /\ age' = 0 /\ ~Overdue'
    BY <1>3, TimeoutAssumption
    DEF Execute, Idle, StartShell, Effective, Overdue, Executing
  <2>2. Quiet \in Int /\ Quiet' = Heartbeat /\ Quiet <= Heartbeat
    BY <2>1, ClockAssumption DEF Quiet, Executing, Types, LoopType
  <2>3. silent \in Int
    BY DEF Types, ManagerType, NoSession
  <2> QED BY <2>1, <2>2, <2>3, BeatsKept, ClockAssumption DEF Live
<1>4. CASE Running
  <2>1. UNCHANGED <<wire, silent, overran, link, stage, next, pending, limit, age>>
    BY <1>4 DEF Running, CommandStep, Spawn, Exit, CloseOutput, KillGroup, Kill
  <2> QED BY <2>1 DEF LiveInv, Beats, Live, Quiet, Overdue, Executing
<1> QED BY <1>1, <1>2, <1>3, <1>4 DEF LoopStep

LEMMA LiveManager ==
    ASSUME Types, Types', LiveInv, ManagerStep
    PROVE  LiveInv'
<1>1. CASE Touch
  <2>1. (~overran => ~Overdue)'
    BY <1>1 DEF Touch, Overdue, Executing
  <2>2. CASE silent = NoSession
    BY <1>1, <2>1, <2>2 DEF Touch, LiveInv, Beats, Live
  <2>3. CASE silent # NoSession
    <3>1. silent' = 0
      BY <1>1, <2>3 DEF Touch
    <3> QED BY <2>1, <3>1, JustTouchedNext
  <2> QED BY <2>2, <2>3
<1>2. ASSUME NEW r \in Requests, Instruct(r)
      PROVE  LiveInv'
  <2>1. UNCHANGED <<wire, silent, overran, link, stage, next, pending, limit, age>>
    BY <1>2 DEF Instruct
  <2> QED BY <2>1 DEF LiveInv, Beats, Live, Quiet, Overdue, Executing
<1>3. CASE Reap \/ Leave \/ ManagerDown \/ Cut \/ Recover
  <2>1. UNCHANGED <<stage, next, pending, limit, age, overran>>
    BY <1>3 DEF Reap, Leave, ManagerDown, Cut, Recover
  <2>2. \/ UNCHANGED <<silent, link, wire>>
        \/ silent' = NoSession
        \/ link' # "up"
    BY <1>3 DEF Reap, Leave, ManagerDown, Cut, Recover
  <2> QED BY <2>1, <2>2 DEF LiveInv, Beats, Live, Quiet, Overdue, Executing
<1> QED BY <1>1, <1>2, <1>3 DEF ManagerStep

(* A unit of time is a unit of silence, of the oldest notification's age,  *)
(* of the execution or of the wait for the ticker.                         *)
LEMMA LiveTick ==
    ASSUME Types, Types', LiveInv, Tick
    PROVE  LiveInv'
<1>1. overran' = (overran \/ Overdue') /\ UNCHANGED <<stage, link, limit>>
  BY DEF Tick, Older
<1>2. (~overran => ~Overdue)'
  BY <1>1
<1>3. ASSUME Live'
      PROVE  Beats'
  <2>1. silent # NoSession /\ silent' = silent + 1 /\ silent \in Nat
    BY <1>3 DEF Tick, Live, Types, ManagerType
  <2>2. Live /\ ~Overdue' /\ stage = "serve" /\ link = "up"
    BY <1>1, <1>3, <2>1 DEF Live
  <2>3. CASE wire # <<>>
    <3>1. wire' # <<>> /\ Head(wire') = Head(wire) + 1 /\ Head(wire) \in Nat
      <4>1. Head(wire) < Delay /\ Head(wire) \in 0..Delay
        BY <2>2, <2>3, TailAged DEF Tick, NothingDue, Types, LinkType
      <4> QED BY <2>3, <4>1, OlderAged, ClockAssumption DEF Tick, Types, LinkType
    <3>2. silent <= Head(wire) + Heartbeat + DefaultTimeout
      BY <2>2, <2>3 DEF LiveInv, Beats
    <3> QED BY <2>1, <3>1, <3>2, ClockAssumption, TimeoutAssumption DEF Beats
  <2>4. CASE wire = <<>>
    <3>1. wire' = <<>>
      BY <2>4, OlderAged DEF Tick, Types, LinkType
    <3>2. silent <= Quiet
      BY <2>2, <2>4 DEF LiveInv, Beats
    <3>3. CASE Executing
      <4>1. age \in Nat /\ age <= limit
        BY <2>2, <3>3, TimeoutAssumption
        DEF LiveInv, Live, Overdue, Executing, Types, CommandType
      <4>2. age' = age + 1
        BY <3>3, <4>1 DEF Tick, Older
      <4>3. Quiet = Heartbeat + age /\ Quiet' = Heartbeat + age'
        BY <1>1, <3>3 DEF Quiet, Executing
      <4> QED BY <2>1, <3>1, <3>2, <4>1, <4>2, <4>3, ClockAssumption DEF Beats
    <3>4. CASE ~Executing
      <4>1. ~pending
        BY <2>2, <3>4 DEF Tick, NothingDue, Idle
      <4>2. Quiet = Heartbeat - next /\ next \in 1..Heartbeat
        BY <3>4, <4>1 DEF Quiet, Types, LoopType
      <4>3. CASE next = 1
        <5>1. pending' = TRUE
          BY <2>2, <4>3 DEF Tick, TickerRuns
        <5>2. Quiet' = Heartbeat
          BY <1>1, <3>4, <5>1 DEF Quiet, Executing
        <5> QED BY <2>1, <3>1, <3>2, <4>2, <4>3, <5>2, ClockAssumption DEF Beats
      <4>4. CASE next # 1
        <5>1. pending' = pending /\ next' = next - 1
          BY <2>2, <4>4 DEF Tick, TickerRuns
        <5>2. Quiet' = Heartbeat - next'
          BY <1>1, <3>4, <4>1, <5>1 DEF Quiet, Executing
        <5> QED BY <2>1, <3>1, <3>2, <4>2, <5>1, <5>2, ClockAssumption DEF Beats
      <4> QED BY <4>3, <4>4
    <3> QED BY <3>3, <3>4
  <2> QED BY <2>3, <2>4
<1> QED BY <1>2, <1>3 DEF LiveInv, Beats

LEMMA LiveInvariant == Spec => []LiveInv
<1>1. Init => LiveInv
  BY DEF Init, XInit, LiveInv, Beats, Live, Overdue, Executing
<1>2. Types /\ Types' /\ LiveInv /\ [Next]_vars => LiveInv'
  <2>1. LiveInv /\ UNCHANGED vars => LiveInv'
    BY DEF vars, LiveInv, Beats, Live, Quiet, Overdue, Executing
  <2> QED BY <2>1, LiveAgent, LiveLoop, LiveManager, LiveTick DEF Next
<1> QED BY <1>1, <1>2, TypesInvariant, PTL DEF Spec

(* The silence of a node whose link is up and whose command is within its  *)
(* timeout is bounded by a heartbeat period, an execution and the time a   *)
(* notification takes: the least limit that would spare it.                *)
THEOREM LiveAreHeard == Spec => []LiveIsHeard
<1>1. Types /\ LiveInv => LiveIsHeard
  <2> SUFFICES ASSUME Types, LiveInv, Live
               PROVE  silent <= Heartbeat + DefaultTimeout + Delay
    BY DEF LiveIsHeard
  <2>1. silent \in Nat
    BY DEF Live, Types, ManagerType
  <2>2. CASE wire = <<>>
    <3>1. silent <= Quiet /\ Quiet \in Nat /\ Quiet <= Heartbeat + DefaultTimeout
      BY <2>2, QuietBound DEF LiveInv, Beats, Live
    <3> QED BY <2>1, <3>1, ClockAssumption, TimeoutAssumption
  <2>3. CASE wire # <<>>
    <3>1. silent <= Head(wire) + Heartbeat + DefaultTimeout /\ Head(wire) \in 0..Delay
      BY <2>3, TailAged DEF LiveInv, Beats, Types, LinkType
    <3> QED BY <2>1, <3>1, ClockAssumption, TimeoutAssumption
  <2> QED BY <2>2, <2>3
<1> QED BY <1>1, TypesInvariant, LiveInvariant, PTL

-----------------------------------------------------------------------------
(* Coming back.                                                            *)

(* The time the agent spends on k endpoints at most. *)
Dialing(k) == k * DialTimeout

(* How long the agent has been away, for a served endpoint s.  It can miss *)
(* s only with an attempt that began before the manager could be reached;  *)
(* after that it fails at the endpoints behind s at most, sleeps once, and *)
(* comes to s again.                                                       *)
AwayInv(s) ==
    /\ ~reachable \/ stage \in {"off", "serve"} => apart = 0
    /\ stage = "dial" =>
           IF ep <= s
           THEN apart <= Dialing(Endpoints - s + 1) + MaxDelay + Dialing(ep - 1) + tried
           ELSE apart <= Dialing(ep - s) + tried
    /\ stage = "sleep" =>
           wake <= MaxDelay /\ apart + wake <= Dialing(Endpoints - s + 1) + MaxDelay

LEMMA DialingSums ==
    /\ \A k \in Int : k >= 0 => Dialing(k) \in Nat
    /\ \A k, l \in Nat : Dialing(k + l) = Dialing(k) + Dialing(l)
    /\ Dialing(0) = 0 /\ Dialing(1) = DialTimeout
  BY DialAssumption DEF Dialing

(* No delay is longer than the cap and its jitter. *)
LEMMA DelayBound ==
    ASSUME NEW b \in 1..Cap, NEW d \in Jittered(b)
    PROVE  d \in Nat /\ d <= MaxDelay
<1>1. d \in Nat /\ 100 * d <= (100 + Jitter) * b
  BY BackoffAssumption DEF Jittered
<1>2. (100 + Jitter) * b <= (100 + Jitter) * Cap
  BY BackoffAssumption
<1>3. (100 + Jitter) * Cap \in Nat /\ (100 + Jitter) * b \in Nat
  BY BackoffAssumption
<1>4. 100 * d <= (100 + Jitter) * Cap
  BY <1>1, <1>2, <1>3
<1> DEFINE m == (100 + Jitter) * Cap
<1> HIDE DEF m
<1>5. m \in Nat /\ 100 * d <= m => d <= m \div 100
  BY <1>1
<1> QED BY <1>1, <1>3, <1>4, <1>5 DEF m, MaxDelay

LEMMA MaxDelayNat == MaxDelay \in Nat
<1>1. (100 + Jitter) * Cap \in Nat
  BY BackoffAssumption
<1> QED BY <1>1 DEF MaxDelay

LEMMA SumBound ==
    ASSUME NEW a \in Nat, NEW w \in Nat, NEW r \in Nat, NEW m \in Nat, a <= r, w <= m
    PROVE  a + w <= r + m
  OBVIOUS

LEMMA DistanceDials ==
    ASSUME NEW k \in Nat, NEW l \in Nat, k >= 1
    PROVE  (k <= l => Dialing(k - 1) \in Nat) /\ (~(k <= l) => Dialing(k - l) \in Nat)
<1>1. /\ k - 1 \in Int /\ k - 1 >= 0
      /\ ~(k <= l) => k - l \in Int /\ k - l >= 0
  OBVIOUS
<1> QED BY <1>1, DialingSums

LEMMA AwayTypes ==
    ASSUME NEW s \in Serving, Types
    PROVE  /\ s \in 1..Endpoints /\ Endpoints \in Nat /\ DialTimeout \in Nat
           /\ Dialing(Endpoints - s + 1) \in Nat /\ MaxDelay \in Nat
           /\ ep \in 1..Endpoints /\ tried \in 0..DialTimeout
           /\ apart \in Nat /\ wake \in Nat
<1>1. s \in 1..Endpoints /\ Endpoints \in Nat /\ DialTimeout \in Nat
  BY DialAssumption
<1>2. Endpoints - s + 1 \in Int /\ Endpoints - s + 1 >= 0
  BY <1>1
<1>3. Dialing(Endpoints - s + 1) \in Nat
  BY <1>2, DialingSums
<1> QED BY <1>1, <1>3, MaxDelayNat DEF Types, AgentType, ManagerType

(* What is left of a round behind s, and the way to s. *)
LEMMA AwayAgent ==
    ASSUME NEW s \in Serving, Types, Types', AwayInv(s), AgentStep
    PROVE  AwayInv(s)'
<1> DEFINE rest == Dialing(Endpoints - s + 1)
<1>1. /\ s \in 1..Endpoints /\ Endpoints \in Nat /\ DialTimeout \in Nat
      /\ rest \in Nat /\ MaxDelay \in Nat
      /\ ep \in 1..Endpoints /\ tried \in 0..DialTimeout /\ apart \in Nat /\ wake \in Nat
  BY AwayTypes
<1> HIDE DEF rest
<1>2. CASE Start \/ WakeUp
  <2>1. stage' = "dial" /\ ep' = 1 /\ tried' = 0 /\ UNCHANGED <<apart, reachable>>
    BY <1>2 DEF Start, WakeUp, StartDial
  <2>2. apart <= rest + MaxDelay
    <3>1. CASE Start
      BY <1>1, <3>1 DEF Start, AwayInv
    <3>2. CASE WakeUp
      BY <1>1, <3>2 DEF WakeUp, AwayInv, rest
    <3> QED BY <1>2, <3>1, <3>2
  <2>3. Dialing(ep' - 1) = 0
    BY <2>1, DialingSums
  <2>4. ~reachable' => apart' = 0
    BY <2>1 DEF AwayInv
  <2> QED BY <1>1, <2>1, <2>2, <2>3, <2>4 DEF AwayInv, rest
<1>3. CASE AttemptFails
  <2>1. /\ stage = "dial" /\ UNCHANGED <<apart, reachable>>
        /\ ep \notin Serving \/ ~reachable \/ tried > apart
    BY <1>3 DEF AttemptFails
  <2>2. ~reachable' => apart' = 0
    BY <2>1 DEF AwayInv
  <2>3. /\ ep < s => apart <= rest + MaxDelay + Dialing(ep)
        /\ ep >= s => apart <= Dialing(ep + 1 - s)
    <3>1. CASE ep < s
      <4>1. Dialing(ep) = Dialing(ep - 1) + DialTimeout /\ Dialing(ep - 1) \in Nat
        <5>1. ep - 1 \in Nat /\ 1 \in Nat /\ (ep - 1) + 1 = ep
          BY <1>1
        <5> QED BY <5>1, DialingSums
      <4>2. apart <= rest + MaxDelay + Dialing(ep - 1) + tried
        BY <1>1, <2>1, <3>1 DEF AwayInv, rest
      <4> QED BY <1>1, <3>1, <4>1, <4>2
    <3>2. CASE ep = s
      <4>1. apart <= DialTimeout
        BY <1>1, <2>1, <3>2 DEF AwayInv
      <4>2. ep + 1 - s = 1
        BY <1>1, <3>2
      <4> QED BY <1>1, <3>2, <4>1, <4>2, DialingSums
    <3>3. CASE ep > s
      <4>1. ep - s \in Nat /\ 1 \in Nat /\ ep + 1 - s = (ep - s) + 1
        BY <1>1, <3>3
      <4>2. Dialing(ep + 1 - s) = Dialing(ep - s) + DialTimeout /\ Dialing(ep - s) \in Nat
        BY <4>1, DialingSums
      <4>3. apart <= Dialing(ep - s) + tried
        BY <1>1, <2>1, <3>3 DEF AwayInv
      <4> QED BY <1>1, <3>3, <4>2, <4>3
    <3> QED BY <1>1, <3>1, <3>2, <3>3
  <2>4. CASE ep < Endpoints
    <3>1. stage' = "dial" /\ ep' = ep + 1 /\ tried' = 0
      BY <1>3, <2>1, <2>4 DEF AttemptFails
    <3>2. ep' - 1 = ep /\ ep' - s = ep + 1 - s
      BY <1>1, <3>1
    <3>3. ep' <= s => apart' <= rest + MaxDelay + Dialing(ep' - 1) + tried'
      <4>1. ep' <= s => ep < s
        BY <1>1, <3>1
      <4>2. Dialing(ep) \in Nat
        <5>1. ep \in Int /\ ep >= 0
          BY <1>1
        <5> QED BY <5>1, DialingSums
      <4> QED BY <1>1, <2>1, <2>3, <3>1, <3>2, <4>1, <4>2
    <3>4. ~(ep' <= s) => apart' <= Dialing(ep' - s) + tried'
      <4>1. ~(ep' <= s) => ep >= s /\ ep + 1 - s \in Int /\ ep + 1 - s >= 0
        BY <1>1, <3>1
      <4>2. ~(ep' <= s) => Dialing(ep + 1 - s) \in Nat /\ apart' = apart
        BY <2>1, <4>1, DialingSums
      <4> QED BY <1>1, <2>3, <3>1, <3>2, <4>1, <4>2
    <3> QED BY <2>2, <3>1, <3>3, <3>4 DEF AwayInv, rest
  <2>5. CASE ~(ep < Endpoints)
    <3>1. stage' = "sleep" /\ wake' \in Jittered(base)
      BY <1>3, <2>5 DEF AttemptFails, Backoff
    <3>2. wake' \in Nat /\ wake' <= MaxDelay
      BY <3>1, DelayBound DEF Types, AgentType
    <3>3. apart <= rest
      <4>1. ep >= s /\ ep + 1 - s = Endpoints - s + 1
        BY <1>1, <2>5
      <4> QED BY <2>3, <4>1 DEF rest
    <3>4. apart' = apart
      BY <2>1
    <3>5. apart' + wake' <= rest + MaxDelay
      BY <1>1, <3>2, <3>3, <3>4, SumBound
    <3> QED BY <2>2, <3>1, <3>2, <3>5 DEF AwayInv, rest
  <2> QED BY <2>4, <2>5
<1>4. CASE Disconnected
  <2>1. /\ stage' = "sleep" /\ wake' \in Jittered(base) /\ apart' = 0
    BY <1>4 DEF Disconnected, Backoff, Idle, AwayInv
  <2>2. wake' \in Nat /\ wake' <= MaxDelay
    BY <2>1, DelayBound DEF Types, AgentType
  <2>3. apart' \in Nat /\ apart' <= rest
    <3>1. apart' = 0
      BY <2>1
    <3>2. 0 <= rest
      BY <1>1
    <3> QED BY <3>1, <3>2
  <2>4. apart' + wake' <= rest + MaxDelay
    BY <1>1, <2>2, <2>3, SumBound
  <2> QED BY <2>1, <2>2, <2>4 DEF AwayInv, rest
<1>5. CASE Connect \/ CancelRun \/ ContextDone \/ Crash
  <2>1. stage' \in {"off", "serve"} /\ apart' = 0
    BY <1>5 DEF Connect, CancelRun, ContextDone, Crash, Gone
  <2> QED BY <2>1 DEF AwayInv
<1>6. CASE CancelServe
  BY <1>6 DEF CancelServe, AwayInv
<1> QED BY <1>2, <1>3, <1>4, <1>5, <1>6 DEF AgentStep

LEMMA AwayInvariant ==
    ASSUME NEW s \in Serving
    PROVE  Spec => []AwayInv(s)
<1>1. Init => AwayInv(s)
  BY DEF Init, AwayInv
<1>2. Types /\ Types' /\ AwayInv(s) /\ [Next]_vars => AwayInv(s)'
  <2> SUFFICES ASSUME Types, Types', AwayInv(s), [Next]_vars PROVE AwayInv(s)'
    OBVIOUS
  <2>1. CASE UNCHANGED <<stage, ep, tried, wake, apart>> /\ (reachable' = reachable \/ apart = 0)
    BY <2>1 DEF AwayInv
  <2>2. CASE LoopStep
    BY <2>1, <2>2 DEF LoopStep, SendHeartbeat, Answer, Execute, Finish, Running
  <2>3. CASE ManagerStep
    <3>1. /\ UNCHANGED <<stage, ep, tried, wake>>
          /\ (UNCHANGED apart /\ (reachable' = reachable \/ ~reachable)) \/ apart' = 0
      BY <2>3 DEF ManagerStep, Instruct, Touch, Reap, Leave, ManagerDown, Cut, Recover
    <3>2. CASE apart' = 0
      <4> DEFINE rest == Dialing(Endpoints - s + 1)
      <4>1. /\ s \in 1..Endpoints /\ rest \in Nat /\ MaxDelay \in Nat /\ apart \in Nat
            /\ ep \in 1..Endpoints /\ tried \in Nat /\ wake \in Nat
        BY AwayTypes
      <4>2. (ep <= s => Dialing(ep - 1) \in Nat) /\ (~(ep <= s) => Dialing(ep - s) \in Nat)
        BY <4>1, DistanceDials
      <4> HIDE DEF rest
      <4>3. /\ ep <= s => 0 <= rest + MaxDelay + Dialing(ep - 1) + tried
            /\ ~(ep <= s) => 0 <= Dialing(ep - s) + tried
        BY <4>1, <4>2
      <4>4. wake <= rest + MaxDelay => 0 + wake <= rest + MaxDelay
        BY <4>1
      <4>5. apart + wake <= rest + MaxDelay => wake <= rest + MaxDelay
        BY <4>1
      <4> QED BY <3>1, <3>2, <4>3, <4>4, <4>5 DEF AwayInv, rest
    <3>3. CASE UNCHANGED apart /\ ~reachable
      BY <2>1, <3>1, <3>3 DEF AwayInv
    <3> QED BY <2>1, <3>1, <3>2, <3>3
  <2>4. CASE Tick
    <3> DEFINE rest == Dialing(Endpoints - s + 1)
    <3>1. /\ s \in 1..Endpoints /\ rest \in Nat /\ MaxDelay \in Nat /\ apart \in Nat
          /\ ep \in 1..Endpoints /\ tried \in Nat /\ wake \in Nat
      BY AwayTypes
    <3>2. /\ UNCHANGED <<stage, ep, reachable>>
          /\ apart' = IF Away THEN apart + 1 ELSE apart
          /\ wake' = IF stage = "sleep" THEN wake - 1 ELSE wake
          /\ tried' = IF stage = "dial" THEN tried + 1 ELSE tried
      BY <2>4 DEF Tick, Older
    <3>3. apart' \in {apart, apart + 1}
      BY <3>2
    <3>4. ~reachable \/ stage \in {"off", "serve"} => apart' = 0
      BY <3>2 DEF Away, AwayInv
    <3>5. CASE stage = "dial"
      <4>1. (ep <= s => Dialing(ep - 1) \in Nat) /\ (~(ep <= s) => Dialing(ep - s) \in Nat)
        BY <3>1, DistanceDials
      <4>2. /\ ep <= s => apart <= rest + MaxDelay + Dialing(ep - 1) + tried
            /\ ~(ep <= s) => apart <= Dialing(ep - s) + tried
        BY <3>5 DEF AwayInv
      <4> HIDE DEF rest
      <4>3. /\ ep <= s => apart' <= rest + MaxDelay + Dialing(ep - 1) + tried'
            /\ ~(ep <= s) => apart' <= Dialing(ep - s) + tried'
        BY <3>1, <3>2, <3>3, <3>5, <4>1, <4>2
      <4> QED BY <3>2, <3>4, <3>5, <4>3 DEF AwayInv, rest
    <3>6. CASE stage = "sleep"
      <4>1. wake <= MaxDelay /\ apart + wake <= rest + MaxDelay
        BY <3>6 DEF AwayInv
      <4> HIDE DEF rest
      <4>2. wake' <= MaxDelay /\ apart' + wake' <= rest + MaxDelay
        BY <3>1, <3>2, <3>3, <3>6, <4>1
      <4> QED BY <3>2, <3>4, <3>6, <4>2 DEF AwayInv, rest
    <3>7. CASE stage \in {"off", "serve"}
      BY <3>2, <3>4, <3>7 DEF AwayInv
    <3> QED BY <3>5, <3>6, <3>7 DEF Types, AgentType
  <2>5. CASE UNCHANGED vars
    BY <2>1, <2>5 DEF vars
  <2>6. CASE AgentStep
    BY <2>6, AwayAgent
  <2> QED BY <2>2, <2>3, <2>4, <2>5, <2>6 DEF Next
<1> QED BY <1>1, <1>2, TypesInvariant, PTL DEF Spec

(* An agent that dials or sleeps is served again within the longest delay  *)
(* and one round of attempts after its manager can be reached, whatever    *)
(* came before.  (One that still takes a dead connection for a live one    *)
(* does neither: CutIsNoticed.)                                            *)
THEOREM ComesBackOnceNoticed == Spec => []ServedOnceNoticed
<1>1. CASE Serving = {}
  <2>1. ServedOnceNoticed
    BY <1>1 DEF ServedOnceNoticed
  <2> QED BY <2>1, PTL
<1>2. ASSUME NEW s \in Serving
      PROVE  Spec => []ServedOnceNoticed
  <2>1. Types /\ AwayInv(s) => ServedOnceNoticed
    <3> SUFFICES ASSUME Types, AwayInv(s)
                 PROVE  apart <= (Endpoints + 1) * DialTimeout + MaxDelay
      BY DEF ServedOnceNoticed
    <3> DEFINE all == Dialing(Endpoints + 1)
               rest == Dialing(Endpoints - s + 1)
    <3>1. /\ s \in 1..Endpoints /\ Endpoints \in Nat /\ DialTimeout \in Nat
          /\ all \in Nat /\ rest \in Nat /\ MaxDelay \in Nat /\ apart \in Nat
          /\ ep \in 1..Endpoints /\ tried \in 0..DialTimeout /\ wake \in Nat
      <4>1. Endpoints + 1 \in Int /\ Endpoints + 1 >= 0
        BY DialAssumption
      <4>2. all \in Nat
        BY <4>1, DialingSums
      <4> QED BY <4>2, AwayTypes
    <3>2. all = rest + Dialing(s)
      <4>1. Endpoints + 1 = (Endpoints - s + 1) + s /\ Endpoints - s + 1 \in Nat /\ s \in Nat
        BY <3>1
      <4> QED BY <4>1, DialingSums
    <3>3. Dialing(s) \in Nat
      BY <3>1, DialingSums
    <3>4. CASE stage = "dial" /\ ep <= s
      <4>1. s = (ep - 1) + (1 + (s - ep)) /\ ep - 1 \in Nat /\ s - ep \in Nat /\ 1 + (s - ep) \in Nat
        BY <3>1, <3>4
      <4>2. Dialing(s) = Dialing(ep - 1) + (DialTimeout + Dialing(s - ep))
        BY <4>1, DialingSums
      <4>3. Dialing(ep - 1) \in Nat /\ Dialing(s - ep) \in Nat
        BY <4>1, DialingSums
      <4>4. apart <= rest + MaxDelay + Dialing(ep - 1) + tried
        BY <3>4 DEF AwayInv
      <4> HIDE DEF all, rest
      <4>5. apart <= all + MaxDelay
        BY <3>1, <3>2, <4>2, <4>3, <4>4
      <4> QED BY <4>5 DEF all, Dialing
    <3>5. CASE stage = "dial" /\ ~(ep <= s)
      <4>1. Endpoints + 1 = (ep - s) + (1 + (Endpoints + s - ep)) /\ ep - s \in Nat
            /\ Endpoints + s - ep \in Nat /\ 1 + (Endpoints + s - ep) \in Nat
        BY <3>1, <3>5
      <4>2. all = Dialing(ep - s) + (DialTimeout + Dialing(Endpoints + s - ep))
        BY <4>1, DialingSums
      <4>3. Dialing(ep - s) \in Nat /\ Dialing(Endpoints + s - ep) \in Nat
        BY <4>1, DialingSums
      <4>4. apart <= Dialing(ep - s) + tried
        BY <3>5 DEF AwayInv
      <4> HIDE DEF all, rest
      <4>5. apart <= all + MaxDelay
        BY <3>1, <4>2, <4>3, <4>4
      <4> QED BY <4>5 DEF all, Dialing
    <3>6. CASE stage = "sleep"
      <4>1. apart + wake <= rest + MaxDelay
        BY <3>6 DEF AwayInv
      <4> HIDE DEF all, rest
      <4>2. apart <= all + MaxDelay
        BY <3>1, <3>2, <3>3, <4>1
      <4> QED BY <4>2 DEF all, Dialing
    <3>7. CASE stage \in {"off", "serve"}
      <4>1. apart = 0
        BY <3>7 DEF AwayInv
      <4> HIDE DEF all, rest
      <4>2. apart <= all + MaxDelay
        BY <3>1, <4>1
      <4> QED BY <4>2 DEF all, Dialing
    <3> QED BY <3>4, <3>5, <3>6, <3>7 DEF Types, AgentType
  <2> QED BY <2>1, TypesInvariant, AwayInvariant, PTL
<1> QED BY <1>1, <1>2

=============================================================================
