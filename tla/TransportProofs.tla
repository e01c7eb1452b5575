-------------------------- MODULE TransportProofs --------------------------
(***************************************************************************)
(* Proofs about Transport, for all buffers, numbers of frames and sets of  *)
(* frames the codec refuses: its types, that no connection lives on        *)
(* without one of its pumps, that each direction is a Channel and how much *)
(* it holds, and that closing never comes to a halt.                       *)
(***************************************************************************)
EXTENDS Transport, SequenceTheorems, TLAPS

-----------------------------------------------------------------------------
(* Types.                                                                  *)

QueueType ==
    /\ sendq \in [End -> Seq(Frame)] /\ sock \in [End -> Seq(Frame)]
    /\ got \in [End -> Seq(Frame)]
    /\ \A e \in End : Len(sendq[e]) <= SendBuffer /\ Len(sock[e]) <= SockBuffer

SlotType ==
    /\ sent \in [End -> Nat] /\ sender \in [End -> Slot]
    /\ whold \in [End -> Slot] /\ rhold \in [End -> Slot]

StateType ==
    /\ fin \in [End -> BOOLEAN] /\ done \in [End -> BOOLEAN] /\ cut \in BOOLEAN
    /\ ws \in [End -> {"open", "closing", "closed"}]
    /\ wpump \in [End -> {"run", "close", "off"}]
    /\ rpump \in [End -> {"run", "close", "off"}]

Types == QueueType /\ SlotType /\ StateType

LEMMA Peers == \A e \in End : Peer(e) \in End /\ Peer(e) # e /\ Peer(Peer(e)) = e
  BY DEF End, Peer

LEMMA FrameNat == Frame \subseteq Nat \ {0} /\ None \notin Frame
<1>1. \A e \in End : MaxSend[e] \in Nat
  BY BufferAssumption
<1> QED BY <1>1 DEF Frame, None

(* A prefix of a queue. *)
LEMMA PrefixType ==
    ASSUME NEW s \in Seq(Frame), NEW p \in Prefixes(s)
    PROVE  p \in Seq(Frame) /\ Len(p) <= Len(s)
<1>1. PICK k \in 0..Len(s) : p = SubSeq(s, 1, k)
  BY DEF Prefixes
<1>2. Len(s) \in Nat /\ \A i \in 1..k : s[i] \in Frame
  BY LenProperties, ElementOfSeq
<1>3. /\ SubSeq(s, 1, k) \in Seq(Frame)
      /\ Len(SubSeq(s, 1, k)) = IF 1 <= k THEN k - 1 + 1 ELSE 0
  BY <1>2, SubSeqProperties
<1> QED BY <1>1, <1>2, <1>3

LEMMA TypesSend ==
    ASSUME Types, NEW e \in End, SendStart(e) \/ SendEnqueue(e) \/ SendFails(e)
    PROVE  Types'
<1>1. CASE SendStart(e)
  <2>1. sender[e] = None /\ sent[e] \in Nat
    BY <1>1 DEF SendStart, Types, SlotType
  <2>2. MaxSend[e] \in Nat /\ sent[e] < MaxSend[e]
    BY <1>1, BufferAssumption DEF SendStart
  <2>3. sent[e] + 1 \in 1..MaxSend[e]
    BY <2>1, <2>2
  <2>4. sent[e] + 1 \in Frame
    BY <2>3 DEF Frame
  <2>5. SlotType'
    BY <1>1, <2>1, <2>4 DEF SendStart, Types, SlotType, Slot
  <2> QED BY <1>1, <2>5 DEF SendStart, Types, QueueType, StateType
<1>2. CASE SendEnqueue(e)
  <2>1. sender[e] \in Frame /\ sendq[e] \in Seq(Frame) /\ Len(sendq[e]) < SendBuffer
    BY <1>2 DEF SendEnqueue, Types, SlotType, Slot, QueueType
  <2>2. /\ Append(sendq[e], sender[e]) \in Seq(Frame)
        /\ Len(Append(sendq[e], sender[e])) = Len(sendq[e]) + 1
        /\ Len(sendq[e]) \in Nat
    BY <2>1, AppendProperties, LenProperties
  <2>3. Len(Append(sendq[e], sender[e])) <= SendBuffer
    BY <2>1, <2>2, BufferAssumption
  <2>5. QueueType'
    BY <1>2, <2>2, <2>3 DEF SendEnqueue, Types, QueueType
  <2> QED BY <1>2, <2>5 DEF SendEnqueue, Types, SlotType, Slot, StateType
<1>3. CASE SendFails(e)
  BY <1>3 DEF SendFails, Types, QueueType, SlotType, Slot, StateType
<1> QED BY <1>1, <1>2, <1>3

LEMMA TypesWrite ==
    ASSUME Types, NEW e \in End, Write(e) \/ WriteStops(e)
    PROVE  Types'
<1>1. CASE WriteTake(e)
  <2>1. sendq[e] \in Seq(Frame) /\ sendq[e] # <<>> /\ Len(sendq[e]) <= SendBuffer
    BY <1>1 DEF WriteTake, Types, QueueType
  <2>2. /\ Tail(sendq[e]) \in Seq(Frame) /\ Head(sendq[e]) \in Frame
        /\ Len(Tail(sendq[e])) = Len(sendq[e]) - 1 /\ Len(sendq[e]) \in Nat
    BY <2>1, HeadTailProperties, LenProperties
  <2>3. Len(Tail(sendq[e])) <= SendBuffer
    BY <2>1, <2>2, BufferAssumption
  <2>4. QueueType'
    BY <1>1, <2>2, <2>3 DEF WriteTake, Types, QueueType
  <2> QED BY <1>1, <2>2, <2>4 DEF WriteTake, Types, SlotType, Slot, StateType
<1>2. CASE WriteOut(e)
  <2>1. whold[e] \in Frame /\ sock[e] \in Seq(Frame)
    BY <1>2 DEF WriteOut, Types, SlotType, Slot, QueueType
  <2>2. CASE ~Unheard(e) /\ Len(sock[e]) < SockBuffer /\ sock' = [sock EXCEPT ![e] = Append(@, whold[e])]
    <3>1. /\ Append(sock[e], whold[e]) \in Seq(Frame)
          /\ Len(Append(sock[e], whold[e])) = Len(sock[e]) + 1
          /\ Len(sock[e]) \in Nat
      BY <2>1, AppendProperties, LenProperties
    <3>2. Len(Append(sock[e], whold[e])) <= SockBuffer
      BY <2>2, <3>1, BufferAssumption
    <3>3. QueueType'
      BY <1>2, <2>2, <3>1, <3>2 DEF WriteOut, Types, QueueType
    <3> QED BY <1>2, <3>3 DEF WriteOut, Types, SlotType, Slot, StateType
  <2>3. CASE UNCHANGED sock
    BY <1>2, <2>3 DEF WriteOut, Types, QueueType, SlotType, Slot, StateType
  <2> QED BY <1>2, <2>2, <2>3 DEF WriteOut
<1>3. CASE WriteSkip(e)
  BY <1>3 DEF WriteSkip, Types, QueueType, SlotType, Slot, StateType
<1>4. CASE WriteFails(e)
  BY <1>4 DEF WriteFails, Types, QueueType, SlotType, Slot, StateType
<1>5. CASE WriteStops(e)
  BY <1>5 DEF WriteStops, Types, QueueType, SlotType, Slot, StateType
<1> QED BY <1>1, <1>2, <1>3, <1>4, <1>5 DEF Write

LEMMA TypesRead ==
    ASSUME Types, NEW e \in End, Read(e) \/ Recv(e)
    PROVE  Types'
<1>1. CASE ReadTake(e)
  <2> DEFINE s == sock[Peer(e)]
  <2>1. Peer(e) \in End /\ s \in Seq(Frame) /\ s # <<>> /\ Len(s) <= SockBuffer
    BY <1>1, Peers DEF ReadTake, Types, QueueType
  <2>2. /\ Tail(s) \in Seq(Frame) /\ Head(s) \in Frame
        /\ Len(Tail(s)) = Len(s) - 1 /\ Len(s) \in Nat
    BY <2>1, HeadTailProperties, LenProperties
  <2>3. Len(Tail(s)) <= SockBuffer
    BY <2>1, <2>2, BufferAssumption
  <2>4. sock' = [sock EXCEPT ![Peer(e)] = Tail(s)]
    BY <1>1 DEF ReadTake
  <2>5. rhold' = [rhold EXCEPT ![e] = None] \/ rhold' = [rhold EXCEPT ![e] = Head(s)]
    BY <1>1 DEF ReadTake
  <2> HIDE DEF s
  <2>6. QueueType'
    BY <1>1, <2>1, <2>2, <2>3, <2>4 DEF ReadTake, Types, QueueType
  <2>7. SlotType'
    BY <1>1, <2>2, <2>5 DEF ReadTake, Types, SlotType, Slot
  <2> QED BY <1>1, <2>6, <2>7 DEF ReadTake, Types, StateType
<1>2. CASE Recv(e)
  <2>1. rhold[e] \in Frame /\ got[e] \in Seq(Frame)
    BY <1>2 DEF Recv, Types, SlotType, Slot, QueueType
  <2>2. Append(got[e], rhold[e]) \in Seq(Frame)
    BY <2>1, AppendProperties
  <2> QED BY <1>2, <2>2 DEF Recv, Types, QueueType, SlotType, Slot, StateType
<1>3. CASE ReadFails(e) \/ ReadDrops(e) \/ ReadStops(e)
  BY <1>3 DEF ReadFails, ReadDrops, ReadStops, Types, QueueType, SlotType, Slot, StateType
<1> QED BY <1>1, <1>2, <1>3 DEF Read

LEMMA TypesClose ==
    ASSUME Types, NEW e \in End, Close(e) \/ SendClose(e) \/ CloseSocket(e)
    PROVE  Types'
<1>1. CASE Close(e) \/ SendClose(e)
  BY <1>1 DEF Close, SendClose, Types, QueueType, SlotType, StateType
<1>2. CASE CloseSocket(e)
  <2>1. PICK rest \in Prefixes(sock[e]) : sock' = [sock EXCEPT ![Peer(e)] = <<>>, ![e] = rest]
    BY <1>2 DEF CloseSocket
  <2>2. rest \in Seq(Frame) /\ Len(rest) <= SockBuffer
    <3>1. sock[e] \in Seq(Frame) /\ Len(sock[e]) <= SockBuffer
      BY DEF Types, QueueType
    <3>2. rest \in Seq(Frame) /\ Len(rest) <= Len(sock[e]) /\ Len(sock[e]) \in Nat
      BY <3>1, PrefixType, LenProperties
    <3>3. Len(rest) \in Nat
      BY <3>2, LenProperties
    <3> QED BY <3>1, <3>2, <3>3, BufferAssumption
  <2>3. <<>> \in Seq(Frame) /\ Len(<<>>) <= SockBuffer
    BY EmptySeq, BufferAssumption
  <2>4. QueueType'
    BY <1>2, <2>1, <2>2, <2>3, Peers DEF CloseSocket, Types, QueueType
  <2> QED BY <1>2, <2>4, Peers DEF CloseSocket, Types, SlotType, StateType
<1> QED BY <1>1, <1>2

LEMMA TypesCut == Types /\ Cut => Types'
<1> SUFFICES ASSUME Types, Cut PROVE Types'
  OBVIOUS
<1>1. PICK up \in Prefixes(sock["node"]), down \in Prefixes(sock["manager"]) :
          sock' = [node |-> up, manager |-> down]
  BY DEF Cut
<1>2. /\ "node" \in End /\ "manager" \in End
      /\ sock["node"] \in Seq(Frame) /\ sock["manager"] \in Seq(Frame)
      /\ Len(sock["node"]) <= SockBuffer /\ Len(sock["manager"]) <= SockBuffer
  BY DEF Types, QueueType, End
<1>3. ASSUME NEW s \in Seq(Frame), NEW p \in Prefixes(s), Len(s) <= SockBuffer
      PROVE  p \in Seq(Frame) /\ Len(p) <= SockBuffer
  <2>1. p \in Seq(Frame) /\ Len(p) <= Len(s) /\ Len(s) \in Nat
    BY PrefixType, LenProperties
  <2>2. Len(p) \in Nat
    BY <2>1, LenProperties
  <2> QED BY <1>3, <2>1, <2>2, BufferAssumption
<1>4. up \in Seq(Frame) /\ down \in Seq(Frame) /\ Len(up) <= SockBuffer /\ Len(down) <= SockBuffer
  BY <1>2, <1>3
<1>5. sock' \in [End -> Seq(Frame)] /\ \A e \in End : Len(sock'[e]) <= SockBuffer
  BY <1>1, <1>4 DEF End
<1>6. QueueType'
  BY <1>5 DEF Cut, Types, QueueType
<1> QED BY <1>6 DEF Cut, Types, SlotType, StateType

LEMMA TypesInvariant == Spec => []Types
<1>1. Init => Types
  <2>1. <<>> \in Seq(Frame) /\ Len(<<>>) <= SendBuffer /\ Len(<<>>) <= SockBuffer
    BY EmptySeq, BufferAssumption
  <2>2. Init => QueueType
    BY <2>1 DEF Init, QueueType
  <2>3. Init => SlotType
    BY DEF Init, SlotType, Slot
  <2>4. Init => StateType
    <3>1. Init => fin \in [End -> BOOLEAN] /\ done \in [End -> BOOLEAN]
      <4>1. [e \in End |-> FALSE] \in [End -> BOOLEAN]
        OBVIOUS
      <4> QED BY <4>1 DEF Init
    <3>3. Init => cut \in BOOLEAN
      BY DEF Init
    <3>2. Init => /\ ws \in [End -> {"open", "closing", "closed"}]
                  /\ wpump \in [End -> {"run", "close", "off"}]
                  /\ rpump \in [End -> {"run", "close", "off"}]
      BY DEF Init
    <3> QED BY <3>1, <3>2, <3>3 DEF StateType
  <2> QED BY <2>2, <2>3, <2>4 DEF Types
<1>2. Types /\ [Next]_vars => Types'
  <2>1. Types /\ UNCHANGED vars => Types'
    BY DEF vars, Types, QueueType, SlotType, StateType
  <2> QED BY <2>1, TypesSend, TypesWrite, TypesRead, TypesClose, TypesCut DEF Next, EndStep
<1> QED BY <1>1, <1>2, PTL DEF Spec

(* The queues, the frames in the hands of the pumps and the states of the  *)
(* connection always hold values of their types.                           *)
THEOREM TransportTypeCorrect == Spec => []TypeOK
<1>1. Types => TypeOK
  BY DEF Types, QueueType, SlotType, StateType, TypeOK
<1> QED BY <1>1, TypesInvariant, PTL

-----------------------------------------------------------------------------
(* The pumps.                                                              *)

(* A pump that is not running has found the connection done or made it so. *)
PumpInv == \A e \in End : wpump[e] # "run" \/ rpump[e] # "run" => done[e]

LEMMA PumpInvariant == Spec => []PumpInv
<1>1. Init => PumpInv
  BY DEF Init, PumpInv
<1>2. Types /\ PumpInv /\ [Next]_vars => PumpInv'
  <2> SUFFICES ASSUME Types, PumpInv, [Next]_vars PROVE PumpInv'
    OBVIOUS
  <2> USE DEF Types, StateType, PumpInv
  <2>1. CASE UNCHANGED <<done, wpump, rpump>>
    BY <2>1
  <2>2. ASSUME NEW e \in End, EndStep(e) PROVE PumpInv'
    <3>1. CASE WriteFails(e) \/ WriteStops(e)
      BY <3>1 DEF WriteFails, WriteStops
    <3>2. CASE ReadFails(e) \/ ReadDrops(e) \/ ReadStops(e)
      BY <3>2 DEF ReadFails, ReadDrops, ReadStops
    <3>3. CASE Close(e)
      BY <3>3 DEF Close
    <3> QED BY <2>1, <2>2, <3>1, <3>2, <3>3
      DEF EndStep, SendStart, SendEnqueue, SendFails, Write, WriteTake, WriteSkip, WriteOut,
          Read, ReadTake, Recv, SendClose, CloseSocket
  <2>3. CASE Cut
    BY <2>1, <2>3 DEF Cut
  <2> QED BY <2>1, <2>2, <2>3 DEF Next, vars
<1> QED BY <1>1, <1>2, TypesInvariant, PTL DEF Spec

(* A connection that does not say it is done has both its pumps.           *)
THEOREM NoPumpIsMissing == Spec => []NoHalfDead
<1>1. PumpInv => NoHalfDead
  BY DEF PumpInv, NoHalfDead
<1> QED BY <1>1, PumpInvariant, PTL

-----------------------------------------------------------------------------
(* Sequences.                                                              *)

LEMMA ConcatType ==
    ASSUME NEW s \in Seq(Frame), NEW t \in Seq(Frame)
    PROVE  s \o t \in Seq(Frame)
  BY ConcatProperties

LEMMA ConcatIs ==
    \A s, t \in Seq(Frame) :
        /\ s \o t \in Seq(Frame) /\ Len(s \o t) = Len(s) + Len(t)
        /\ \A i \in 1 .. Len(s) + Len(t) : (s \o t)[i] = IF i <= Len(s) THEN s[i] ELSE t[i - Len(s)]
<1> TAKE s, t \in Seq(Frame)
<1> QED BY ConcatProperties

LEMMA ConcatAssoc == \A s, t, u \in Seq(Frame) : (s \o t) \o u = s \o (t \o u)
<1> TAKE s, t, u \in Seq(Frame)
<1> QED BY ConcatAssociative, SMTT(30)

(* Concatenation by its laws alone, without looking at the elements. *)
Cat(s, t) == s \o t

LEMMA CatLaws ==
    \A s, t, u \in Seq(Frame) :
        Cat(s, t) \in Seq(Frame) /\ Cat(Cat(s, t), u) = Cat(s, Cat(t, u))
<1> TAKE s, t, u \in Seq(Frame)
<1>1. s \o t \in Seq(Frame)
  BY ConcatType
<1>2. (s \o t) \o u = s \o (t \o u)
  BY ConcatAssoc
<1> QED BY <1>1, <1>2 DEF Cat

LEMMA SingleType ==
    ASSUME NEW f \in Frame
    PROVE  <<f>> \in Seq(Frame) /\ Len(<<f>>) = 1 /\ <<f>>[1] = f
<1>1. <<>> \in Seq(Frame) /\ Append(<<>>, f) = <<f>>
  BY EmptySeq
<1> QED BY <1>1, AppendProperties

LEMMA HeadFirst ==
    ASSUME NEW s \in Seq(Frame), s # <<>>
    PROVE  s = <<Head(s)>> \o Tail(s)
<1>1. /\ Head(s) \in Frame /\ Tail(s) \in Seq(Frame) /\ Len(Tail(s)) = Len(s) - 1
      /\ \A i \in 1..Len(Tail(s)) : Tail(s)[i] = s[i + 1]
      /\ Len(s) \in Nat \ {0} /\ Head(s) = s[1]
  BY HeadTailProperties, EmptySeq
<1>2. /\ <<Head(s)>> \in Seq(Frame) /\ Len(<<Head(s)>>) = 1 /\ <<Head(s)>>[1] = Head(s)
  BY <1>1, SingleType
<1> DEFINE h == <<Head(s)>>
           t == Tail(s)
<1> HIDE DEF h, t
<1>3. /\ h \o t \in Seq(Frame) /\ Len(h \o t) = Len(h) + Len(t)
      /\ \A i \in 1 .. Len(h) + Len(t) : (h \o t)[i] = IF i <= Len(h) THEN h[i] ELSE t[i - Len(h)]
  BY <1>1, <1>2, ConcatProperties DEF h, t
<1>4. Len(h) = 1 /\ Len(t) = Len(s) - 1 /\ h[1] = s[1] /\ \A i \in 1..Len(t) : t[i] = s[i + 1]
  BY <1>1, <1>2 DEF h, t
<1>5. Len(h \o t) = Len(s) /\ \A i \in 1..Len(s) : s[i] = (h \o t)[i]
  BY <1>1, <1>3, <1>4
<1>6. s = h \o t
  BY <1>3, <1>5, SeqEqual
<1> QED BY <1>6 DEF h, t

(* Frame f, in place i of sequence c, is taken out, which leaves d. *)
Taken(c, i, f, d) ==
    /\ i \in 1..Len(c) /\ c[i] = f
    /\ d = [j \in 1 .. Len(c) - 1 |-> IF j < i THEN c[j] ELSE c[j + 1]]

LEMMA TakenOut ==
    \A s, t \in Seq(Frame) : \A f \in Frame : Taken(s \o (<<f>> \o t), Len(s) + 1, f, s \o t)
<1> SUFFICES ASSUME NEW s \in Seq(Frame), NEW t \in Seq(Frame), NEW f \in Frame,
                    NEW q, q = s \o (<<f>> \o t)
             PROVE  Taken(q, Len(s) + 1, f, s \o t)
  OBVIOUS
<1> DEFINE h == <<f>>
           u == <<f>> \o t
<1>1. h \in Seq(Frame) /\ Len(h) = 1 /\ h[1] = f
  BY SingleType
<1>2. Len(s) \in Nat /\ Len(t) \in Nat
  BY LenProperties
<1>3. /\ u \in Seq(Frame) /\ Len(u) = 1 + Len(t)
      /\ \A i \in 1 .. 1 + Len(t) : u[i] = IF i <= 1 THEN f ELSE t[i - 1]
  <2> HIDE DEF h
  <2>1. /\ h \o t \in Seq(Frame) /\ Len(h \o t) = Len(h) + Len(t)
        /\ \A i \in 1 .. Len(h) + Len(t) : (h \o t)[i] = IF i <= Len(h) THEN h[i] ELSE t[i - Len(h)]
    BY <1>1, ConcatProperties
  <2>2. u = h \o t
    BY DEF h
  <2> HIDE DEF u
  <2> QED BY <1>1, <1>2, <2>1, <2>2
<1>4. q = s \o u
  OBVIOUS
<1> HIDE DEF h, u
<1>5. /\ q \in Seq(Frame) /\ Len(q) = Len(s) + Len(u)
      /\ \A i \in 1 .. Len(s) + Len(u) : q[i] = IF i <= Len(s) THEN s[i] ELSE u[i - Len(s)]
  BY <1>3, <1>4, ConcatProperties
<1>6. /\ s \o t \in Seq(Frame) /\ Len(s \o t) = Len(s) + Len(t)
      /\ \A i \in 1 .. Len(s) + Len(t) : (s \o t)[i] = IF i <= Len(s) THEN s[i] ELSE t[i - Len(s)]
  BY ConcatProperties
<1>7. Len(s) + 1 \in 1..Len(q) /\ q[Len(s) + 1] = f
  BY <1>2, <1>3, <1>5
<1>8. Len(q) - 1 = Len(s \o t)
  BY <1>2, <1>3, <1>5, <1>6
<1>9. \A j \in 1..Len(s \o t) : (s \o t)[j] = IF j < Len(s) + 1 THEN q[j] ELSE q[j + 1]
  <2> TAKE j \in 1..Len(s \o t)
  <2>1. CASE j < Len(s) + 1
    BY <1>2, <1>3, <1>5, <1>6, <2>1
  <2>2. CASE ~(j < Len(s) + 1)
    <3>1. /\ j \in 1 .. Len(s) + Len(t) /\ ~(j <= Len(s))
          /\ j + 1 \in 1 .. Len(s) + Len(u) /\ ~(j + 1 <= Len(s))
          /\ j + 1 - Len(s) \in 1 .. 1 + Len(t) /\ ~(j + 1 - Len(s) <= 1)
          /\ j + 1 - Len(s) - 1 = j - Len(s)
      BY <1>2, <1>3, <1>6, <2>2
    <3>2. (s \o t)[j] = t[j - Len(s)]
      <4>1. \A k \in 1 .. Len(s) + Len(t) : ~(k <= Len(s)) => (s \o t)[k] = t[k - Len(s)]
        BY <1>6, Zenon
      <4> QED BY <3>1, <4>1, Zenon
    <3>3. q[j + 1] = u[j + 1 - Len(s)]
      <4>1. \A k \in 1 .. Len(s) + Len(u) : ~(k <= Len(s)) => q[k] = u[k - Len(s)]
        BY <1>5, Zenon
      <4> QED BY <3>1, <4>1, SMTT(30)
    <3>4. u[j + 1 - Len(s)] = t[j - Len(s)]
      <4>1. \A k \in 1 .. 1 + Len(t) : ~(k <= 1) => u[k] = t[k - 1]
        BY <1>3, Zenon
      <4> QED BY <3>1, <4>1, SMTT(30)
    <3> QED BY <2>2, <3>2, <3>3, <3>4, Zenon
  <2> QED BY <2>1, <2>2
<1>10. s \o t = [j \in 1..Len(s \o t) |-> (s \o t)[j]]
  BY <1>6, LenProperties
<1>11. s \o t = [j \in 1 .. Len(q) - 1 |-> IF j < Len(s) + 1 THEN q[j] ELSE q[j + 1]]
  BY <1>8, <1>9, <1>10
<1> QED BY <1>7, <1>11 DEF Taken

(* Prefixes. *)
LEMMA PrefixSelf ==
    ASSUME NEW s \in Seq(Frame)
    PROVE  s \in Prefixes(s) /\ <<>> \in Prefixes(s)
<1>1. SubSeq(s, 1, Len(s)) = s /\ Len(s) \in Nat
  BY SubSeqFull, LenProperties
<1>2. SubSeq(s, 1, 0) = <<>>
  BY SubSeqEmpty
<1>3. 0 \in 0..Len(s) /\ Len(s) \in 0..Len(s)
  BY <1>1
<1>4. \A k \in 0..Len(s) : SubSeq(s, 1, k) \in Prefixes(s)
  BY DEF Prefixes
<1> QED BY <1>1, <1>2, <1>3, <1>4

LEMMA PrefixConcat ==
    ASSUME NEW s \in Seq(Frame), NEW t \in Seq(Frame), NEW p \in Prefixes(t)
    PROVE  s \o p \in Prefixes(s \o t)
<1>1. PICK k \in 0..Len(t) : p = SubSeq(t, 1, k)
  BY DEF Prefixes
<1>2. Len(s) \in Nat /\ Len(t) \in Nat /\ \A i \in 1..k : t[i] \in Frame
  BY LenProperties, ElementOfSeq
<1>3. /\ p \in Seq(Frame) /\ Len(p) = k
      /\ \A i \in 1..k : p[i] = t[i]
  <2>1. /\ p \in Seq(Frame) /\ Len(p) = (IF 1 <= k THEN k - 1 + 1 ELSE 0)
        /\ \A i \in 1 .. k - 1 + 1 : p[i] = t[1 + i - 1]
    BY <1>1, <1>2, SubSeqProperties
  <2> QED BY <1>1, <2>1
<1> DEFINE c == s \o t
           d == s \o p
           n == Len(s) + k
<1>4. /\ c \in Seq(Frame) /\ Len(c) = Len(s) + Len(t)
      /\ \A i \in 1 .. Len(s) + Len(t) : c[i] = IF i <= Len(s) THEN s[i] ELSE t[i - Len(s)]
  BY ConcatProperties
<1>5. /\ d \in Seq(Frame) /\ Len(d) = Len(s) + Len(p)
      /\ \A i \in 1 .. Len(s) + Len(p) : d[i] = IF i <= Len(s) THEN s[i] ELSE p[i - Len(s)]
  BY <1>3, ConcatProperties
<1> HIDE DEF c, d
<1>6. n \in 0..Len(c)
  BY <1>2, <1>4
<1>7. \A i \in 1..n : c[i] \in Frame
  BY <1>4, <1>6, ElementOfSeq
<1>8. /\ SubSeq(c, 1, n) \in Seq(Frame) /\ Len(SubSeq(c, 1, n)) = n
      /\ \A i \in 1..n : SubSeq(c, 1, n)[i] = c[i]
  <2>1. n \in Int /\ 1 \in Int
    BY <1>2
  <2> HIDE DEF n
  <2>2. /\ SubSeq(c, 1, n) \in Seq(Frame)
        /\ Len(SubSeq(c, 1, n)) = (IF 1 <= n THEN n - 1 + 1 ELSE 0)
        /\ \A i \in 1 .. n - 1 + 1 : SubSeq(c, 1, n)[i] = c[1 + i - 1]
    BY <1>7, <2>1, SubSeqProperties
  <2>3. n >= 0
    BY <1>6, <1>4, LenProperties
  <2> QED BY <2>1, <2>2, <2>3
<1>9. \A i \in 1..n : d[i] = c[i]
  <2> TAKE i \in 1..n
  <2>1. CASE i <= Len(s)
    BY <1>2, <1>3, <1>4, <1>5, <2>1
  <2>2. CASE ~(i <= Len(s))
    <3>1. i - Len(s) \in 1..k
      BY <1>2, <2>2
    <3>2. d[i] = p[i - Len(s)] /\ c[i] = t[i - Len(s)]
      BY <1>2, <1>3, <1>4, <1>5, <2>2
    <3> QED BY <1>3, <3>1, <3>2
  <2> QED BY <2>1, <2>2
<1>10. Len(d) = n
  BY <1>2, <1>3, <1>5
<1>11. d = SubSeq(c, 1, n)
  <2> HIDE DEF n
  <2> QED BY <1>5, <1>8, <1>9, <1>10, SeqEqual
<1> QED BY <1>6, <1>11 DEF Prefixes, c, d

LEMMA PrefixTrans ==
    ASSUME NEW s \in Seq(Frame), NEW t \in Seq(Frame), NEW p \in Prefixes(s)
    PROVE  p \in Prefixes(s \o t)
<1>1. PICK k \in 0..Len(s) : p = SubSeq(s, 1, k)
  BY DEF Prefixes
<1>2. Len(s) \in Nat /\ Len(t) \in Nat /\ \A i \in 1..k : s[i] \in Frame
  BY LenProperties, ElementOfSeq
<1> DEFINE c == s \o t
<1>3. /\ c \in Seq(Frame) /\ Len(c) = Len(s) + Len(t)
      /\ \A i \in 1 .. Len(s) + Len(t) : c[i] = IF i <= Len(s) THEN s[i] ELSE t[i - Len(s)]
  BY ConcatProperties
<1> HIDE DEF c
<1>4. k \in 0..Len(c) /\ \A i \in 1..k : c[i] = s[i]
  BY <1>2, <1>3
<1>5. /\ SubSeq(s, 1, k) \in Seq(Frame) /\ Len(SubSeq(s, 1, k)) = (IF 1 <= k THEN k - 1 + 1 ELSE 0)
      /\ \A i \in 1 .. k - 1 + 1 : SubSeq(s, 1, k)[i] = s[1 + i - 1]
  BY <1>2, SubSeqProperties
<1>6. \A i \in 1..k : c[i] \in Frame
  BY <1>2, <1>4
<1>7. /\ SubSeq(c, 1, k) \in Seq(Frame) /\ Len(SubSeq(c, 1, k)) = (IF 1 <= k THEN k - 1 + 1 ELSE 0)
      /\ \A i \in 1 .. k - 1 + 1 : SubSeq(c, 1, k)[i] = c[1 + i - 1]
  BY <1>6, SubSeqProperties
<1>8. /\ Len(SubSeq(c, 1, k)) = k /\ Len(SubSeq(s, 1, k)) = k
      /\ \A i \in 1..k : SubSeq(c, 1, k)[i] = SubSeq(s, 1, k)[i]
  BY <1>2, <1>4, <1>5, <1>7
<1>9. SubSeq(s, 1, k) = SubSeq(c, 1, k)
  BY <1>5, <1>7, <1>8, SeqEqual
<1> QED BY <1>1, <1>4, <1>9 DEF Prefixes, c

LEMMA PrefixOfConcat ==
    ASSUME NEW s \in Seq(Frame), NEW t \in Seq(Frame)
    PROVE  s \in Prefixes(s \o t)
<1>1. s \o <<>> \in Prefixes(s \o t)
  BY PrefixSelf, PrefixConcat
<1>2. s \o <<>> = s
  BY ConcatEmptySeq
<1> QED BY <1>1, <1>2

-----------------------------------------------------------------------------
(* Each direction is a channel.                                            *)

Refused == Oversize \cup Foreign

(* What has passed the encoder is not too large, what has passed the       *)
(* decoder is not refused at all, and only a running pump holds a frame.   *)
Screened(e) ==
    /\ \A i \in 1..Len(sock[e]) : sock[e][i] \notin Oversize
    /\ rhold[e] \notin Refused
    /\ rhold[e] # None => rpump[e] = "run"
    /\ whold[e] # None => wpump[e] = "run"

ScreenInv == \A e \in End : Screened(e)

LEMMA ScreenedPrefix ==
    ASSUME NEW s \in Seq(Frame), NEW p \in Prefixes(s),
           \A i \in 1..Len(s) : s[i] \notin Oversize
    PROVE  \A i \in 1..Len(p) : p[i] \notin Oversize
<1>1. PICK k \in 0..Len(s) : p = SubSeq(s, 1, k)
  BY DEF Prefixes
<1>2. Len(s) \in Nat /\ \A i \in 1..k : s[i] \in Frame
  BY LenProperties, ElementOfSeq
<1>3. /\ Len(p) = (IF 1 <= k THEN k - 1 + 1 ELSE 0)
      /\ \A i \in 1 .. k - 1 + 1 : p[i] = s[1 + i - 1]
  BY <1>1, <1>2, SubSeqProperties
<1>4. Len(p) = k /\ \A i \in 1..k : p[i] = s[i]
  BY <1>2, <1>3
<1> QED BY <1>2, <1>4

LEMMA NoneNotRefused == None \notin Refused /\ None \notin Oversize
  BY FrameNat, BufferAssumption DEF Refused

LEMMA ScreenedStep ==
    ASSUME Types, ScreenInv, NEW e \in End, EndStep(e), NEW d \in End
    PROVE  Screened(d)'
<1> USE DEF ScreenInv, Screened
<1>1. CASE SendStart(e) \/ SendEnqueue(e) \/ SendFails(e) \/ Close(e) \/ SendClose(e)
  BY <1>1 DEF SendStart, SendEnqueue, SendFails, Close, SendClose
<1>2. CASE WriteTake(e)
  BY <1>2 DEF WriteTake, Types, SlotType
<1>3. CASE WriteSkip(e) \/ WriteFails(e) \/ WriteStops(e)
  BY <1>3 DEF WriteSkip, WriteFails, WriteStops, Types, SlotType, StateType
<1>4. CASE WriteOut(e)
  <2>1. CASE UNCHANGED sock
    BY <1>4, <2>1 DEF WriteOut, Types, SlotType
  <2>2. CASE sock' = [sock EXCEPT ![e] = Append(@, whold[e])]
    <3>1. sock[e] \in Seq(Frame) /\ whold[e] \in Frame /\ whold[e] \notin Oversize
      BY <1>4 DEF WriteOut, Types, QueueType, SlotType, Slot
    <3>2. /\ Len(Append(sock[e], whold[e])) = Len(sock[e]) + 1 /\ Len(sock[e]) \in Nat
          /\ \A i \in 1..Len(sock[e]) : Append(sock[e], whold[e])[i] = sock[e][i]
          /\ Append(sock[e], whold[e])[Len(sock[e]) + 1] = whold[e]
      BY <3>1, AppendProperties, LenProperties
    <3>3. \A i \in 1..Len(Append(sock[e], whold[e])) : Append(sock[e], whold[e])[i] \notin Oversize
      <4> TAKE i \in 1..Len(Append(sock[e], whold[e]))
      <4>1. i \in 1..Len(sock[e]) \/ i = Len(sock[e]) + 1
        BY <3>2
      <4> QED BY <3>1, <3>2, <4>1
    <3>4. sock'[d] = IF d = e THEN Append(sock[e], whold[e]) ELSE sock[d]
      BY <2>2 DEF Types, QueueType
    <3>5. \A i \in 1..Len(sock'[d]) : sock'[d][i] \notin Oversize
      BY <3>3, <3>4
    <3> QED BY <1>4, <3>5 DEF WriteOut, Types, SlotType
  <2> QED BY <1>4, <2>1, <2>2 DEF WriteOut
<1>5. CASE ReadTake(e)
  <2> DEFINE s == sock[Peer(e)]
  <2>1. Peer(e) \in End /\ s \in Seq(Frame) /\ s # <<>>
    BY <1>5, Peers DEF ReadTake, Types, QueueType
  <2>2. /\ Len(Tail(s)) = Len(s) - 1 /\ Len(s) \in Nat \ {0} /\ Head(s) = s[1] /\ Head(s) \in Frame
        /\ \A i \in 1..Len(Tail(s)) : Tail(s)[i] = s[i + 1]
    BY <2>1, HeadTailProperties, EmptySeq
  <2>3. \A i \in 1..Len(s) : s[i] \notin Oversize
    BY <2>1
  <2>4. /\ sock' = [sock EXCEPT ![Peer(e)] = Tail(s)] /\ rpump[e] = "run"
        /\ rhold' = [rhold EXCEPT ![e] = IF Head(s) \in Foreign THEN None ELSE Head(s)]
    BY <1>5 DEF ReadTake
  <2> HIDE DEF s
  <2>5. Head(s) \notin Oversize /\ \A i \in 1..Len(Tail(s)) : Tail(s)[i] \notin Oversize
    BY <2>2, <2>3
  <2>6. sock'[d] = IF d = Peer(e) THEN Tail(s) ELSE sock[d]
    BY <2>4 DEF Types, QueueType
  <2>7. \A i \in 1..Len(sock'[d]) : sock'[d][i] \notin Oversize
    BY <2>5, <2>6
  <2>8. rhold'[d] \notin Refused /\ (rhold'[d] # None => rpump[d] = "run")
    BY <2>4, <2>5, NoneNotRefused DEF Types, SlotType, Refused
  <2> QED BY <1>5, <2>7, <2>8 DEF ReadTake
<1>6. CASE ReadFails(e) \/ ReadDrops(e) \/ ReadStops(e) \/ Recv(e)
  BY <1>6, NoneNotRefused DEF ReadFails, ReadDrops, ReadStops, Recv, Types, SlotType, StateType
<1>7. CASE CloseSocket(e)
  <2>1. PICK rest \in Prefixes(sock[e]) : sock' = [sock EXCEPT ![Peer(e)] = <<>>, ![e] = rest]
    BY <1>7 DEF CloseSocket
  <2>2. \A i \in 1..Len(rest) : rest[i] \notin Oversize
    BY ScreenedPrefix DEF Types, QueueType
  <2>3. sock'[d] = IF d = e THEN rest ELSE IF d = Peer(e) THEN <<>> ELSE sock[d]
    BY <2>1, Peers DEF Types, QueueType
  <2>4. \A i \in 1..Len(sock'[d]) : sock'[d][i] \notin Oversize
    <3>1. \A i \in 1..Len(<<>>) : <<>>[i] \notin Oversize
      BY EmptySeq
    <3> QED BY <2>2, <2>3, <3>1
  <2> QED BY <1>7, <2>4 DEF CloseSocket
<1> QED BY <1>1, <1>2, <1>3, <1>4, <1>5, <1>6, <1>7 DEF EndStep, Write, Read

LEMMA ScreenInvariant == Spec => []ScreenInv
<1>1. Init => ScreenInv
  BY NoneNotRefused, EmptySeq DEF Init, ScreenInv, Screened
<1>2. Types /\ ScreenInv /\ [Next]_vars => ScreenInv'
  <2> SUFFICES ASSUME Types, ScreenInv, [Next]_vars, NEW d \in End PROVE Screened(d)'
    BY DEF ScreenInv
  <2>1. CASE UNCHANGED vars
    BY <2>1 DEF vars, ScreenInv, Screened
  <2>2. CASE Cut
    <3>1. PICK up \in Prefixes(sock["node"]), down \in Prefixes(sock["manager"]) :
              sock' = [node |-> up, manager |-> down]
      BY <2>2 DEF Cut
    <3>2. sock'[d] \in Prefixes(sock[d])
      BY <3>1 DEF End
    <3>3. \A i \in 1..Len(sock'[d]) : sock'[d][i] \notin Oversize
      BY <3>2, ScreenedPrefix DEF ScreenInv, Screened, Types, QueueType
    <3> QED BY <2>2, <3>3 DEF Cut, ScreenInv, Screened
  <2> QED BY <2>1, <2>2, ScreenedStep DEF Next
<1> QED BY <1>1, <1>2, TypesInvariant, PTL DEF Spec

(* InFlight, of its parts. *)
Flight(r, R, s, W, w, q) ==
    Holding(r) \o (IF R THEN s \o (IF W THEN Holding(w) \o q ELSE <<>>) ELSE <<>>)

LEMMA HoldingType ==
    /\ Holding(None) = <<>>
    /\ \A f \in Frame : f # None /\ Holding(f) = <<f>>
    /\ \A f \in Slot : Holding(f) \in Seq(Frame)
<1>1. \A f \in Frame : f # None /\ Holding(f) = <<f>>
  BY FrameNat DEF Holding
<1> QED BY <1>1, SingleType, EmptySeq DEF Holding, Slot

LEMMA InFlightIs ==
    \A e \in End : InFlight(e) = Flight(rhold[Peer(e)], Readable(e), sock[e],
                                        Writable(e), whold[e], sendq[e])
  BY DEF InFlight, Flight, Travelling, Waiting

(* The write pump takes a frame. *)
LEMMA FlightTake ==
    ASSUME NEW r, NEW R \in BOOLEAN, NEW s, NEW W \in BOOLEAN,
           NEW q \in Seq(Frame), q # <<>>
    PROVE  Flight(r, R, s, W, Head(q), Tail(q)) = Flight(r, R, s, W, None, q)
<1>1. Head(q) \in Frame /\ Tail(q) \in Seq(Frame)
  BY HeadTailProperties
<1>2. Holding(Head(q)) = <<Head(q)>>
  BY <1>1, HoldingType
<1>3. Holding(Head(q)) \o Tail(q) = q
  BY <1>2, HeadFirst
<1>4. Holding(None) \o q = q
  BY HoldingType, ConcatEmptySeq
<1> QED BY <1>3, <1>4 DEF Flight

(* Send puts a frame behind the others. *)
LEMMA FlightEnqueue ==
    ASSUME NEW r \in Slot, NEW s \in Seq(Frame), NEW w \in Slot, NEW q \in Seq(Frame),
           NEW f \in Frame
    PROVE  Flight(r, TRUE, s, TRUE, w, Append(q, f)) = Append(Flight(r, TRUE, s, TRUE, w, q), f)
<1> DEFINE h == Holding(r)
           k == Holding(w)
           g == <<f>>
<1>1. h \in Seq(Frame) /\ k \in Seq(Frame) /\ g \in Seq(Frame)
  BY HoldingType, SingleType
<1>2. Append(q, f) = q \o g
  BY AppendIsConcat
<1>3. /\ k \o q \in Seq(Frame) /\ s \o (k \o q) \in Seq(Frame)
      /\ h \o (s \o (k \o q)) \in Seq(Frame)
  <2> HIDE DEF h, k, g
  <2>1. k \o q \in Seq(Frame)
    BY <1>1, ConcatType
  <2>2. s \o (k \o q) \in Seq(Frame)
    BY <2>1, ConcatType
  <2> QED BY <1>1, <2>1, <2>2, ConcatType
<1>4. Append(h \o (s \o (k \o q)), f) = (h \o (s \o (k \o q))) \o g
  <2> HIDE DEF h, k
  <2> QED BY <1>3, AppendIsConcat
<1>5. h \o (s \o (k \o (q \o g))) = (h \o (s \o (k \o q))) \o g
  <2> HIDE DEF h, k, g
  <2>1. Cat(h, Cat(s, Cat(k, Cat(q, g)))) = Cat(Cat(h, Cat(s, Cat(k, q))), g)
    <3>1. Cat(k, Cat(q, g)) = Cat(Cat(k, q), g) /\ Cat(k, q) \in Seq(Frame)
      BY <1>1, CatLaws
    <3>2. /\ Cat(s, Cat(Cat(k, q), g)) = Cat(Cat(s, Cat(k, q)), g)
          /\ Cat(s, Cat(k, q)) \in Seq(Frame)
      BY <1>1, <3>1, CatLaws
    <3>3. Cat(h, Cat(Cat(s, Cat(k, q)), g)) = Cat(Cat(h, Cat(s, Cat(k, q))), g)
      BY <1>1, <3>2, CatLaws
    <3> QED BY <3>1, <3>2, <3>3
  <2> QED BY <2>1 DEF Cat
<1> QED BY <1>2, <1>4, <1>5 DEF Flight

(* The write pump skips a frame. *)
LEMMA FlightSkip ==
    ASSUME NEW r \in Slot, NEW s \in Seq(Frame), NEW w \in Frame, NEW q \in Seq(Frame),
           NEW c, c = Flight(r, TRUE, s, TRUE, w, q)
    PROVE  \E i : Taken(c, i, w, Flight(r, TRUE, s, TRUE, None, q))
<1> DEFINE h == Holding(r)
           g == <<w>>
<1>1. h \in Seq(Frame) /\ g \in Seq(Frame)
  BY HoldingType, SingleType
<1>2. Holding(w) = g /\ Holding(None) \o q = q
  BY HoldingType, ConcatEmptySeq
<1>3. h \o s \in Seq(Frame) /\ g \o q \in Seq(Frame)
  <2> HIDE DEF h, g
  <2> QED BY <1>1, ConcatType
<1>4. c = (h \o s) \o (g \o q) /\ Flight(r, TRUE, s, TRUE, None, q) = (h \o s) \o q
  <2>1. c = h \o (s \o (g \o q)) /\ Flight(r, TRUE, s, TRUE, None, q) = h \o (s \o q)
    BY <1>2 DEF Flight
  <2> HIDE DEF h, g
  <2>2. /\ Cat(h, Cat(s, Cat(g, q))) = Cat(Cat(h, s), Cat(g, q))
        /\ Cat(h, Cat(s, q)) = Cat(Cat(h, s), q)
    <3>1. Cat(g, q) \in Seq(Frame)
      BY <1>1, CatLaws
    <3>2. Cat(h, Cat(s, Cat(g, q))) = Cat(Cat(h, s), Cat(g, q))
      BY <1>1, <3>1, CatLaws
    <3>3. Cat(h, Cat(s, q)) = Cat(Cat(h, s), q)
      BY <1>1, CatLaws
    <3> QED BY <3>2, <3>3
  <2>3. h \o (s \o (g \o q)) = (h \o s) \o (g \o q)
    BY <2>2, Zenon DEF Cat
  <2>4. h \o (s \o q) = (h \o s) \o q
    BY <2>2, Zenon DEF Cat
  <2> QED BY <2>1, <2>3, <2>4, Zenon
<1>5. Taken((h \o s) \o (g \o q), Len(h \o s) + 1, w, (h \o s) \o q)
  <2> HIDE DEF h
  <2> QED BY <1>3, TakenOut
<1> QED BY <1>4, <1>5

(* The write pump writes a frame. *)
LEMMA FlightOut ==
    ASSUME NEW r, NEW R \in BOOLEAN, NEW s \in Seq(Frame), NEW w \in Frame, NEW q \in Seq(Frame)
    PROVE  Flight(r, R, Append(s, w), TRUE, None, q) = Flight(r, R, s, TRUE, w, q)
<1> DEFINE g == <<w>>
<1>1. g \in Seq(Frame) /\ Holding(w) = g /\ Holding(None) \o q = q /\ Append(s, w) = s \o g
  BY HoldingType, SingleType, ConcatEmptySeq, AppendIsConcat
<1>2. (s \o g) \o q = s \o (g \o q)
  <2> HIDE DEF g
  <2> QED BY <1>1, ConcatAssoc
<1> QED BY <1>1, <1>2 DEF Flight

(* The read pump reads a frame. *)
LEMMA FlightRead ==
    ASSUME NEW s \in Seq(Frame), s # <<>>, NEW W \in BOOLEAN, NEW w \in Slot, NEW q \in Seq(Frame)
    PROVE  Flight(Head(s), TRUE, Tail(s), W, w, q) = Flight(None, TRUE, s, W, w, q)
<1> DEFINE x == IF W THEN Holding(w) \o q ELSE <<>>
           g == <<Head(s)>>
           t == Tail(s)
<1>1. x \in Seq(Frame)
  BY HoldingType, ConcatType, EmptySeq
<1>2. Head(s) \in Frame /\ t \in Seq(Frame) /\ s = g \o t
  BY HeadTailProperties, HeadFirst
<1>3. g \in Seq(Frame) /\ Holding(Head(s)) = g /\ Holding(None) = <<>>
  BY <1>2, HoldingType, SingleType
<1>4. g \o (t \o x) = <<>> \o (s \o x)
  <2> HIDE DEF x, g, t
  <2>1. (g \o t) \o x = g \o (t \o x)
    BY <1>1, <1>2, <1>3, ConcatAssoc
  <2>2. s \o x \in Seq(Frame)
    BY <1>1, ConcatType
  <2> QED BY <1>2, <2>1, <2>2, ConcatEmptySeq
<1> QED BY <1>3, <1>4 DEF Flight

(* The read pump drops the frame it has just read. *)
LEMMA FlightReadDrop ==
    ASSUME NEW s \in Seq(Frame), s # <<>>, NEW W \in BOOLEAN, NEW w \in Slot, NEW q \in Seq(Frame),
           NEW c, c = Flight(None, TRUE, s, W, w, q)
    PROVE  \E i : Taken(c, i, Head(s), Flight(None, TRUE, Tail(s), W, w, q))
<1> DEFINE x == IF W THEN Holding(w) \o q ELSE <<>>
           t == Tail(s)
           u == t \o x
           z == <<>>
<1>1. x \in Seq(Frame)
  BY HoldingType, ConcatType, EmptySeq
<1>2. Head(s) \in Frame /\ t \in Seq(Frame)
  BY HeadTailProperties
<1>3. u \in Seq(Frame)
  <2> HIDE DEF x, t
  <2> QED BY <1>1, <1>2, ConcatType
<1>4. z \in Seq(Frame) /\ Len(z) = 0
  BY EmptySeq
<1>5. Flight(None, TRUE, t, W, w, q) = z \o u
  BY HoldingType DEF Flight
<1>6. c = z \o (<<Head(s)>> \o u)
  <2>1. c = Flight(Head(s), TRUE, t, W, w, q)
    BY FlightRead
  <2>2. c = <<Head(s)>> \o u
    BY <1>2, <2>1, HoldingType DEF Flight
  <2>3. <<Head(s)>> \in Seq(Frame)
    BY <1>2, SingleType
  <2>4. <<Head(s)>> \o u \in Seq(Frame)
    <3> HIDE DEF u
    <3> QED BY <1>3, <2>3, ConcatType
  <2> HIDE DEF u
  <2> QED BY <2>2, <2>4, ConcatEmptySeq
<1>7. Taken(z \o (<<Head(s)>> \o u), Len(z) + 1, Head(s), z \o u)
  <2> HIDE DEF z, u
  <2> QED BY <1>2, <1>3, <1>4, TakenOut
<1> QED BY <1>5, <1>6, <1>7

(* A frame is received. *)
Leads(c, f, d) == c # <<>> /\ Head(c) = f /\ Tail(c) = d

LEMMA FlightRecv ==
    ASSUME NEW r \in Frame, NEW R \in BOOLEAN, NEW s \in Seq(Frame), NEW W \in BOOLEAN,
           NEW w \in Slot, NEW q \in Seq(Frame), NEW c, c = Flight(r, R, s, W, w, q)
    PROVE  Leads(c, r, Flight(None, R, s, W, w, q))
<1> DEFINE x == IF W THEN Holding(w) \o q ELSE <<>>
           y == IF R THEN s \o x ELSE <<>>
           g == <<r>>
<1>1. y \in Seq(Frame)
  <2>1. x \in Seq(Frame)
    BY HoldingType, ConcatType, EmptySeq
  <2> HIDE DEF x
  <2> QED BY <2>1, ConcatType, EmptySeq
<1>2. g \in Seq(Frame) /\ Len(g) = 1 /\ g[1] = r
  BY SingleType
<1>3. c = g \o y /\ Flight(None, R, s, W, w, q) = y
  <2>1. Flight(None, R, s, W, w, q) = <<>> \o y
    BY HoldingType DEF Flight
  <2>2. c = g \o y
    BY HoldingType DEF Flight
  <2> HIDE DEF y
  <2> QED BY <1>1, <2>1, <2>2, ConcatEmptySeq
<1> HIDE DEF y, g
<1>4. /\ c \in Seq(Frame) /\ Len(c) = Len(g) + Len(y)
      /\ \A i \in 1 .. Len(g) + Len(y) : c[i] = IF i <= Len(g) THEN g[i] ELSE y[i - Len(g)]
  <2> DEFINE d == g \o y
  <2>1. /\ d \in Seq(Frame) /\ Len(d) = Len(g) + Len(y)
        /\ \A i \in 1 .. Len(g) + Len(y) : d[i] = IF i <= Len(g) THEN g[i] ELSE y[i - Len(g)]
    BY <1>1, <1>2, ConcatIs
  <2>2. c = d
    BY <1>3
  <2> HIDE DEF d
  <2> QED BY <2>1, <2>2
<1>5. Len(y) \in Nat
  BY <1>1, LenProperties
<1>6. c # <<>>
  BY <1>2, <1>4, <1>5, EmptySeq
<1>7. /\ Head(c) = c[1] /\ Tail(c) \in Seq(Frame) /\ Len(Tail(c)) = Len(c) - 1
      /\ \A i \in 1..Len(Tail(c)) : Tail(c)[i] = c[i + 1]
  BY <1>4, <1>6, HeadTailProperties
<1>8. Len(Tail(c)) = Len(y) /\ \A i \in 1..Len(y) : Tail(c)[i] = y[i]
  BY <1>2, <1>4, <1>5, <1>7
<1>9. Tail(c) = y
  BY <1>1, <1>7, <1>8, SeqEqual
<1> QED BY <1>2, <1>3, <1>4, <1>5, <1>6, <1>7, <1>9 DEF Leads

(* A direction breaks: at the writer, in the socket, or at the reader. *)
LEMMA FlightBreaks ==
    ASSUME NEW r \in Slot, NEW R \in BOOLEAN, NEW s \in Seq(Frame), NEW W \in BOOLEAN,
           NEW w \in Slot, NEW q \in Seq(Frame), NEW c, c = Flight(r, R, s, W, w, q),
           NEW p \in Prefixes(s)
    PROVE  /\ Holding(r) \o (IF R THEN p ELSE <<>>) \in Prefixes(c)
           /\ Holding(r) \in Prefixes(c)
           /\ <<>> \in Prefixes(c)
<1> DEFINE h == Holding(r)
           x == IF W THEN Holding(w) \o q ELSE <<>>
           y == IF R THEN s \o x ELSE <<>>
           z == IF R THEN p ELSE <<>>
<1>1. h \in Seq(Frame) /\ x \in Seq(Frame)
  BY HoldingType, ConcatType, EmptySeq
<1>2. y \in Seq(Frame) /\ z \in Prefixes(y)
  <2>1. CASE R
    <3> HIDE DEF x
    <3>1. s \o x \in Seq(Frame)
      BY <1>1, ConcatType
    <3>2. p \in Prefixes(s \o x)
      BY <1>1, PrefixTrans
    <3> QED BY <2>1, <3>1, <3>2
  <2>2. CASE ~R
    <3>1. <<>> \in Seq(Frame) /\ <<>> \in Prefixes(<<>>)
      BY EmptySeq, PrefixSelf
    <3> QED BY <2>2, <3>1
  <2> QED BY <2>1, <2>2
<1>3. c = h \o y
  BY DEF Flight
<1> HIDE DEF h, y, z
<1>4. h \o z \in Prefixes(h \o y) /\ h \in Prefixes(h \o y)
  BY <1>1, <1>2, PrefixConcat, PrefixOfConcat
<1>5. h \o y \in Seq(Frame)
  BY <1>1, <1>2, ConcatType
<1>6. <<>> \in Prefixes(h \o y)
  BY <1>5, PrefixSelf
<1> QED BY <1>3, <1>4, <1>6 DEF h, z

(* The steps of a channel, of the direction in which e sends.              *)
Same(e) == InFlight(e)' = InFlight(e) /\ Intact(e)' = Intact(e) /\ got'[Peer(e)] = got[Peer(e)]

Accepts(e) ==
    /\ \E f \in Frame : InFlight(e)' = IF Intact(e) THEN Append(InFlight(e), f) ELSE InFlight(e)
    /\ Intact(e)' = Intact(e) /\ got'[Peer(e)] = got[Peer(e)]

Skips(e) ==
    /\ \E i : \E f \in Refused : Taken(InFlight(e), i, f, InFlight(e)')
    /\ Intact(e)' = Intact(e) /\ got'[Peer(e)] = got[Peer(e)]

Delivers(e) ==
    /\ InFlight(e) # <<>> /\ Head(InFlight(e)) \notin Refused
    /\ InFlight(e)' = Tail(InFlight(e))
    /\ Intact(e)' = Intact(e) /\ got'[Peer(e)] = Append(got[Peer(e)], Head(InFlight(e)))

Breaks(e) ==
    /\ ~Intact(e)' /\ InFlight(e)' \in Prefixes(InFlight(e))
    /\ got'[Peer(e)] = got[Peer(e)]

ChannelStep(e) == Same(e) \/ Accepts(e) \/ Skips(e) \/ Delivers(e) \/ Breaks(e)

LEMMA InFlightWas ==
    \A e \in End : InFlight(e)' = Flight(rhold'[Peer(e)], Readable(e)', sock'[e],
                                         Writable(e)', whold'[e], sendq'[e])
  BY DEF InFlight, Flight, Travelling, Waiting

(* The parts of a direction have their types. *)
LEMMA Parts ==
    ASSUME Types, NEW e \in End
    PROVE  /\ Peer(e) \in End /\ Peer(e) # e
           /\ rhold[Peer(e)] \in Slot /\ sock[e] \in Seq(Frame)
           /\ whold[e] \in Slot /\ sendq[e] \in Seq(Frame) /\ got[Peer(e)] \in Seq(Frame)
           /\ Readable(e) \in BOOLEAN /\ Writable(e) \in BOOLEAN
  BY Peers DEF Types, QueueType, SlotType, Readable, Writable

(* Nothing that is in flight moves. *)
LEMMA StillStep ==
    ASSUME NEW e \in End,
           rhold'[Peer(e)] = rhold[Peer(e)], sock'[e] = sock[e],
           whold'[e] = whold[e], sendq'[e] = sendq[e], got'[Peer(e)] = got[Peer(e)],
           Readable(e)' = Readable(e), Writable(e)' = Writable(e)
    PROVE  Same(e)
  BY InFlightIs, InFlightWas DEF Same, Intact

(* What changes, if the direction breaks, is at the ends of the flight. *)
LEMMA BreakStep ==
    ASSUME Types, NEW e \in End, ~Writable(e)',
           Readable(e)' = Readable(e), rhold'[Peer(e)] = rhold[Peer(e)],
           sock'[e] \in Prefixes(sock[e]), got'[Peer(e)] = got[Peer(e)]
    PROVE  Breaks(e)
<1>1. InFlight(e)' = Holding(rhold[Peer(e)]) \o (IF Readable(e) THEN sock'[e] ELSE <<>>)
  <2>1. sock'[e] \in Seq(Frame)
    BY Parts, PrefixType
  <2>2. sock'[e] \o <<>> = sock'[e]
    BY <2>1, ConcatEmptySeq
  <2> QED BY <2>2, InFlightWas DEF Flight
<1>2. InFlight(e)' \in Prefixes(InFlight(e))
  <2>1. InFlight(e) = Flight(rhold[Peer(e)], Readable(e), sock[e], Writable(e), whold[e], sendq[e])
    BY InFlightIs
  <2>2. /\ Readable(e) \in BOOLEAN /\ Writable(e) \in BOOLEAN /\ sock[e] \in Seq(Frame)
        /\ rhold[Peer(e)] \in Slot /\ whold[e] \in Slot /\ sendq[e] \in Seq(Frame)
    BY Parts
  <2>3. Holding(rhold[Peer(e)]) \o (IF Readable(e) THEN sock'[e] ELSE <<>>) \in Prefixes(InFlight(e))
    BY <2>1, <2>2, FlightBreaks
  <2> QED BY <1>1, <2>3
<1> QED BY <1>2 DEF Breaks, Intact

LEMMA BreakAtReader ==
    ASSUME Types, NEW e \in End, ~Readable(e)',
           rhold'[Peer(e)] \in {rhold[Peer(e)], None}, got'[Peer(e)] = got[Peer(e)]
    PROVE  Breaks(e)
<1>1. InFlight(e)' = Holding(rhold'[Peer(e)])
  <2>1. Holding(rhold'[Peer(e)]) \in Seq(Frame)
    BY Parts, HoldingType DEF Slot
  <2>2. Holding(rhold'[Peer(e)]) \o <<>> = Holding(rhold'[Peer(e)])
    BY <2>1, ConcatEmptySeq
  <2> QED BY <2>2, InFlightWas DEF Flight
<1>2. sock[e] \in Prefixes(sock[e])
  BY Parts, PrefixSelf
<1>3. Holding(rhold[Peer(e)]) \in Prefixes(InFlight(e)) /\ <<>> \in Prefixes(InFlight(e))
  <2>1. InFlight(e) = Flight(rhold[Peer(e)], Readable(e), sock[e], Writable(e), whold[e], sendq[e])
    BY InFlightIs
  <2>2. /\ Readable(e) \in BOOLEAN /\ Writable(e) \in BOOLEAN /\ sock[e] \in Seq(Frame)
        /\ rhold[Peer(e)] \in Slot /\ whold[e] \in Slot /\ sendq[e] \in Seq(Frame)
    BY Parts
  <2> QED BY <1>2, <2>1, <2>2, FlightBreaks
<1> QED BY <1>1, <1>3, HoldingType DEF Breaks, Intact

LEMMA SendSteps ==
    ASSUME Types, NEW e \in End, SendStart(e) \/ SendEnqueue(e) \/ SendFails(e) \/ Close(e), NEW d \in End
    PROVE  ChannelStep(d)
<1>1. CASE SendStart(e) \/ SendFails(e) \/ Close(e)
  BY <1>1, StillStep DEF SendStart, SendFails, Close, Readable, Writable, Unheard, ChannelStep
<1>2. CASE SendEnqueue(e)
  <2>1. /\ Readable(d)' = Readable(d) /\ Writable(d)' = Writable(d)
        /\ rhold' = rhold /\ sock' = sock /\ whold' = whold /\ got' = got
    BY <1>2 DEF SendEnqueue, Readable, Writable, Unheard
  <2>2. CASE d # e
    <3>1. sendq'[d] = sendq[d]
      BY <1>2, <2>2 DEF SendEnqueue, Types, QueueType
    <3> QED BY <2>1, <3>1, StillStep DEF ChannelStep
  <2>3. CASE d = e
    <3>1. sender[e] \in Frame /\ sendq'[e] = Append(sendq[e], sender[e])
      BY <1>2 DEF SendEnqueue, Types, QueueType, SlotType, Slot
    <3>2. CASE Readable(d) /\ Writable(d)
      <4>1. InFlight(d)' = Append(InFlight(d), sender[e])
        <5> DEFINE r == rhold[Peer(d)]
                   f == sender[e]
        <5>1. InFlight(d) = Flight(r, TRUE, sock[d], TRUE, whold[d], sendq[d])
          BY <3>2, InFlightIs DEF Flight
        <5>2. InFlight(d)' = Flight(r, TRUE, sock[d], TRUE, whold[d], Append(sendq[d], f))
          BY <2>1, <2>3, <3>1, <3>2, InFlightWas DEF Flight
        <5>3. /\ r \in Slot /\ sock[d] \in Seq(Frame) /\ whold[d] \in Slot
              /\ sendq[d] \in Seq(Frame) /\ f \in Frame
          BY <3>1, Parts
        <5> HIDE DEF r, f
        <5>4. Flight(r, TRUE, sock[d], TRUE, whold[d], Append(sendq[d], f))
                 = Append(Flight(r, TRUE, sock[d], TRUE, whold[d], sendq[d]), f)
          BY <5>3, FlightEnqueue
        <5> QED BY <5>1, <5>2, <5>4 DEF f
      <4> QED BY <2>1, <3>1, <3>2, <4>1 DEF ChannelStep, Accepts, Intact
    <3>3. CASE ~(Readable(d) /\ Writable(d))
      <4>1. InFlight(d)' = InFlight(d)
        BY <2>1, <3>3, InFlightIs, InFlightWas DEF Flight
      <4> QED BY <2>1, <4>1 DEF ChannelStep, Same, Intact
    <3> QED BY <3>2, <3>3
  <2> QED BY <2>2, <2>3
<1> QED BY <1>1, <1>2

LEMMA WriteSteps ==
    ASSUME Types, ScreenInv, NEW e \in End, Write(e) \/ WriteStops(e), NEW d \in End
    PROVE  ChannelStep(d)
<1>1. CASE d # e
  <2>1. /\ rhold' = rhold /\ got' = got /\ ws' = ws /\ cut' = cut /\ rpump' = rpump
        /\ wpump'[d] = wpump[d] /\ whold'[d] = whold[d] /\ sendq'[d] = sendq[d] /\ sock'[d] = sock[d]
    BY <1>1 DEF Write, WriteTake, WriteSkip, WriteOut, WriteFails, WriteStops,
                Types, QueueType, SlotType, StateType
  <2> QED BY <2>1, StillStep DEF Readable, Writable, Unheard, ChannelStep
<1>2. CASE d = e /\ WriteTake(e)
  <2>1. /\ Readable(d)' = Readable(d) /\ Writable(d)' = Writable(d)
        /\ rhold' = rhold /\ sock' = sock /\ got' = got
        /\ whold[d] = None /\ sendq[d] # <<>>
        /\ whold'[d] = Head(sendq[d]) /\ sendq'[d] = Tail(sendq[d])
    BY <1>2 DEF WriteTake, Readable, Writable, Unheard, Types, QueueType, SlotType
  <2>2. InFlight(d)' = InFlight(d)
    BY <2>1, Parts, FlightTake, InFlightIs, InFlightWas
  <2> QED BY <2>1, <2>2 DEF ChannelStep, Same, Intact
<1>3. CASE d = e /\ WriteSkip(e)
  <2>1. /\ Readable(d)' = Readable(d) /\ Writable(d)' = Writable(d)
        /\ rhold' = rhold /\ sock' = sock /\ got' = got /\ sendq' = sendq
        /\ whold[d] \in Oversize /\ whold'[d] = None
    BY <1>3 DEF WriteSkip, Readable, Writable, Unheard, Types, SlotType
  <2>2. whold[d] \in Frame /\ whold[d] \in Refused
    BY <2>1, BufferAssumption DEF Refused
  <2>3. CASE Readable(d) /\ Writable(d)
    <3>1. \E i : Taken(InFlight(d), i, whold[d], InFlight(d)')
      <4>1. InFlight(d) = Flight(rhold[Peer(d)], TRUE, sock[d], TRUE, whold[d], sendq[d])
        BY <2>3, InFlightIs DEF Flight
      <4>2. InFlight(d)' = Flight(rhold[Peer(d)], TRUE, sock[d], TRUE, None, sendq[d])
        BY <2>1, <2>3, InFlightWas DEF Flight
      <4>3. /\ rhold[Peer(d)] \in Slot /\ sock[d] \in Seq(Frame) /\ sendq[d] \in Seq(Frame)
        BY Parts
      <4> QED BY <2>2, <4>1, <4>2, <4>3, FlightSkip
    <3> QED BY <2>1, <2>2, <3>1 DEF ChannelStep, Skips, Intact
  <2>4. CASE ~(Readable(d) /\ Writable(d))
    <3>1. InFlight(d)' = InFlight(d)
      BY <2>1, <2>4, InFlightIs, InFlightWas DEF Flight
    <3> QED BY <2>1, <3>1 DEF ChannelStep, Same, Intact
  <2> QED BY <2>3, <2>4
<1>4. CASE d = e /\ WriteOut(e)
  <2>1. /\ Readable(d)' = Readable(d) /\ Writable(d)' = Writable(d)
        /\ rhold' = rhold /\ got' = got /\ sendq' = sendq
        /\ whold[d] \in Frame /\ whold'[d] = None
    BY <1>4 DEF WriteOut, Readable, Writable, Unheard, Types, SlotType, Slot
  <2>2. CASE Unheard(e)
    <3>1. sock' = sock /\ ~Writable(d)
      BY <1>4, <2>2 DEF WriteOut, Writable
    <3>2. InFlight(d)' = InFlight(d)
      BY <2>1, <3>1, InFlightIs, InFlightWas DEF Flight
    <3> QED BY <2>1, <3>2 DEF ChannelStep, Same, Intact
  <2>3. CASE ~Unheard(e)
    <3>1. sock'[d] = Append(sock[d], whold[d])
      BY <1>4, <2>3 DEF WriteOut, Types, QueueType
    <3>2. Writable(d)
      BY <1>4, <2>1, <2>3, FrameNat DEF WriteOut, Writable, ScreenInv, Screened
    <3>3. InFlight(d)' = InFlight(d)
      <4>1. InFlight(d) = Flight(rhold[Peer(d)], Readable(d), sock[d], TRUE, whold[d], sendq[d])
        BY <3>2, InFlightIs DEF Flight
      <4>2. InFlight(d)' = Flight(rhold[Peer(d)], Readable(d), Append(sock[d], whold[d]), TRUE, None, sendq[d])
        BY <2>1, <3>1, <3>2, InFlightWas DEF Flight
      <4>3. Readable(d) \in BOOLEAN /\ sock[d] \in Seq(Frame) /\ sendq[d] \in Seq(Frame)
        BY Parts
      <4> QED BY <2>1, <4>1, <4>2, <4>3, FlightOut
    <3> QED BY <2>1, <3>3 DEF ChannelStep, Same, Intact
  <2> QED BY <2>2, <2>3
<1>5. CASE d = e /\ WriteFails(e)
  <2>1. /\ Readable(d)' = Readable(d) /\ ~Writable(d) /\ ~Writable(d)'
        /\ rhold' = rhold /\ sock' = sock /\ got' = got
    BY <1>5 DEF WriteFails, Readable, Writable, Unheard, Types, StateType
  <2>2. InFlight(d)' = InFlight(d)
    BY <2>1, InFlightIs, InFlightWas DEF Flight
  <2> QED BY <2>1, <2>2 DEF ChannelStep, Same, Intact
<1>6. CASE d = e /\ WriteStops(e)
  <2>1. /\ Readable(d)' = Readable(d) /\ ~Writable(d)'
        /\ rhold' = rhold /\ sock' = sock /\ got' = got
    BY <1>6 DEF WriteStops, Readable, Writable, Unheard, Types, StateType
  <2>2. sock'[d] \in Prefixes(sock[d])
    BY <2>1, Parts, PrefixSelf
  <2> QED BY <2>1, <2>2, BreakStep DEF ChannelStep
<1> QED BY <1>1, <1>2, <1>3, <1>4, <1>5, <1>6 DEF Write

LEMMA ReadSteps ==
    ASSUME Types, ScreenInv, NEW e \in End, Read(e) \/ Recv(e), NEW d \in End
    PROVE  ChannelStep(d)
<1>1. CASE Peer(d) # e
  <2>1. d = e
    BY <1>1 DEF Peer, End
  <2>2. /\ rhold'[Peer(d)] = rhold[Peer(d)] /\ got'[Peer(d)] = got[Peer(d)] /\ ws' = ws /\ cut' = cut
        /\ rpump'[Peer(d)] = rpump[Peer(d)] /\ wpump' = wpump /\ whold' = whold
        /\ sendq' = sendq /\ sock'[d] = sock[d]
    BY <1>1, <2>1, Peers DEF Read, ReadTake, ReadFails, ReadDrops, ReadStops, Recv,
                Types, QueueType, SlotType, StateType
  <2> QED BY <2>2, StillStep DEF Readable, Writable, Unheard, ChannelStep
<1>2. CASE Peer(d) = e /\ ReadTake(e)
  <2> DEFINE s == sock[d]
  <2>1. Peer(e) = d
    BY <1>2, Peers
  <2>2. /\ Readable(d) /\ Readable(d)' /\ Writable(d)' = Writable(d)
        /\ whold' = whold /\ sendq' = sendq /\ got' = got
        /\ s # <<>> /\ rhold[Peer(d)] = None
    BY <1>2, <2>1 DEF ReadTake, Readable, Writable, Unheard, Types, QueueType
  <2>3. sock'[d] = Tail(s) /\ rhold'[Peer(d)] = IF Head(s) \in Foreign THEN None ELSE Head(s)
    BY <1>2, <2>1 DEF ReadTake, Types, QueueType, SlotType
  <2>4. s \in Seq(Frame)
    BY Parts
  <2> HIDE DEF s
  <2>5. InFlight(d) = Flight(None, TRUE, s, Writable(d), whold[d], sendq[d])
    BY <2>2, InFlightIs DEF s
  <2>6. CASE Head(s) \in Foreign
    <3>1. InFlight(d)' = Flight(None, TRUE, Tail(s), Writable(d), whold[d], sendq[d])
      BY <2>2, <2>3, <2>6, InFlightWas
    <3>2. \E i : Taken(InFlight(d), i, Head(s), InFlight(d)')
      <4>1. Writable(d) \in BOOLEAN /\ whold[d] \in Slot /\ sendq[d] \in Seq(Frame)
        BY Parts
      <4> QED BY <2>2, <2>4, <2>5, <3>1, <4>1, FlightReadDrop
    <3> QED BY <2>2, <2>6, <3>2 DEF ChannelStep, Skips, Intact, Refused
  <2>7. CASE Head(s) \notin Foreign
    <3>1. InFlight(d)' = Flight(Head(s), TRUE, Tail(s), Writable(d), whold[d], sendq[d])
      BY <2>2, <2>3, <2>7, InFlightWas
    <3>2. InFlight(d)' = InFlight(d)
      <4>1. Writable(d) \in BOOLEAN /\ whold[d] \in Slot /\ sendq[d] \in Seq(Frame)
        BY Parts
      <4> QED BY <2>2, <2>4, <2>5, <3>1, <4>1, FlightRead
    <3> QED BY <2>2, <3>2 DEF ChannelStep, Same, Intact
  <2> QED BY <2>6, <2>7
<1>3. CASE Peer(d) = e /\ Recv(e)
  <2>1. /\ Readable(d)' = Readable(d) /\ Writable(d)' = Writable(d)
        /\ sock' = sock /\ whold' = whold /\ sendq' = sendq
        /\ rhold[Peer(d)] \in Frame /\ rhold'[Peer(d)] = None
        /\ got'[Peer(d)] = Append(got[Peer(d)], rhold[Peer(d)])
    BY <1>3 DEF Recv, Readable, Writable, Unheard, Types, QueueType, SlotType, Slot
  <2>2. rhold[Peer(d)] \notin Refused
    BY <1>3 DEF ScreenInv, Screened
  <2>3. /\ InFlight(d) # <<>> /\ Head(InFlight(d)) = rhold[Peer(d)]
        /\ Tail(InFlight(d)) = InFlight(d)'
    <3>1. InFlight(d) = Flight(rhold[Peer(d)], Readable(d), sock[d], Writable(d), whold[d], sendq[d])
      BY InFlightIs
    <3>2. InFlight(d)' = Flight(None, Readable(d), sock[d], Writable(d), whold[d], sendq[d])
      BY <2>1, InFlightWas DEF Flight
    <3>3. /\ Readable(d) \in BOOLEAN /\ Writable(d) \in BOOLEAN /\ sock[d] \in Seq(Frame)
          /\ whold[d] \in Slot /\ sendq[d] \in Seq(Frame)
      BY Parts
    <3>4. Leads(InFlight(d), rhold[Peer(d)], InFlight(d)')
      BY <2>1, <3>1, <3>2, <3>3, FlightRecv
    <3> QED BY <3>4 DEF Leads
  <2> QED BY <2>1, <2>2, <2>3 DEF ChannelStep, Delivers, Intact
<1>4. CASE Peer(d) = e /\ (ReadFails(e) \/ ReadDrops(e) \/ ReadStops(e))
  <2>1. /\ ~Readable(d)' /\ got' = got
        /\ rhold'[Peer(d)] \in {rhold[Peer(d)], None}
    BY <1>4 DEF ReadFails, ReadDrops, ReadStops, Readable, Types, SlotType, StateType
  <2> QED BY <2>1, BreakAtReader DEF ChannelStep
<1> QED BY <1>1, <1>2, <1>3, <1>4 DEF Read

LEMMA CloseSteps ==
    ASSUME Types, NEW e \in End, SendClose(e) \/ CloseSocket(e), NEW d \in End
    PROVE  ChannelStep(d)
<1>1. sock[d] \in Prefixes(sock[d])
  BY Parts, PrefixSelf
<1>2. CASE d = e /\ SendClose(e)
  <2>1. /\ ~Writable(d)' /\ Readable(d)' = Readable(d)
        /\ rhold' = rhold /\ sock' = sock /\ got' = got
    BY <1>2, Peers DEF SendClose, Writable, Readable, Types, StateType
  <2> QED BY <1>1, <2>1, BreakStep DEF ChannelStep
<1>3. CASE d # e /\ SendClose(e)
  <2>1. /\ ws'[d] = ws[d] /\ (ws'[e] = "closed" <=> ws[e] = "closed")
        /\ wpump' = wpump /\ rpump' = rpump /\ cut' = cut
    BY <1>3 DEF SendClose, Types, StateType
  <2>2. Peer(d) = e
    BY <1>3 DEF Peer, End
  <2>3. Readable(d)' = Readable(d) /\ Writable(d)' = Writable(d)
    BY <2>1, <2>2 DEF Readable, Writable, Unheard
  <2> QED BY <1>3, <2>3, StillStep DEF SendClose, ChannelStep
<1>4. CASE d = e /\ CloseSocket(e)
  <2>1. /\ ~Writable(d)' /\ Readable(d)' = Readable(d) /\ rhold' = rhold /\ got' = got
    BY <1>4, Peers DEF CloseSocket, Writable, Readable, Types, StateType
  <2>2. sock'[d] \in Prefixes(sock[d])
    BY <1>4, Peers DEF CloseSocket, Types, QueueType
  <2> QED BY <2>1, <2>2, BreakStep DEF ChannelStep
<1>5. CASE d # e /\ CloseSocket(e)
  <2>1. Peer(d) = e
    BY <1>5 DEF Peer, End
  <2>2. ~Readable(d)' /\ rhold' = rhold /\ got' = got
    BY <1>5, <2>1 DEF CloseSocket, Readable, Types, StateType
  <2> QED BY <2>2, BreakAtReader DEF ChannelStep
<1> QED BY <1>2, <1>3, <1>4, <1>5

LEMMA CutSteps ==
    ASSUME Types, Cut, NEW d \in End
    PROVE  ChannelStep(d)
<1>1. PICK up \in Prefixes(sock["node"]), down \in Prefixes(sock["manager"]) :
          sock' = [node |-> up, manager |-> down]
  BY DEF Cut
<1>2. sock'[d] \in Prefixes(sock[d])
  BY <1>1 DEF End
<1>3. ~Writable(d)' /\ Readable(d)' = Readable(d) /\ rhold' = rhold /\ got' = got
  BY DEF Cut, Writable, Unheard, Readable
<1> QED BY <1>2, <1>3, BreakStep DEF ChannelStep

LEMMA EveryStep ==
    ASSUME Types, ScreenInv, Next, NEW d \in End
    PROVE  ChannelStep(d)
  BY SendSteps, WriteSteps, ReadSteps, CloseSteps, CutSteps DEF Next, EndStep

-----------------------------------------------------------------------------
(* The steps of ChannelStep are those of Channel, in each direction.       *)

LEMMA UpInit == Init => Up!Init
<1> SUFFICES ASSUME Init PROVE Up!Init
  OBVIOUS
<1>1. Readable("node") /\ Writable("node")
  BY DEF Init, Readable, Writable, Unheard, Peer, End
<1>2. InFlight("node") = <<>>
  <2>1. <<>> \o <<>> = <<>>
    BY EmptySeq, ConcatEmptySeq
  <2>2. Peer("node") \in End /\ "node" \in End
    BY DEF Peer, End
  <2> QED BY <1>1, <2>1, <2>2, HoldingType DEF Init, InFlight, Travelling, Waiting
<1> QED BY <1>1, <1>2 DEF Up!Init, Init, Intact, End

LEMMA DownInit == Init => Down!Init
<1> SUFFICES ASSUME Init PROVE Down!Init
  OBVIOUS
<1>1. Readable("manager") /\ Writable("manager")
  BY DEF Init, Readable, Writable, Unheard, Peer, End
<1>2. InFlight("manager") = <<>>
  <2>1. <<>> \o <<>> = <<>>
    BY EmptySeq, ConcatEmptySeq
  <2>2. Peer("manager") \in End /\ "manager" \in End
    BY DEF Peer, End
  <2> QED BY <1>1, <2>1, <2>2, HoldingType DEF Init, InFlight, Travelling, Waiting
<1> QED BY <1>1, <1>2 DEF Down!Init, Init, Intact, End

LEMMA UpStep == ChannelStep("node") => [Up!Next]_(Up!vars)
<1> SUFFICES ASSUME ChannelStep("node") PROVE [Up!Next]_(Up!vars)
  OBVIOUS
<1> DEFINE q == InFlight("node")
<1>1. Peer("node") = "manager"
  BY DEF Peer
<1>2. CASE Same("node")
  BY <1>1, <1>2 DEF Same, Up!vars
<1>3. CASE Accepts("node")
  BY <1>1, <1>3 DEF Accepts, Up!Next, Up!Accept
<1>4. CASE Skips("node")
  BY <1>1, <1>4 DEF Skips, Taken, Refused, Up!Next, Up!Skip, Up!Without
<1>5. CASE Delivers("node")
  BY <1>1, <1>5 DEF Delivers, Refused, Up!Next, Up!Deliver
<1>6. CASE Breaks("node")
  BY <1>1, <1>6 DEF Breaks, Prefixes, Up!Next, Up!Break
<1> QED BY <1>2, <1>3, <1>4, <1>5, <1>6 DEF ChannelStep

LEMMA DownStep == ChannelStep("manager") => [Down!Next]_(Down!vars)
<1> SUFFICES ASSUME ChannelStep("manager") PROVE [Down!Next]_(Down!vars)
  OBVIOUS
<1>1. Peer("manager") = "node"
  BY DEF Peer
<1>2. CASE Same("manager")
  BY <1>1, <1>2 DEF Same, Down!vars
<1>3. CASE Accepts("manager")
  BY <1>1, <1>3 DEF Accepts, Down!Next, Down!Accept
<1>4. CASE Skips("manager")
  BY <1>1, <1>4 DEF Skips, Taken, Refused, Down!Next, Down!Skip, Down!Without
<1>5. CASE Delivers("manager")
  BY <1>1, <1>5 DEF Delivers, Refused, Down!Next, Down!Deliver
<1>6. CASE Breaks("manager")
  BY <1>1, <1>6 DEF Breaks, Prefixes, Down!Next, Down!Break
<1> QED BY <1>2, <1>3, <1>4, <1>5, <1>6 DEF ChannelStep

(* Pumps, buffers, Close and a connection that is cut, of any size, lose,  *)
(* repeat and reorder nothing in either direction before it breaks, and    *)
(* afterwards lose the newest frames only.                                 *)
THEOREM DirectionsAreChannels == Spec => Up!Safety /\ Down!Safety
<1>1. Init => Up!Init /\ Down!Init
  BY UpInit, DownInit
<1>2. Types /\ ScreenInv /\ [Next]_vars => [Up!Next]_(Up!vars) /\ [Down!Next]_(Down!vars)
  <2> SUFFICES ASSUME Types, ScreenInv, [Next]_vars
               PROVE  [Up!Next]_(Up!vars) /\ [Down!Next]_(Down!vars)
    OBVIOUS
  <2>1. CASE Next
    <3>1. "node" \in End /\ "manager" \in End
      BY DEF End
    <3> QED BY <2>1, <3>1, EveryStep, UpStep, DownStep
  <2>2. CASE UNCHANGED vars
    BY <2>2 DEF vars, Up!vars, Down!vars, InFlight, Travelling, Waiting, Intact,
                Readable, Writable, Unheard
  <2> QED BY <2>1, <2>2
<1> QED BY <1>1, <1>2, TypesInvariant, ScreenInvariant, PTL DEF Spec, Up!Safety, Down!Safety


-----------------------------------------------------------------------------
(* What a direction holds.                                                 *)

(* No more is under way in a direction than its stages have places: sendCh *)
(* and the socket, and the hands of the two pumps.  While it is intact, a  *)
(* Send finds sendCh full only if SendBuffer frames are under way.         *)
FlightBounded ==
    \A e \in End :
        /\ Len(InFlight(e)) <= SendBuffer + SockBuffer + 2
        /\ Intact(e) /\ Len(sendq[e]) = SendBuffer => Len(InFlight(e)) >= SendBuffer

(* This is what Dispatch takes a direction of a connection for: one queue  *)
(* with a bound, at which Send blocks.                                     *)
THEOREM FlightIsBounded == Spec => []FlightBounded
<1>1. Types => FlightBounded
  <2> SUFFICES ASSUME Types, NEW e \in End
               PROVE  /\ Len(InFlight(e)) <= SendBuffer + SockBuffer + 2
                      /\ Intact(e) /\ Len(sendq[e]) = SendBuffer
                             => Len(InFlight(e)) >= SendBuffer
    BY DEF FlightBounded
  <2>1. /\ rhold[Peer(e)] \in Slot /\ whold[e] \in Slot
        /\ sock[e] \in Seq(Frame) /\ sendq[e] \in Seq(Frame)
        /\ Len(sock[e]) <= SockBuffer /\ Len(sendq[e]) <= SendBuffer
    BY Peers DEF Types, QueueType, SlotType
  <2>2. /\ Len(sock[e]) \in Nat /\ Len(sendq[e]) \in Nat
        /\ SendBuffer \in Nat /\ SockBuffer \in Nat
    BY <2>1, LenProperties, BufferAssumption
  <2>3. \A f \in Slot : Holding(f) \in Seq(Frame) /\ Len(Holding(f)) \in 0..1
    BY HoldingType, SingleType, EmptySeq DEF Slot
  <2>4. /\ Waiting(e) \in Seq(Frame) /\ Len(Waiting(e)) \in 0..(SendBuffer + 1)
        /\ Writable(e) => Len(Waiting(e)) >= Len(sendq[e])
    <3>1. CASE Writable(e)
      <4>1. /\ Waiting(e) \in Seq(Frame)
            /\ Len(Waiting(e)) = Len(Holding(whold[e])) + Len(sendq[e])
        BY <2>1, <2>3, <3>1, ConcatIs DEF Waiting
      <4> DEFINE h == Len(Holding(whold[e]))
                 w == Len(Waiting(e))
                 n == Len(sendq[e])
      <4>2. h \in 0..1 /\ w = h + n /\ n \in Nat /\ n <= SendBuffer /\ SendBuffer \in Nat
        BY <2>1, <2>2, <2>3, <4>1
      <4> HIDE DEF h, w, n
      <4>3. w \in 0..(SendBuffer + 1) /\ w >= n
        BY <4>2
      <4> QED BY <4>1, <4>3 DEF w, n
    <3>2. CASE ~Writable(e)
      BY <2>2, <3>2, EmptySeq DEF Waiting
    <3> QED BY <3>1, <3>2
  <2>5. /\ Travelling(e) \in Seq(Frame)
        /\ Len(Travelling(e)) \in 0..(SockBuffer + SendBuffer + 1)
        /\ Readable(e) => Len(Travelling(e)) >= Len(Waiting(e))
    <3>1. CASE Readable(e)
      <4>1. /\ Travelling(e) \in Seq(Frame)
            /\ Len(Travelling(e)) = Len(sock[e]) + Len(Waiting(e))
        BY <2>1, <2>4, <3>1, ConcatIs DEF Travelling
      <4> QED BY <2>1, <2>2, <2>4, <4>1
    <3>2. CASE ~Readable(e)
      BY <2>2, <3>2, EmptySeq DEF Travelling
    <3> QED BY <3>1, <3>2
  <2>6. Len(InFlight(e)) = Len(Holding(rhold[Peer(e)])) + Len(Travelling(e))
    BY <2>1, <2>3, <2>5, ConcatIs DEF InFlight
  <2> DEFINE h == Len(Holding(rhold[Peer(e)]))
             t == Len(Travelling(e))
             w == Len(Waiting(e))
             n == Len(InFlight(e))
  <2>7. /\ h \in 0..1 /\ n = h + t /\ t \in 0..(SockBuffer + SendBuffer + 1)
        /\ w \in 0..(SendBuffer + 1) /\ SendBuffer \in Nat /\ SockBuffer \in Nat
    BY <2>1, <2>2, <2>3, <2>4, <2>5, <2>6
  <2>8. Intact(e) /\ Len(sendq[e]) = SendBuffer => t >= w /\ w >= SendBuffer
    BY <2>4, <2>5 DEF Intact
  <2> HIDE DEF h, t, w, n
  <2>9. n <= SendBuffer + SockBuffer + 2
    BY <2>7
  <2>10. t >= w /\ w >= SendBuffer => n >= SendBuffer
    BY <2>7
  <2> QED BY <2>8, <2>9, <2>10 DEF n
<1> QED BY <1>1, TypesInvariant, PTL

-----------------------------------------------------------------------------
(* Nobody hangs.                                                           *)

(* Where the steps that Fairness names can be taken, in terms of what each *)
(* stands in front of. *)
SendCanEnd(e) == done[e] /\ sender[e] # None

CloseGoesOn(e) == done[e] /\ ws[e] # "closed"

WriterGoesOn(e) ==
    \/ whold[e] \in Oversize
    \/ whold[e] # None /\ (ws[e] = "closed" \/ Unheard(e))
    \/ wpump[e] = "run" /\ whold[e] = None /\ done[e]
    \/ wpump[e] = "close" /\ ws[e] = "closed"

ReaderGoesOn(e) ==
    \/ rpump[e] = "run" /\ rhold[e] # None
    \/ rpump[e] = "run" /\ ws[e] # "closed" /\ sock[Peer(e)] # <<>>
    \/ rpump[e] = "run" /\ ReadError(e)
    \/ rpump[e] = "close" /\ ws[e] = "closed"

(* An end that is done and not all gone has somebody who can go on; and as *)
(* long as an end does not know that the other is done, or the link cut,   *)
(* its reader has something to do, or the other end is still closing.      *)
NobodyHangs ==
    \A e \in End :
        /\ done[e] /\ ~Over(e) =>
               SendCanEnd(e) \/ CloseGoesOn(e) \/ WriterGoesOn(e) \/ ReaderGoesOn(e)
        /\ ~done[e] /\ (done[Peer(e)] \/ cut) =>
               ReaderGoesOn(e) \/ CloseGoesOn(Peer(e))

(* A websocket is closed by Close only, which closes done first. *)
CloseOrder == \A e \in End : ws[e] # "open" => done[e]

LEMMA CloseOrdered == Spec => []CloseOrder
<1>1. Init => CloseOrder
  BY DEF Init, CloseOrder
<1>2. Types /\ CloseOrder /\ [Next]_vars => CloseOrder'
  <2> SUFFICES ASSUME Types, CloseOrder, [Next]_vars PROVE CloseOrder'
    OBVIOUS
  <2> USE DEF Types, StateType, CloseOrder
  <2>1. CASE UNCHANGED <<done, ws>>
    BY <2>1
  <2>2. ASSUME NEW e \in End, EndStep(e) PROVE CloseOrder'
    <3>1. CASE WriteFails(e) \/ ReadFails(e) \/ Close(e)
      BY <3>1 DEF WriteFails, ReadFails, Close
    <3>2. CASE SendClose(e) \/ CloseSocket(e)
      BY <3>2 DEF SendClose, CloseSocket
    <3> QED BY <2>1, <2>2, <3>1, <3>2
      DEF EndStep, SendStart, SendEnqueue, SendFails, Write, WriteTake, WriteSkip, WriteOut,
          WriteStops, Read, ReadTake, ReadDrops, ReadStops, Recv
  <2>3. CASE Cut
    BY <2>1, <2>3 DEF Cut
  <2> QED BY <2>1, <2>2, <2>3 DEF Next, vars
<1> QED BY <1>1, <1>2, TypesInvariant, PTL DEF Spec

(* The safety half of ClosesClean and PeerNotices: in no reachable state   *)
(* of Close and the pumps at either end does everybody wait for somebody   *)
(* else, whoever is the first to close and wherever the link was cut.      *)
THEOREM NobodyIsStuck == Spec => []NobodyHangs
<1>1. Types /\ PumpInv /\ CloseOrder => NobodyHangs
  <2> SUFFICES ASSUME Types, PumpInv, CloseOrder, NEW e \in End
               PROVE  /\ done[e] /\ ~Over(e) => \/ SendCanEnd(e) \/ CloseGoesOn(e)
                                                \/ WriterGoesOn(e) \/ ReaderGoesOn(e)
                      /\ ~done[e] /\ (done[Peer(e)] \/ cut) =>
                             ReaderGoesOn(e) \/ CloseGoesOn(Peer(e))
    BY DEF NobodyHangs
  <2>1. /\ wpump[e] \in {"run", "close", "off"} /\ rpump[e] \in {"run", "close", "off"}
        /\ ws[e] \in {"open", "closing", "closed"} /\ Peer(e) \in End
        /\ ws[Peer(e)] \in {"open", "closing", "closed"}
    BY Peers DEF Types, StateType
  <2>2. ASSUME done[e], ~Over(e)
        PROVE  SendCanEnd(e) \/ CloseGoesOn(e) \/ WriterGoesOn(e) \/ ReaderGoesOn(e)
    <3>1. CASE sender[e] # None \/ ws[e] # "closed"
      BY <2>2, <3>1 DEF SendCanEnd, CloseGoesOn
    <3>2. CASE ws[e] = "closed" /\ wpump[e] # "off"
      BY <2>1, <2>2, <3>2 DEF WriterGoesOn
    <3>3. CASE ws[e] = "closed" /\ rpump[e] # "off"
      BY <2>1, <3>3 DEF ReaderGoesOn, ReadError
    <3> QED BY <2>2, <3>1, <3>2, <3>3 DEF Over
  <2>3. ASSUME ~done[e], done[Peer(e)] \/ cut
        PROVE  ReaderGoesOn(e) \/ CloseGoesOn(Peer(e))
    <3>1. rpump[e] = "run" /\ ws[e] # "closed"
      BY <2>1, <2>3 DEF PumpInv, CloseOrder
    <3>2. CASE sock[Peer(e)] = <<>> /\ (cut \/ ws[Peer(e)] = "closed")
      BY <3>1, <3>2 DEF ReaderGoesOn, ReadError, Unheard
    <3>3. CASE ~cut /\ ws[Peer(e)] # "closed"
      BY <2>3, <3>3 DEF CloseGoesOn
    <3> QED BY <3>1, <3>2, <3>3 DEF ReaderGoesOn
  <2> QED BY <2>2, <2>3
<1> QED BY <1>1, TypesInvariant, PumpInvariant, CloseOrdered, PTL

=============================================================================
