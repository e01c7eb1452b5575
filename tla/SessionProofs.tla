--------------------------- MODULE SessionProofs ---------------------------
(***************************************************************************)
(* The types of the session model; that a name set by an administrator     *)
(* survives every interleaving of handlers, reaper and requests; what lets *)
(* a revoked node go on being served; and what leaves an offline node      *)
(* recorded online.                                                        *)
(***************************************************************************)
EXTENDS Session, SequenceTheorems, TLAPS

(* Taking the first frame leaves a queue within the buffer. *)
LEMMA TailOfQueue ==
    ASSUME NEW S, NEW q \in Seq(S), q # <<>>, Len(q) <= SendBuffer
    PROVE  Tail(q) \in Seq(S) /\ Len(Tail(q)) <= SendBuffer
  BY HeadTailProperties, SessionAssumption

(* What a closed connection may still hand over is a queue within it. *)
LEMMA PrefixOfQueue ==
    ASSUME NEW S, NEW q \in Seq(S), Len(q) <= SendBuffer, NEW k \in 0..Len(q)
    PROVE  SubSeq(q, 1, k) \in Seq(S) /\ Len(SubSeq(q, 1, k)) <= SendBuffer
  BY SubSeqProperties, SessionAssumption

(* One more frame, where there is room, stays within the buffer. *)
LEMMA AppendToQueue ==
    ASSUME NEW S, NEW q \in Seq(S), NEW x \in S, Len(q) < SendBuffer
    PROVE  Append(q, x) \in Seq(S) /\ Len(Append(q, x)) <= SendBuffer
  BY AppendProperties, SessionAssumption

LinkOK ==
    /\ link \in [Conn -> {"up", "down"}]
    /\ up \in [Conn -> Seq({"register", "heartbeat"})]
    /\ \A c \in Conn : Len(up[c]) <= SendBuffer

(* Replacing one queue by another of the right kind keeps the queues typed. *)
LEMMA QueueReplaced ==
    ASSUME LinkOK, NEW c \in Conn, NEW q \in Seq({"register", "heartbeat"}),
           Len(q) <= SendBuffer, up' = [up EXCEPT ![c] = q],
           link' \in [Conn -> {"up", "down"}]
    PROVE  LinkOK'
<1>1. up'[c] = q /\ \A d \in Conn : d # c => up'[d] = up[d]
  BY DEF LinkOK
<1> QED BY <1>1 DEF LinkOK

(* Closing either end keeps links and queues typed. *)
LEMMA CloseOK ==
    ASSUME LinkOK, NEW c, Close(c)
    PROVE  LinkOK'
<1>1. CASE c \in Conn /\ link[c] = "up"
  <2>1. PICK k \in 0..Len(up[c]) : up' = [up EXCEPT ![c] = SubSeq(up[c], 1, k)]
    BY <1>1 DEF Close
  <2>2. /\ SubSeq(up[c], 1, k) \in Seq({"register", "heartbeat"})
        /\ Len(SubSeq(up[c], 1, k)) <= SendBuffer
    BY <1>1, PrefixOfQueue DEF LinkOK
  <2>3. link' \in [Conn -> {"up", "down"}]
    BY <1>1 DEF Close, LinkOK
  <2> QED BY <1>1, <2>1, <2>2, <2>3, QueueReplaced
<1>2. CASE ~(c \in Conn /\ link[c] = "up")
  BY <1>2 DEF Close, LinkOK
<1> QED BY <1>1, <1>2

(* The handler's receive keeps links and queues typed. *)
LEMMA ReceiveOK ==
    ASSUME LinkOK, NEW c \in Conn, NEW kind, Receive(c, kind), UNCHANGED link
    PROVE  LinkOK'
<1>1. /\ Tail(up[c]) \in Seq({"register", "heartbeat"})
      /\ Len(Tail(up[c])) <= SendBuffer
  BY TailOfQueue DEF LinkOK, Receive
<1>2. up' = [up EXCEPT ![c] = Tail(up[c])]
  BY DEF Receive
<1> QED BY <1>1, <1>2, QueueReplaced DEF LinkOK

RestOK ==
    /\ cred \in {"active", "revoked"}
    /\ row \in Row
    /\ reg \in Conn \cup {NoConn}
    /\ stale \in BOOLEAN
    /\ pc \in [Conn -> {"idle", "verified", "read", "upsert", "beat"}]
    /\ shown \in [Conn -> Name]
    /\ nconn \in Conn \cup {NoConn}
    /\ reaper \in {"idle", "write"}
    /\ api \in {"idle", "rename", "lookup", "close", "kick", "remove", "delete",
               "ensure", "insert"}
    /\ arg \in Name \cup Conn \cup {NoConn}
    /\ faults \in 0..MaxFaults
    /\ api = "rename" => arg \in Name

(* The initial state has the types. *)
LEMMA InitOK == Init => LinkOK /\ RestOK
<1>1. <<>> \in Seq({"register", "heartbeat"}) /\ Len(<<>>) <= SendBuffer
  BY EmptySeq, SessionAssumption
<1>2. Init => LinkOK
  BY <1>1 DEF Init, LinkOK
<1>3. [status |-> "offline", name |-> NoName] \in Row
  BY SessionAssumption DEF Row
<1>4. /\ [c \in Conn |-> "idle"] \in [Conn -> {"idle", "verified", "read", "upsert", "beat"}]
      /\ [c \in Conn |-> NoName] \in [Conn -> Name]
      /\ 0 \in 0..MaxFaults
  BY SessionAssumption
<1>5. Init => RestOK
  BY <1>3, <1>4 DEF Init, RestOK
<1> QED BY <1>2, <1>5

(* A status or a name written to the row keeps it a row. *)
LEMMA RowWrites ==
    ASSUME row \in Row
    PROVE  /\ \A s \in {"online", "offline"} :
                  SetStatus(s) => row' \in Row /\ (row' = NoRow <=> row = NoRow)
                                  /\ row'.name = row.name
           /\ \A n \in Name : SetName(n) => row' \in Row
           /\ row.name \in Name
  BY SessionAssumption DEF Row, NoRow, SetStatus, SetName

(* Every step of a handler keeps the types. *)
LEMMA HandlerOK ==
    ASSUME LinkOK, RestOK, NEW c \in Conn, HandlerStep(c)
    PROVE  LinkOK' /\ RestOK'
<1> USE SessionAssumption
<1>0. row.name \in Name
  BY RowWrites DEF RestOK
<1>1. CASE AddSession(c)
  <2>1. LinkOK'
    BY <1>1, CloseOK DEF AddSession
  <2> QED BY <1>1, <2>1 DEF AddSession, RestOK
<1>2. CASE ReadRegister(c)
  <2>1. LinkOK'
    BY <1>2, ReceiveOK DEF ReadRegister
  <2>2. pc' \in [Conn -> {"idle", "verified", "read", "upsert", "beat"}]
    BY <1>2 DEF ReadRegister, RestOK
  <2>3. shown' \in [Conn -> Name]
    BY <1>0, <1>2 DEF ReadRegister, RestOK
  <2>4. stale' = FALSE
    BY <1>2, Zenon DEF ReadRegister, Receive
  <2>5. UNCHANGED <<cred, row, reg, nconn, reaper, api, arg, faults>>
    BY <1>2, Zenon DEF ReadRegister
  <2> QED BY <2>1, <2>2, <2>3, <2>4, <2>5, ZenonT(40) DEF RestOK
<1>3. CASE UpsertNode(c)
  <2>1. LinkOK'
    BY <1>3 DEF UpsertNode, LinkOK
  <2>2. row' \in Row
    BY <1>0, <1>3 DEF UpsertNode, RestOK, Row
  <2>3. pc' \in [Conn -> {"idle", "verified", "read", "upsert", "beat"}]
    BY <1>3 DEF UpsertNode, RestOK
  <2> QED BY <1>3, <2>1, <2>2, <2>3 DEF UpsertNode, RestOK
<1>4. CASE ReadHeartbeat(c)
  <2>1. LinkOK'
    BY <1>4, ReceiveOK DEF ReadHeartbeat
  <2>2. stale' = FALSE
    BY <1>4, Zenon DEF ReadHeartbeat, Receive
  <2>3. pc' \in [Conn -> {"idle", "verified", "read", "upsert", "beat"}]
    BY <1>4 DEF ReadHeartbeat, RestOK
  <2>4. UNCHANGED <<cred, row, reg, shown, nconn, reaper, api, arg, faults>>
    BY <1>4, Zenon DEF ReadHeartbeat
  <2> QED BY <2>1, <2>2, <2>3, <2>4, ZenonT(40) DEF RestOK
<1>5. CASE BeatStatus(c)
  <2>1. LinkOK'
    BY <1>5 DEF BeatStatus, LinkOK
  <2>2. row' \in Row
    BY <1>5, RowWrites DEF BeatStatus, RestOK
  <2> QED BY <1>5, <2>1, <2>2 DEF BeatStatus, RestOK
<1>6. CASE Leave(c)
  <2>1. <<>> \in Seq({"register", "heartbeat"}) /\ Len(<<>>) <= SendBuffer
    BY EmptySeq
  <2>2. LinkOK'
    BY <1>6, <2>1, QueueReplaced DEF Leave, LinkOK
  <2> QED BY <1>6, <2>2 DEF Leave, RestOK
<1> QED BY <1>1, <1>2, <1>3, <1>4, <1>5, <1>6 DEF HandlerStep

(* Every step of the node, of its links and of time keeps the types. *)
LEMMA NodeOK ==
    ASSUME LinkOK, RestOK, NEW c \in Conn,
           VerifyNode(c) \/ NodeHeartbeat(c) \/ NodeDrop(c) \/ PeerGone(c) \/ GoSilent
    PROVE  LinkOK' /\ RestOK'
<1> USE SessionAssumption
<1>1. CASE VerifyNode(c)
  <2>1. /\ <<"register">> \in Seq({"register", "heartbeat"})
        /\ Len(<<"register">>) <= SendBuffer
    OBVIOUS
  <2>2. LinkOK'
    BY <1>1, <2>1, QueueReplaced DEF VerifyNode, LinkOK
  <2> QED BY <1>1, <2>2 DEF VerifyNode, RestOK
<1>2. CASE NodeHeartbeat(c)
  <2>1. /\ Append(up[c], "heartbeat") \in Seq({"register", "heartbeat"})
        /\ Len(Append(up[c], "heartbeat")) <= SendBuffer
    BY <1>2, AppendToQueue DEF NodeHeartbeat, LinkOK
  <2>2. up' = [up EXCEPT ![c] = Append(up[c], "heartbeat")] /\ link' = link
    BY <1>2 DEF NodeHeartbeat
  <2>3. LinkOK'
    BY <2>1, <2>2, QueueReplaced DEF LinkOK
  <2> QED BY <1>2, <2>3 DEF NodeHeartbeat, RestOK
<1>3. CASE NodeDrop(c)
  BY <1>3 DEF NodeDrop, LinkOK, RestOK
<1>4. CASE PeerGone(c)
  <2>1. LinkOK'
    BY <1>4, CloseOK DEF PeerGone
  <2> QED BY <1>4, <2>1 DEF PeerGone, RestOK
<1>5. CASE GoSilent
  BY <1>5 DEF GoSilent, LinkOK, RestOK
<1> QED BY <1>1, <1>2, <1>3, <1>4, <1>5

(* Every step of the reaper keeps the types. *)
LEMMA ReaperOK ==
    ASSUME LinkOK, RestOK, ReaperStep
    PROVE  LinkOK' /\ RestOK'
<1> USE SessionAssumption
<1>1. CASE ReapStale
  <2>1. LinkOK'
    BY <1>1, CloseOK DEF ReapStale
  <2> QED BY <1>1, <2>1 DEF ReapStale, RestOK
<1>2. CASE ReapWrite
  <2>1. LinkOK'
    BY <1>2 DEF ReapWrite, LinkOK
  <2>2. row' \in Row
    BY <1>2, RowWrites DEF ReapWrite, RestOK
  <2> QED BY <1>2, <2>1, <2>2 DEF ReapWrite, RestOK
<1> QED BY <1>1, <1>2 DEF ReaperStep

(* Every step of an API request keeps the types. *)
LEMMA ApiOK ==
    ASSUME LinkOK, RestOK, ApiStart \/ ApiStep
    PROVE  LinkOK' /\ RestOK'
<1> USE SessionAssumption
<1>0. row.name \in Name
  BY RowWrites DEF RestOK
<1>1. ASSUME NEW n \in Name, StartRename(n)
      PROVE  LinkOK' /\ RestOK'
  BY <1>1 DEF StartRename, LinkOK, RestOK
<1>2. ASSUME NEW next, RevokeCredential(next)
      PROVE  LinkOK' /\ RestOK'
  BY <1>2 DEF RevokeCredential, LinkOK, RestOK
<1>3. CASE PutCredential
  BY <1>3 DEF PutCredential, LinkOK, RestOK
<1>4. CASE SetDisplayName
  <2>1. row' \in Row
    BY <1>4, RowWrites DEF SetDisplayName, RestOK
  <2> QED BY <1>4, <2>1 DEF SetDisplayName, LinkOK, RestOK
<1>5. CASE RevokeLookup
  BY <1>5 DEF RevokeLookup, LinkOK, RestOK
<1>6. CASE RevokeClose
  <2>1. LinkOK'
    BY <1>6, CloseOK DEF RevokeClose
  <2> QED BY <1>6, <2>1 DEF RevokeClose, RestOK
<1>7. CASE RemoveSession
  BY <1>7 DEF RemoveSession, LinkOK, RestOK
<1>8. CASE DeleteRow
  BY <1>8 DEF DeleteRow, LinkOK, RestOK, Row
<1>9. CASE EnsureLook
  BY <1>9 DEF EnsureLook, LinkOK, RestOK
<1>10. CASE EnsureInsert
  <2>1. row' \in Row
    BY <1>0, <1>10 DEF EnsureInsert, Row
  <2> QED BY <1>10, <2>1 DEF EnsureInsert, LinkOK, RestOK
<1> QED
  BY <1>1, <1>2, <1>3, <1>4, <1>5, <1>6, <1>7, <1>8, <1>9, <1>10
  DEF ApiStart, ApiStep

(* The types of the session model, for any number of connections. *)
THEOREM SessionTypes == Spec => [](LinkOK /\ RestOK)
<1>1. Init => LinkOK /\ RestOK
  BY InitOK
<1>2. LinkOK /\ RestOK /\ [Next]_vars => (LinkOK /\ RestOK)'
  <2>1. CASE UNCHANGED vars
    BY <2>1 DEF vars, LinkOK, RestOK
  <2>2. ASSUME LinkOK, RestOK, Next
        PROVE  (LinkOK /\ RestOK)'
    <3>1. CASE GoSilent
      BY <2>2, <3>1, SessionAssumption DEF GoSilent, LinkOK, RestOK
    <3> QED BY <2>2, <3>1, HandlerOK, NodeOK, ReaperOK, ApiOK DEF Next
  <2> QED BY <2>1, <2>2
<1> QED BY <1>1, <1>2, PTL DEF Spec

(* TypeOK is one half of it. *)
THEOREM SessionTypeCorrect == Spec => []TypeOK
<1>1. LinkOK /\ RestOK => TypeOK
  BY DEF LinkOK, RestOK, TypeOK
<1> QED BY <1>1, SessionTypes, PTL

(* The steps that change the name of an existing row belong to a rename:   *)
(* handleRegister's upsert, which writes what it read earlier, does not.   *)
THEOREM NamesAreKept == Spec => NameKept
<1> DEFINE Kept == row # NoRow /\ row' # NoRow /\ row'.name # row.name => api = "rename"
<1>1. ASSUME RestOK, [Next]_vars
      PROVE  Kept
  <2>1. CASE row' = row
    BY <2>1
  <2>2. ASSUME NEW c \in Conn, HandlerStep(c)
        PROVE  Kept
    <3>1. CASE UpsertNode(c)
      BY <3>1 DEF UpsertNode
    <3>2. CASE BeatStatus(c)
      BY <3>2, <1>1, RowWrites DEF BeatStatus, RestOK
    <3> QED BY <2>1, <2>2, <3>1, <3>2
            DEF HandlerStep, AddSession, ReadRegister, ReadHeartbeat, Leave
  <2>3. CASE ReaperStep
    <3>1. CASE ReapWrite
      BY <3>1, <1>1, RowWrites DEF ReapWrite, RestOK
    <3> QED BY <2>1, <2>3, <3>1 DEF ReaperStep, ReapStale
  <2>4. CASE ApiStart \/ ApiStep
    <3>1. CASE SetDisplayName
      BY <3>1 DEF SetDisplayName
    <3>2. CASE DeleteRow
      BY <3>2 DEF DeleteRow
    <3>3. CASE EnsureInsert
      BY <3>3 DEF EnsureInsert
    <3> QED BY <2>1, <2>4, <3>1, <3>2, <3>3
            DEF ApiStart, ApiStep, StartRename, RevokeCredential, PutCredential,
                RevokeLookup, RevokeClose, RemoveSession, EnsureLook
  <2>5. ASSUME NEW c \in Conn,
               VerifyNode(c) \/ NodeHeartbeat(c) \/ NodeDrop(c) \/ PeerGone(c) \/ GoSilent
        PROVE  Kept
    BY <2>1, <2>5 DEF VerifyNode, NodeHeartbeat, NodeDrop, PeerGone, GoSilent
  <2>6. CASE GoSilent
    BY <2>1, <2>6 DEF GoSilent
  <2>7. CASE UNCHANGED vars
    BY <2>1, <2>7 DEF vars
  <2> QED BY <1>1, <2>2, <2>3, <2>4, <2>5, <2>6, <2>7 DEF Next
<1>2. RestOK /\ [Next]_vars => [Kept]_vars
  BY <1>1
<1> QED BY <1>2, SessionTypes, PTL DEF Spec, NameKept

-----------------------------------------------------------------------------
(* Revoke and delete.                                                      *)

(* While a request revokes, the credential is revoked; while one enrolls   *)
(* it is not.                                                              *)
RequestKnows ==
    /\ api \in {"lookup", "close", "kick", "remove", "delete"} => cred = "revoked"
    /\ api \in {"ensure", "insert"} => cred = "active"

LEMMA RequestsKnow == Spec => []RequestKnows
<1>1. Init => RequestKnows
  BY DEF Init, RequestKnows
<1>2. RequestKnows /\ [Next]_vars => RequestKnows'
  <2>1. CASE UNCHANGED <<cred, api>>
    BY <2>1 DEF RequestKnows
  <2>2. ASSUME RequestKnows, ApiStart \/ ApiStep
        PROVE  RequestKnows'
    BY <2>2
    DEF RequestKnows, ApiStart, ApiStep, StartRename, RevokeCredential, PutCredential,
        SetDisplayName, RevokeLookup, RevokeClose, RemoveSession, DeleteRow, EnsureLook,
        EnsureInsert
  <2>3. ASSUME NEW c \in Conn,
               \/ VerifyNode(c) \/ HandlerStep(c)
               \/ NodeHeartbeat(c) \/ NodeDrop(c) \/ PeerGone(c)
        PROVE  UNCHANGED <<cred, api>>
    BY <2>3
    DEF VerifyNode, HandlerStep, AddSession, ReadRegister, UpsertNode, ReadHeartbeat,
        BeatStatus, Leave, NodeHeartbeat, NodeDrop, PeerGone
  <2>4. GoSilent \/ ReaperStep => UNCHANGED <<cred, api>>
    BY DEF GoSilent, ReaperStep, ReapStale, ReapWrite
  <2> QED BY <2>1, <2>2, <2>3, <2>4 DEF Next, vars
<1> QED BY <1>1, <1>2, PTL DEF Spec

(* A handler whose credential was verified in time registers its session   *)
(* after the credential has been revoked.                                  *)
HandshakeOvertaken == cred = "revoked" /\ \E c \in Conn : AddSession(c)

(* Registry.Remove takes out a session whose connection is up, be it the   *)
(* deferred Remove of an older handler or that of a delete.                *)
RemovesOpen ==
    /\ RemoveSession \/ \E c \in Conn : Leave(c)
    /\ reg # NoConn
    /\ link[reg] = "up"

(* Where neither happens a connection that is served is the registry's, a  *)
(* revoke closes the one it looked up, and it is the only one there is.    *)
ServedIsRegistered == \A c \in Conn : Served(c) => c = reg

ServedIsClosed ==
    cred = "revoked" /\ api \notin {"lookup", "remove"} =>
        \A c \in Conn : Served(c) => api = "close" /\ c = arg

CutInv == ServedIsRegistered /\ ServedIsClosed

(* Close brings no connection up, and the closed one down. *)
LEMMA CloseDowns ==
    ASSUME LinkOK, NEW d, Close(d)
    PROVE  \A c \in Conn : link'[c] = "up" => link[c] = "up" /\ c # d
  BY DEF Close, LinkOK

(* Where no connection comes to be served and the registry, the request    *)
(* and the credential stay, the invariant does too.                        *)
LEMMA CutKept ==
    ASSUME CutInv, UNCHANGED <<cred, api, arg>>,
           \A c \in Conn : Served(c)' => Served(c) /\ c = reg'
    PROVE  CutInv'
  BY DEF CutInv, ServedIsRegistered, ServedIsClosed

LEMMA CutHandlers ==
    ASSUME LinkOK, RestOK, CutInv, NEW c \in Conn, HandlerStep(c),
           ~HandshakeOvertaken, ~RemovesOpen
    PROVE  CutInv'
<1>1. CASE AddSession(c)
  <2>1. cred = "active"
    BY <1>1 DEF HandshakeOvertaken, RestOK
  <2>2. \A d \in Conn : link'[d] = "up" => link[d] = "up" /\ d # reg
    BY <1>1, CloseDowns DEF AddSession
  <2>3. cred' = cred /\ reg' = c /\ \A d \in Conn : d # c => pc'[d] = pc[d]
    BY <1>1 DEF AddSession, RestOK
  <2> QED BY <2>1, <2>2, <2>3 DEF CutInv, ServedIsRegistered, ServedIsClosed, Served
<1>2. CASE Leave(c)
  <2>1. UNCHANGED <<cred, api, arg, link>> /\ \A d \in Conn : d # c => pc'[d] = pc[d]
    BY <1>2 DEF Leave, RestOK
  <2>2. \A d \in Conn : Served(d)' => Served(d) /\ d # c
    BY <1>2, <2>1 DEF Leave, Served
  <2>3. \A d \in Conn : ~Served(d)
    BY <1>2, SessionAssumption DEF RemovesOpen, CutInv, ServedIsRegistered, Served
  <2> QED BY <2>1, <2>2, <2>3, CutKept
<1>3. CASE ReadRegister(c) \/ UpsertNode(c) \/ ReadHeartbeat(c) \/ BeatStatus(c)
  <2>1. UNCHANGED <<cred, api, arg, link, reg>>
    BY <1>3 DEF ReadRegister, UpsertNode, ReadHeartbeat, BeatStatus
  <2>2. /\ pc[c] \in {"read", "upsert", "beat"}
        /\ \A d \in Conn : d # c => pc'[d] = pc[d]
    BY <1>3 DEF ReadRegister, Receive, UpsertNode, ReadHeartbeat, BeatStatus, RestOK
  <2>3. \A d \in Conn : Served(d)' => Served(d)
    BY <2>1, <2>2 DEF Served
  <2> QED BY <2>1, <2>3, CutKept DEF CutInv, ServedIsRegistered
<1> QED BY <1>1, <1>2, <1>3 DEF HandlerStep

LEMMA CutNode ==
    ASSUME LinkOK, RestOK, CutInv, NEW c \in Conn,
           VerifyNode(c) \/ NodeHeartbeat(c) \/ NodeDrop(c) \/ PeerGone(c)
    PROVE  CutInv'
<1>1. UNCHANGED <<cred, api, arg, reg>>
  BY DEF VerifyNode, NodeHeartbeat, NodeDrop, PeerGone
<1>2. CASE VerifyNode(c)
  <2>1. /\ pc'[c] = "verified"
        /\ \A d \in Conn : d # c => pc'[d] = pc[d] /\ link'[d] = link[d]
    BY <1>2 DEF VerifyNode, RestOK, LinkOK
  <2>2. \A d \in Conn : Served(d)' => Served(d)
    BY <2>1 DEF Served
  <2> QED BY <1>1, <2>2, CutKept DEF CutInv, ServedIsRegistered
<1>3. CASE NodeHeartbeat(c) \/ NodeDrop(c)
  <2>1. UNCHANGED <<link, pc>>
    BY <1>3 DEF NodeHeartbeat, NodeDrop
  <2> QED BY <1>1, <2>1, CutKept DEF CutInv, ServedIsRegistered, Served
<1>4. CASE PeerGone(c)
  <2>1. pc' = pc /\ \A d \in Conn : link'[d] = "up" => link[d] = "up"
    BY <1>4, CloseDowns DEF PeerGone
  <2> QED BY <1>1, <2>1, CutKept DEF CutInv, ServedIsRegistered, Served
<1> QED BY <1>2, <1>3, <1>4

LEMMA CutReaper ==
    ASSUME LinkOK, RestOK, CutInv, GoSilent \/ ReaperStep
    PROVE  CutInv'
<1>1. CASE ReapStale
  <2>1. UNCHANGED <<cred, api, arg, pc>>
    BY <1>1 DEF ReapStale
  <2>2. \A d \in Conn : link'[d] = "up" => link[d] = "up" /\ d # reg
    BY <1>1, CloseDowns DEF ReapStale
  <2>3. \A d \in Conn : ~Served(d)'
    BY <2>1, <2>2 DEF CutInv, ServedIsRegistered, Served
  <2> QED BY <2>1, <2>3, CutKept
<1>2. CASE GoSilent \/ ReapWrite
  <2>1. UNCHANGED <<cred, api, arg, pc, link, reg>>
    BY <1>2 DEF GoSilent, ReapWrite
  <2> QED BY <2>1, CutKept DEF CutInv, ServedIsRegistered, Served
<1> QED BY <1>1, <1>2 DEF ReaperStep

LEMMA CutApi ==
    ASSUME LinkOK, RestOK, RequestKnows, CutInv, ApiStart \/ ApiStep, ~RemovesOpen
    PROVE  CutInv'
<1>1. CASE RevokeClose
  <2>1. UNCHANGED <<cred, reg, pc>> /\ api = "close" /\ api' = "kick"
    BY <1>1 DEF RevokeClose
  <2>2. \A c \in Conn : link'[c] = "up" => link[c] = "up" /\ c # arg
    BY <1>1, CloseDowns DEF RevokeClose
  <2>3. \A c \in Conn : ~Served(c)'
    BY <2>1, <2>2 DEF RequestKnows, CutInv, ServedIsClosed, Served
  <2> QED BY <2>3 DEF CutInv, ServedIsRegistered, ServedIsClosed
<1>2. CASE RemoveSession
  <2>1. UNCHANGED <<link, pc>>
    BY <1>2 DEF RemoveSession
  <2>2. \A c \in Conn : ~Served(c)
    BY <1>2, SessionAssumption DEF RemovesOpen, CutInv, ServedIsRegistered, Served
  <2> QED BY <2>1, <2>2 DEF CutInv, ServedIsRegistered, ServedIsClosed, Served
<1>3. CASE \/ RevokeLookup \/ \E next \in {"lookup", "remove"} : RevokeCredential(next)
           \/ PutCredential \/ \E n \in Name : StartRename(n)
           \/ SetDisplayName \/ DeleteRow \/ EnsureLook \/ EnsureInsert
  <2>1. UNCHANGED <<link, pc, reg>>
    BY <1>3
    DEF RevokeLookup, RevokeCredential, PutCredential, StartRename, SetDisplayName,
        DeleteRow, EnsureLook, EnsureInsert
  <2>2. ServedIsRegistered'
    BY <2>1 DEF CutInv, ServedIsRegistered, Served
  <2>3. ASSUME RevokeLookup
        PROVE  ServedIsClosed'
    <3>1. api' = (IF reg = NoConn THEN "idle" ELSE "close") /\ arg' = reg
      BY <2>3 DEF RevokeLookup
    <3>2. \A c \in Conn : Served(c)' => c = reg /\ reg # NoConn
      BY <2>1, SessionAssumption DEF CutInv, ServedIsRegistered, Served
    <3> QED BY <3>1, <3>2 DEF ServedIsClosed
  <2>4. PutCredential => ServedIsClosed'
    BY DEF PutCredential, ServedIsClosed
  <2>5. ASSUME NEW next \in {"lookup", "remove"}, RevokeCredential(next)
        PROVE  ServedIsClosed'
    BY <2>5 DEF RevokeCredential, ServedIsClosed
  <2>6. ASSUME \/ \E n \in Name : StartRename(n)
               \/ SetDisplayName \/ DeleteRow \/ EnsureLook \/ EnsureInsert
        PROVE  ServedIsClosed'
    <3>1. cred' = cred /\ api \notin {"lookup", "remove", "close"}
      BY <2>6 DEF StartRename, SetDisplayName, DeleteRow, EnsureLook, EnsureInsert
    <3> QED BY <2>1, <3>1 DEF CutInv, ServedIsClosed, Served
  <2> QED BY <1>3, <2>2, <2>3, <2>4, <2>5, <2>6 DEF CutInv
<1> QED BY <1>1, <1>2, <1>3 DEF ApiStart, ApiStep

(* docs/design/02-transport.md has a revoke cut the sessions there are.    *)
(* The code breaks this (RevokedIsCut) in two ways only: by a handshake    *)
(* that the revoke overtakes, and by a Remove of a session whose           *)
(* connection stays up.  Without them no connection is served once a       *)
(* revoke or a delete has returned.                                        *)
THEOREM RevokesCut ==
    Spec /\ [][~HandshakeOvertaken /\ ~RemovesOpen]_vars => []RevokedIsCut
<1> DEFINE InTime == ~HandshakeOvertaken /\ ~RemovesOpen
<1>1. Init => CutInv
  BY DEF Init, CutInv, ServedIsRegistered, ServedIsClosed, Served
<1>2. ASSUME LinkOK, RestOK, RequestKnows, CutInv, [Next]_vars, [InTime]_vars
      PROVE  CutInv'
  <2>1. CASE UNCHANGED vars
    BY <1>2, <2>1, CutKept DEF vars, CutInv, ServedIsRegistered, Served
  <2>2. CASE InTime /\ Next
    BY <1>2, <2>2, CutHandlers, CutNode, CutReaper, CutApi DEF Next
  <2> QED BY <1>2, <2>1, <2>2
<1>3. CutInv => RevokedIsCut
  BY DEF CutInv, ServedIsClosed, RevokedIsCut
<1> QED BY <1>1, <1>2, <1>3, SessionTypes, RequestsKnow, PTL DEF Spec

(* The row of a deleted node is made again only by handleRegister of a     *)
(* connection that was there, or by a new enrollment.                      *)
THEOREM RowsComeBack == Spec => RowComesBack
<1> DEFINE Back == row = NoRow /\ row' # NoRow /\ cred = "revoked" =>
                       \E c \in Conn : pc[c] = "upsert"
<1>1. ASSUME RestOK, RequestKnows, [Next]_vars
      PROVE  Back
  <2>1. CASE row' = row
    BY <2>1
  <2>2. ASSUME NEW c \in Conn, HandlerStep(c)
        PROVE  Back
    <3>1. CASE UpsertNode(c)
      BY <3>1 DEF UpsertNode
    <3>2. CASE BeatStatus(c)
      BY <3>2, <1>1, RowWrites DEF BeatStatus, RestOK
    <3> QED BY <2>1, <2>2, <3>1, <3>2
            DEF HandlerStep, AddSession, ReadRegister, ReadHeartbeat, Leave
  <2>3. CASE ReaperStep
    <3>1. CASE ReapWrite
      BY <3>1, <1>1, RowWrites DEF ReapWrite, RestOK
    <3> QED BY <2>1, <2>3, <3>1 DEF ReaperStep, ReapStale
  <2>4. CASE ApiStart \/ ApiStep
    <3>1. CASE SetDisplayName
      BY <3>1 DEF SetDisplayName, SetName
    <3>2. CASE DeleteRow
      BY <3>2 DEF DeleteRow
    <3>3. CASE EnsureInsert
      BY <3>3, <1>1 DEF EnsureInsert, RequestKnows
    <3> QED BY <2>1, <2>4, <3>1, <3>2, <3>3
            DEF ApiStart, ApiStep, StartRename, RevokeCredential, PutCredential,
                RevokeLookup, RevokeClose, RemoveSession, EnsureLook
  <2>5. ASSUME NEW c \in Conn,
               VerifyNode(c) \/ NodeHeartbeat(c) \/ NodeDrop(c) \/ PeerGone(c)
        PROVE  Back
    BY <2>1, <2>5 DEF VerifyNode, NodeHeartbeat, NodeDrop, PeerGone
  <2>6. CASE GoSilent
    BY <2>1, <2>6 DEF GoSilent
  <2>7. CASE UNCHANGED vars
    BY <2>1, <2>7 DEF vars
  <2> QED BY <1>1, <2>2, <2>3, <2>4, <2>5, <2>6, <2>7 DEF Next
<1>2. RestOK /\ RequestKnows /\ [Next]_vars => [Back]_vars
  BY <1>1
<1> QED BY <1>2, SessionTypes, RequestsKnow, PTL DEF Spec, RowComesBack


-----------------------------------------------------------------------------
(* What leaves an offline node recorded online.                            *)

(* The reaper, which alone records a node offline, will get to it: there   *)
(* is a session for it to look at, or it is about to write.                *)
OnlineIsWatched == row.status = "online" => reg # NoConn \/ reaper = "write"

(* Registry.Remove takes the session of an online node out, be it for a    *)
(* handler that returns, a revoke or a delete. *)
RemovesUnrecorded ==
    /\ RemoveSession \/ \E c \in Conn : Leave(c)
    /\ reg # NoConn

(* A handler writes the status when its session is gone and the reaper is  *)
(* done with it. *)
RecordsTooLate ==
    /\ \E c \in Conn : UpsertNode(c) \/ BeatStatus(c)
    /\ reg = NoConn /\ reaper = "idle"

(* docs/design/02-transport.md has a node without frames recorded offline. *)
(* The code breaks this (OfflineIsRecorded) in two ways only: by a Remove  *)
(* after which nobody writes the status, and by a status written after the *)
(* session has gone.  Without them every node recorded online is one that  *)
(* the reaper still looks at, or whose status it is about to correct.      *)
THEOREM OnlineWatched ==
    Spec /\ [][~RemovesUnrecorded /\ ~RecordsTooLate]_vars => []OnlineIsWatched
<1> DEFINE Quiet == ~RemovesUnrecorded /\ ~RecordsTooLate
<1>1. Init => OnlineIsWatched
  BY DEF Init, OnlineIsWatched
<1>2. ASSUME RestOK, OnlineIsWatched, [Next]_vars, [Quiet]_vars
      PROVE  OnlineIsWatched'
  <2>1. CASE UNCHANGED vars
    BY <1>2, <2>1 DEF vars, OnlineIsWatched
  <2>2. ASSUME Quiet, NEW c \in Conn, HandlerStep(c)
        PROVE  OnlineIsWatched'
    <3>1. CASE AddSession(c)
      BY <3>1, SessionAssumption DEF AddSession, OnlineIsWatched
    <3>2. CASE UpsertNode(c) \/ BeatStatus(c)
      BY <1>2, <2>2, <3>2 DEF UpsertNode, BeatStatus, RecordsTooLate, RestOK, OnlineIsWatched
    <3>3. CASE Leave(c)
      BY <1>2, <2>2, <3>3 DEF Leave, RemovesUnrecorded, OnlineIsWatched
    <3> QED BY <1>2, <2>2, <3>1, <3>2, <3>3
            DEF HandlerStep, ReadRegister, ReadHeartbeat, OnlineIsWatched
  <2>3. CASE ReaperStep
    <3>1. ReapWrite => row'.status # "online"
      BY <1>2 DEF ReapWrite, SetStatus, RestOK, Row, NoRow
    <3> QED BY <1>2, <2>3, <3>1 DEF ReaperStep, ReapStale, ReapWrite, OnlineIsWatched
  <2>4. ASSUME Quiet, ApiStart \/ ApiStep
        PROVE  OnlineIsWatched'
    <3>1. CASE SetDisplayName
      BY <1>2, <3>1 DEF SetDisplayName, SetName, RestOK, Row, NoRow, OnlineIsWatched
    <3>2. CASE RemoveSession
      BY <1>2, <2>4, <3>2 DEF RemoveSession, RemovesUnrecorded, OnlineIsWatched
    <3>3. CASE DeleteRow \/ EnsureInsert
      BY <3>3 DEF DeleteRow, EnsureInsert, NoRow, OnlineIsWatched
    <3> QED BY <1>2, <2>4, <3>1, <3>2, <3>3
            DEF ApiStart, ApiStep, StartRename, RevokeCredential, PutCredential,
                RevokeLookup, RevokeClose, EnsureLook, OnlineIsWatched
  <2>5. ASSUME NEW c \in Conn,
               VerifyNode(c) \/ NodeHeartbeat(c) \/ NodeDrop(c) \/ PeerGone(c)
        PROVE  OnlineIsWatched'
    BY <1>2, <2>5 DEF VerifyNode, NodeHeartbeat, NodeDrop, PeerGone, OnlineIsWatched
  <2>6. CASE GoSilent
    BY <1>2, <2>6 DEF GoSilent, OnlineIsWatched
  <2> QED BY <1>2, <2>1, <2>2, <2>3, <2>4, <2>5, <2>6 DEF Next
<1> QED BY <1>1, <1>2, SessionTypes, PTL DEF Spec

=============================================================================
