------------------------------ MODULE Session ------------------------------
(***************************************************************************)
(* What the manager knows about one node: the credential its handshake is  *)
(* checked against, the session in the registry, and the node row with its *)
(* status and the columns an administrator owns.  The row is written by    *)
(* connection handlers, by the reaper and by API requests, each of which   *)
(* reads one thing, lets go of it, and writes another.                     *)
(*                                                                         *)
(* Tasks are left to Dispatch; here a handler receives register and        *)
(* heartbeat notifications.  One API request runs at a time, against any   *)
(* number of handlers and the reaper.                                      *)
(***************************************************************************)
EXTENDS Naturals, Sequences, FiniteSets

CONSTANTS
    Conn,       \* connection identities, reused once fully torn down
    NoConn,     \* "no connection"
    Name,       \* values of the columns an administrator owns
    NoName,     \* ... as a new row has them (the empty display name)
    SendBuffer, \* frames on their way from the node
    MaxFaults   \* bound on links that break and on silences of a live node

ASSUME SessionAssumption ==
    /\ NoConn \notin Conn
    /\ NoName \in Name
    /\ SendBuffer \in Nat \ {0}
    /\ MaxFaults \in Nat

VARIABLES
    cred,       \* the state column of the node's credential
    row,        \* the node row: [status, name], or NoRow
    reg,        \* the connection in the registry's session for the node
    stale,      \* no frame touched that session for OfflineTimeoutMS
    pc,         \* where the handler of each connection stands
    shown,      \* the name a registering handler has read
    link,       \* the manager's end: "up" or "down"
    up,         \* frames on their way from the node
    nconn,      \* the connection the node serves on
    reaper,     \* "idle", or "write" with the offline status to be written
    api,        \* where the API request in progress stands
    arg,        \* the name a rename is to write, the connection to be closed
    faults      \* failures so far

vars == <<cred, row, reg, stale, pc, shown, link, up, nconn, reaper, api, arg, faults>>

NoRow == [status |-> "none", name |-> NoName]
Row == {NoRow} \cup [status : {"online", "offline"}, name : Name]

(* Mutant of SetStatus: the status is upserted. *)
SetStatusUpserts(s) == row' = [row EXCEPT !.status = s]

(* SetNodeStatus and SetDisplayName affect an existing row only. *)
SetStatus(s) == row' = IF row = NoRow THEN row ELSE [row EXCEPT !.status = s]

SetName(n) == row' = IF row = NoRow THEN row ELSE [row EXCEPT !.name = n]

(* Close of the manager's end: frames still on the wire are lost, except   *)
(* that readPump may hold one decoded frame its select still hands over.   *)
Close(c) ==
    IF c \in Conn /\ link[c] = "up"
    THEN /\ link' = [link EXCEPT ![c] = "down"]
         /\ \E k \in 0..Len(up[c]) : k <= 1 /\ up' = [up EXCEPT ![c] = SubSeq(@, 1, k)]
    ELSE UNCHANGED <<link, up>>

(* An enrolled node that has never connected. *)
Init ==
    /\ cred = "active"
    /\ row = [status |-> "offline", name |-> NoName]
    /\ reg = NoConn
    /\ stale = FALSE
    /\ pc = [c \in Conn |-> "idle"]
    /\ shown = [c \in Conn |-> NoName]
    /\ link = [c \in Conn |-> "down"]
    /\ up = [c \in Conn |-> <<>>]
    /\ nconn = NoConn
    /\ reaper = "idle"
    /\ api = "idle"
    /\ arg = NoConn
    /\ faults = 0

-----------------------------------------------------------------------------
(* A connection and its handler.                                           *)

(* Auth.VerifyNode: the node has its secret, so what counts is whether its *)
(* credential was revoked.                                                 *)
Authentic == cred = "active"

(* ServeHTTP: the handshake is checked against the credential, then the    *)
(* websocket is accepted, and the node sends its register notification.    *)
VerifyNode(c) ==
    /\ nconn = NoConn
    /\ pc[c] = "idle"
    /\ Authentic
    /\ nconn' = c
    /\ link' = [link EXCEPT ![c] = "up"]
    /\ up' = [up EXCEPT ![c] = <<"register">>]
    /\ pc' = [pc EXCEPT ![c] = "verified"]
    /\ UNCHANGED <<cred, row, reg, stale, shown, reaper, api, arg, faults>>

(* Registry.Add closes and replaces whatever session there is. *)
AddSession(c) ==
    /\ pc[c] = "verified"
    /\ Close(reg)
    /\ reg' = c
    /\ stale' = FALSE
    /\ pc' = [pc EXCEPT ![c] = "read"]
    /\ UNCHANGED <<cred, row, shown, nconn, reaper, api, arg, faults>>

(* Every frame touches the session the registry has for the node, be it    *)
(* this handler's or a newer one.                                          *)
Receive(c, kind) ==
    /\ pc[c] = "read"
    /\ up[c] # <<>>
    /\ Head(up[c]) = kind
    /\ up' = [up EXCEPT ![c] = Tail(@)]
    /\ stale' = FALSE

(* handleRegister reads the row ... *)
ReadRegister(c) ==
    /\ Receive(c, "register")
    /\ shown' = [shown EXCEPT ![c] = row.name]
    /\ pc' = [pc EXCEPT ![c] = "upsert"]
    /\ UNCHANGED <<cred, row, reg, link, nconn, reaper, api, arg, faults>>

(* Mutant of UpsertNode: on conflict every column is overwritten. *)
UpsertAllColumns(c) ==
    /\ pc[c] = "upsert"
    /\ row' = [status |-> "online", name |-> shown[c]]
    /\ shown' = [shown EXCEPT ![c] = NoName]
    /\ pc' = [pc EXCEPT ![c] = "read"]
    /\ UNCHANGED <<cred, reg, stale, link, up, nconn, reaper, api, arg, faults>>

(* ... and upserts it: the name it read is used only for a new row.        *)
UpsertNode(c) ==
    /\ pc[c] = "upsert"
    /\ row' = [status |-> "online", name |-> IF row = NoRow THEN shown[c] ELSE row.name]
    /\ shown' = [shown EXCEPT ![c] = NoName]
    /\ pc' = [pc EXCEPT ![c] = "read"]
    /\ UNCHANGED <<cred, reg, stale, link, up, nconn, reaper, api, arg, faults>>

(* A heartbeat: the registry first, then the row. *)
ReadHeartbeat(c) ==
    /\ Receive(c, "heartbeat")
    /\ pc' = [pc EXCEPT ![c] = "beat"]
    /\ UNCHANGED <<cred, row, reg, shown, link, nconn, reaper, api, arg, faults>>

(* Mutant of BeatStatus: a heartbeat refreshes the registry only. *)
BeatRegistryOnly(c) ==
    /\ pc[c] = "beat"
    /\ pc' = [pc EXCEPT ![c] = "read"]
    /\ UNCHANGED <<cred, row, reg, stale, shown, link, up, nconn, reaper, api, arg, faults>>

BeatStatus(c) ==
    /\ pc[c] = "beat"
    /\ SetStatus("online")
    /\ pc' = [pc EXCEPT ![c] = "read"]
    /\ UNCHANGED <<cred, reg, stale, shown, link, up, nconn, reaper, api, arg, faults>>

(* handleConn returns; its deferred Remove drops whatever session the      *)
(* registry holds for the node.  The row is not written.                   *)
Leave(c) ==
    /\ pc[c] = "read"
    /\ link[c] = "down"
    /\ reg' = NoConn
    /\ stale' = FALSE
    /\ pc' = [pc EXCEPT ![c] = "idle"]
    /\ up' = [up EXCEPT ![c] = <<>>]
    /\ UNCHANGED <<cred, row, shown, link, nconn, reaper, api, arg, faults>>

-----------------------------------------------------------------------------
(* The node, the links and time.                                           *)

(* Mutant of NodeHeartbeat: an unbounded send channel. *)
HeartbeatUnbounded(c) ==
    /\ nconn = c
    /\ link[c] = "up"
    /\ up' = [up EXCEPT ![c] = Append(@, "heartbeat")]
    /\ UNCHANGED <<cred, row, reg, stale, pc, shown, link, nconn, reaper, api, arg, faults>>

NodeHeartbeat(c) ==
    /\ nconn = c
    /\ link[c] = "up"
    /\ Len(up[c]) < SendBuffer
    /\ up' = [up EXCEPT ![c] = Append(@, "heartbeat")]
    /\ UNCHANGED <<cred, row, reg, stale, pc, shown, link, nconn, reaper, api, arg, faults>>

(* Serve returns: the link broke or the manager closed it. *)
NodeDrop(c) ==
    /\ nconn = c
    /\ IF link[c] = "up"
       THEN faults < MaxFaults /\ faults' = faults + 1
       ELSE UNCHANGED faults
    /\ nconn' = NoConn
    /\ UNCHANGED <<cred, row, reg, stale, pc, shown, link, up, reaper, api, arg>>

(* The manager's end notices that the node is gone. *)
PeerGone(c) ==
    /\ link[c] = "up"
    /\ nconn # c
    /\ Close(c)
    /\ UNCHANGED <<cred, row, reg, stale, pc, shown, nconn, reaper, api, arg, faults>>

(* OfflineTimeoutMS pass without a frame of the registered session: its    *)
(* node is gone, or busy or cut off for that long (counted).               *)
GoSilent ==
    /\ reg # NoConn
    /\ ~stale
    /\ IF nconn = reg
       THEN faults < MaxFaults /\ faults' = faults + 1
       ELSE UNCHANGED faults
    /\ stale' = TRUE
    /\ UNCHANGED <<cred, row, reg, pc, shown, link, up, nconn, reaper, api, arg>>

(* reapLoop: ReapStale closes and removes, then the status is written.     *)
ReapStale ==
    /\ reaper = "idle"
    /\ reg # NoConn
    /\ stale
    /\ Close(reg)
    /\ reg' = NoConn
    /\ stale' = FALSE
    /\ reaper' = "write"
    /\ UNCHANGED <<cred, row, pc, shown, nconn, api, arg, faults>>

ReapWrite ==
    /\ reaper = "write"
    /\ SetStatus("offline")
    /\ reaper' = "idle"
    /\ UNCHANGED <<cred, reg, stale, pc, shown, link, up, nconn, api, arg, faults>>

-----------------------------------------------------------------------------
(* API requests.                                                           *)

(* handlePatchNode: the row must exist when it is looked at. *)
StartRename(n) ==
    /\ api = "idle"
    /\ row # NoRow
    /\ api' = "rename"
    /\ arg' = n
    /\ UNCHANGED <<cred, row, reg, stale, pc, shown, link, up, nconn, reaper, faults>>

SetDisplayName ==
    /\ api = "rename"
    /\ SetName(arg)
    /\ api' = "idle"
    /\ arg' = NoConn
    /\ UNCHANGED <<cred, reg, stale, pc, shown, link, up, nconn, reaper, faults>>

(* handleRevoke revokes the credential, looks the session up, closes its   *)
(* connection and removes whatever session there is by then; without a     *)
(* session there is nothing more to do.  handleDeleteNode revokes too.     *)
RevokeCredential(next) ==
    /\ api = "idle"
    /\ next \in {"lookup", "remove"}
    /\ cred' = "revoked"
    /\ api' = next
    /\ UNCHANGED <<row, reg, stale, pc, shown, link, up, nconn, reaper, arg, faults>>

RevokeLookup ==
    /\ api = "lookup"
    /\ api' = IF reg = NoConn THEN "idle" ELSE "close"
    /\ arg' = reg
    /\ UNCHANGED <<cred, row, reg, stale, pc, shown, link, up, nconn, reaper, faults>>

RevokeClose ==
    /\ api = "close"
    /\ Close(arg)
    /\ api' = "kick"
    /\ arg' = NoConn
    /\ UNCHANGED <<cred, row, reg, stale, pc, shown, nconn, reaper, faults>>

(* Registry.Remove: the last step of a revoke, the second of a delete. *)
RemoveSession ==
    /\ api \in {"kick", "remove"}
    /\ reg' = NoConn
    /\ stale' = FALSE
    /\ api' = IF api = "kick" THEN "idle" ELSE "delete"
    /\ UNCHANGED <<cred, row, pc, shown, link, up, nconn, reaper, arg, faults>>

DeleteRow ==
    /\ api = "delete"
    /\ row' = NoRow
    /\ api' = "idle"
    /\ UNCHANGED <<cred, reg, stale, pc, shown, link, up, nconn, reaper, arg, faults>>

(* Enroll with the same node id, revoked or not, connected or not: a new   *)
(* credential, which the node is given and connects with next time, ...    *)
PutCredential ==
    /\ api = "idle"
    /\ cred' = "active"
    /\ api' = "ensure"
    /\ UNCHANGED <<row, reg, stale, pc, shown, link, up, nconn, reaper, arg, faults>>

(* ... a look whether there is a row, and the upsert of a new one. *)
EnsureLook ==
    /\ api = "ensure"
    /\ api' = IF row = NoRow THEN "insert" ELSE "idle"
    /\ UNCHANGED <<cred, row, reg, stale, pc, shown, link, up, nconn, reaper, arg, faults>>

EnsureInsert ==
    /\ api = "insert"
    /\ row' = [status |-> "offline", name |-> row.name]
    /\ api' = "idle"
    /\ UNCHANGED <<cred, reg, stale, pc, shown, link, up, nconn, reaper, arg, faults>>

-----------------------------------------------------------------------------
HandlerStep(c) ==
    \/ AddSession(c) \/ ReadRegister(c) \/ UpsertNode(c)
    \/ ReadHeartbeat(c) \/ BeatStatus(c) \/ Leave(c)

ReaperStep == ReapStale \/ ReapWrite

ApiStart ==
    \/ \E n \in Name : StartRename(n)
    \/ \E next \in {"lookup", "remove"} : RevokeCredential(next)
    \/ PutCredential

ApiStep ==
    \/ SetDisplayName \/ RevokeLookup \/ RevokeClose
    \/ RemoveSession \/ DeleteRow \/ EnsureLook \/ EnsureInsert

Next ==
    \/ \E c \in Conn : \/ VerifyNode(c) \/ HandlerStep(c)
                       \/ NodeHeartbeat(c) \/ NodeDrop(c) \/ PeerGone(c)
    \/ GoSilent \/ ReaperStep \/ ApiStart \/ ApiStep

(* Every goroutine that can run does, the ticker of the reaper and that of *)
(* the node's heartbeats run, a started request is carried through, and    *)
(* either end of a connection notices that the other is gone.  Nothing     *)
(* forces a node to come back or an administrator to act.                  *)
NodeNotices(c) == NodeDrop(c) /\ link[c] = "down"

Fairness ==
    /\ \A c \in Conn : WF_vars(HandlerStep(c)) /\ WF_vars(NodeHeartbeat(c))
    /\ \A c \in Conn : WF_vars(NodeNotices(c)) /\ WF_vars(PeerGone(c))
    /\ WF_vars(ReaperStep)
    /\ WF_vars(ApiStep)

Spec == Init /\ [][Next]_vars /\ Fairness

-----------------------------------------------------------------------------
(* Every variable holds a value of its type. *)
TypeOK ==
    /\ cred \in {"active", "revoked"}
    /\ row \in Row
    /\ reg \in Conn \cup {NoConn}
    /\ stale \in BOOLEAN
    /\ pc \in [Conn -> {"idle", "verified", "read", "upsert", "beat"}]
    /\ shown \in [Conn -> Name]
    /\ link \in [Conn -> {"up", "down"}]
    /\ up \in [Conn -> Seq({"register", "heartbeat"})]
    /\ \A c \in Conn : Len(up[c]) <= SendBuffer
    /\ nconn \in Conn \cup {NoConn}
    /\ reaper \in {"idle", "write"}
    /\ api \in {"idle", "rename", "lookup", "close", "kick", "remove", "delete",
               "ensure", "insert"}
    /\ arg \in Name \cup Conn \cup {NoConn}
    /\ faults \in 0..MaxFaults

(* handleRegister preserves the columns it does not own, although it reads *)
(* the row and writes it later: a name changes only by a rename.           *)
NameKept ==
    [][row # NoRow /\ row' # NoRow /\ row'.name # row.name => api = "rename"]_vars

(* A deleted row comes back only by the register notification of a         *)
(* connection that was there: no heartbeat, reaper or rename makes a row.  *)
RowComesBack ==
    [][row = NoRow /\ row' # NoRow /\ cred = "revoked" =>
           \E c \in Conn : pc[c] = "upsert"]_vars

(* The status column is written by handlers and by the reaper in whatever  *)
(* order they get there; while a session lasts, heartbeats correct it.     *)
StatusSettles ==
    (\E c \in Conn : <>[](reg = c /\ nconn = c /\ link[c] = "up")) /\ <>[](row # NoRow)
        => <>[](row.status = "online")

(* docs/design/02-transport.md: a node without a frame for 90 s is judged  *)
(* offline and recorded so.  Only the reaper writes the status, and it     *)
(* looks at registered sessions only: a node whose handler left first is   *)
(* recorded online for ever.                                               *)
OfflineIsRecorded ==
    <>[](nconn = NoConn) => <>[](row.status # "online")

(* The manager's end is up and its handler works on what it receives.      *)
Served(c) == link[c] = "up" /\ pc[c] \in {"read", "upsert", "beat"}

(* docs/design/02-transport.md: once a credential is revoked the handshake *)
(* is refused and sessions that exist are cut (api/enroll_handlers.go says *)
(* "kicks node + refuses reconnect").  handleRevoke closes what the        *)
(* registry has when it looks: a handler that had its credential verified  *)
(* and has not called Registry.Add yet is served for as long as it likes.  *)
(* A delete, "kick + refuse reconnect" in api/node_handlers.go, closes no  *)
(* connection at all.                                                      *)
RevokedIsCut == cred = "revoked" /\ api = "idle" => \A c \in Conn : ~Served(c)

=============================================================================
