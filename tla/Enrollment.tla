---------------------------- MODULE Enrollment ----------------------------
(***************************************************************************)
(* How a host becomes a node: an administrator mints one-time tokens, a    *)
(* host runs "sit node setup" or "sit node enroll" with one of them, and   *)
(* the manager exchanges it for a long-term credential that the host keeps *)
(* in its identity file.  Each step of the exchange may be the last one:   *)
(* the client times out, the command is killed, the store fails, the       *)
(* manager or the host goes down; commands are then run again.             *)
(*                                                                         *)
(* The secret the manager generates for a token is named by that token.    *)
(* One command at a time runs on a host; the requests it gave up waiting   *)
(* for may still be in progress at the manager.                            *)
(***************************************************************************)
EXTENDS Naturals

CONSTANTS
    Host,       \* machines to be enrolled
    Token,      \* one-time enrollment tokens, and the secrets issued for them
    NoToken,    \* "no token", "no secret"
    Id,         \* node ids that may be generated
    NoId,       \* "no node id"
    MaxFaults   \* bound on the failures

ASSUME EnrollmentAssumption ==
    /\ NoToken \notin Token
    /\ NoId \notin Id
    /\ MaxFaults \in Nat

VARIABLES
    token,      \* the state column of enroll_tokens, "none" without a row
    lapsed,     \* tokens past their expires_at
    cred,       \* the secret of each node id's credential
    reqs,       \* exchange requests in progress at the manager
    ids,        \* node ids generated so far
    nodeId,     \* the node_id in each host's identity file
    secret,     \* the secret in it
    blank,      \* hosts whose identity file exists but is empty
    service,    \* hosts whose service was installed and started
    cmd,        \* where the command running on a host stands
    kind,       \* whether it is a setup or a bare enroll
    tok,        \* the token it was given
    ans,        \* the node id it was answered
    issued,     \* history: the node id each token's secret was issued to
    faults      \* failures so far

managerVars == <<token, lapsed, cred, reqs, issued>>
fileVars    == <<nodeId, secret, blank>>
cmdVars     == <<cmd, kind, tok, ans>>

vars == <<managerVars, ids, fileVars, service, cmdVars, faults>>

(* An exchange request: its host, whether the command that sent it still   *)
(* waits for the answer, and how far Enroll has come with it.              *)
Request == [host : Host, token : Token, id : Id \cup {NoId},
            at : {"arrived", "consumed", "put"}, heard : BOOLEAN]

Init ==
    /\ token = [k \in Token |-> "none"]
    /\ lapsed = {}
    /\ cred = [i \in Id |-> NoToken]
    /\ reqs = {}
    /\ ids = {}
    /\ nodeId = [h \in Host |-> NoId]
    /\ secret = [h \in Host |-> NoToken]
    /\ blank = {}
    /\ service = {}
    /\ cmd = [h \in Host |-> "idle"]
    /\ kind = [h \in Host |-> "none"]
    /\ tok = [h \in Host |-> NoToken]
    /\ ans = [h \in Host |-> NoId]
    /\ issued = [k \in Token |-> NoId]
    /\ faults = 0

-----------------------------------------------------------------------------
(* The administrator mints tokens, and time passes.                        *)

MintEnrollToken(k) ==
    /\ token[k] = "none"
    /\ token' = [token EXCEPT ![k] = "unused"]
    /\ UNCHANGED <<lapsed, cred, reqs, issued, ids, fileVars, service, cmdVars, faults>>

Lapse(k) ==
    /\ token[k] = "unused"
    /\ k \notin lapsed
    /\ lapsed' = lapsed \cup {k}
    /\ UNCHANGED <<token, cred, reqs, issued, ids, fileVars, service, cmdVars, faults>>

-----------------------------------------------------------------------------
(* A command on a host.                                                    *)

HasFile(h) == nodeId[h] # NoId \/ h \in blank

End(h) ==
    /\ cmd' = [cmd EXCEPT ![h] = "idle"]
    /\ kind' = [kind EXCEPT ![h] = "none"]
    /\ tok' = [tok EXCEPT ![h] = NoToken]
    /\ ans' = [ans EXCEPT ![h] = NoId]

Begin(h, what, step, k) ==
    /\ cmd[h] = "idle"
    /\ token[k] # "none"
    /\ kind' = [kind EXCEPT ![h] = what]
    /\ cmd' = [cmd EXCEPT ![h] = step]
    /\ tok' = [tok EXCEPT ![h] = k]
    /\ UNCHANGED <<managerVars, ids, fileVars, service, ans, faults>>

(* Mutant of StartSetup: an enrolled host is enrolled again. *)
SetupAgain(h, k) == Begin(h, "setup", "load", k)

(* Setup enrolls unless the identity has a secret. *)
StartSetup(h, k) ==
    Begin(h, "setup", IF secret[h] = NoToken THEN "load" ELSE "service", k)

(* Mutant of StartEnroll: the token is not required. *)
EnrollWithoutToken(h, k) ==
    /\ cmd[h] = "idle"
    /\ kind' = [kind EXCEPT ![h] = "enroll"]
    /\ cmd' = [cmd EXCEPT ![h] = "load"]
    /\ UNCHANGED <<managerVars, ids, fileVars, service, tok, ans, faults>>

(* A bare enroll does not look whether there is a secret. *)
StartEnroll(h, k) ==
    Begin(h, "enroll", "load", k)

(* Mutant of LoadIdentity: the new node id may be another host's. *)
LoadSharedIdentity(h) ==
    /\ cmd[h] = "load"
    /\ IF HasFile(h)
       THEN UNCHANGED <<nodeId, ids>>
       ELSE \E i \in Id : /\ nodeId' = [nodeId EXCEPT ![h] = i]
                          /\ ids' = ids \cup {i}
    /\ cmd' = [cmd EXCEPT ![h] = "post"]
    /\ UNCHANGED <<managerVars, secret, blank, service, kind, tok, ans, faults>>

(* LoadOrCreateIdentity: a first run generates a node id and writes it.    *)
LoadIdentity(h) ==
    /\ cmd[h] = "load"
    /\ IF HasFile(h)
       THEN UNCHANGED <<nodeId, ids>>
       ELSE \E i \in Id \ ids : /\ nodeId' = [nodeId EXCEPT ![h] = i]
                                /\ ids' = ids \cup {i}
    /\ cmd' = [cmd EXCEPT ![h] = "post"]
    /\ UNCHANGED <<managerVars, secret, blank, service, kind, tok, ans, faults>>

Post(h) ==
    /\ cmd[h] = "post"
    /\ reqs' = reqs \cup {[host |-> h, token |-> tok[h], id |-> nodeId[h],
                           at |-> "arrived", heard |-> TRUE]}
    /\ cmd' = [cmd EXCEPT ![h] = "wait"]
    /\ UNCHANGED <<token, lapsed, cred, issued, ids, fileVars, service, kind,
                   tok, ans, faults>>

(* Mutant of SaveIdentity: the node id assigned by the manager is ignored. *)
SaveSecretOnly(h) ==
    /\ cmd[h] = "save"
    /\ secret' = [secret EXCEPT ![h] = tok[h]]
    /\ blank' = blank \ {h}
    /\ cmd' = [cmd EXCEPT ![h] = IF kind[h] = "setup" THEN "service" ELSE "idle"]
    /\ kind' = [kind EXCEPT ![h] = IF @ = "setup" THEN @ ELSE "none"]
    /\ tok' = [tok EXCEPT ![h] = NoToken]
    /\ ans' = [ans EXCEPT ![h] = NoId]
    /\ UNCHANGED <<managerVars, ids, nodeId, service, faults>>

SaveIdentity(h) ==
    /\ cmd[h] = "save"
    /\ nodeId' = [nodeId EXCEPT ![h] = ans[h]]
    /\ secret' = [secret EXCEPT ![h] = tok[h]]
    /\ blank' = blank \ {h}
    /\ cmd' = [cmd EXCEPT ![h] = IF kind[h] = "setup" THEN "service" ELSE "idle"]
    /\ kind' = [kind EXCEPT ![h] = IF @ = "setup" THEN @ ELSE "none"]
    /\ tok' = [tok EXCEPT ![h] = NoToken]
    /\ ans' = [ans EXCEPT ![h] = NoId]
    /\ UNCHANGED <<managerVars, ids, service, faults>>

StartService(h) ==
    /\ cmd[h] = "service"
    /\ service' = service \cup {h}
    /\ End(h)
    /\ UNCHANGED <<managerVars, ids, fileVars, faults>>

(* No command waits for the answers of host h's requests any longer.       *)
Unheard(h) == {IF r.host = h THEN [r EXCEPT !.heard = FALSE] ELSE r : r \in reqs}

Fault == faults < MaxFaults /\ faults' = faults + 1

(* Mutant of Abort: setup goes on although enrolling failed. *)
EnrollErrorIgnored(h) ==
    /\ cmd[h] # "idle"
    /\ Fault
    /\ reqs' = Unheard(h)
    /\ IF kind[h] = "setup"
       THEN cmd' = [cmd EXCEPT ![h] = "service"] /\ UNCHANGED <<kind, tok, ans>>
       ELSE End(h)
    /\ UNCHANGED <<token, lapsed, cred, issued, ids, fileVars, service>>

(* The command ends early: an error, a refused overwrite, the client's     *)
(* timeout, a kill.                                                        *)
Abort(h) ==
    /\ cmd[h] # "idle"
    /\ Fault
    /\ reqs' = Unheard(h)
    /\ End(h)
    /\ UNCHANGED <<token, lapsed, cred, issued, ids, fileVars, service>>

(* The host goes down while the identity file, truncated first, is written.*)
TornWrite(h) ==
    /\ cmd[h] = "save" \/ (cmd[h] = "load" /\ ~HasFile(h))
    /\ Fault
    /\ nodeId' = [nodeId EXCEPT ![h] = NoId]
    /\ secret' = [secret EXCEPT ![h] = NoToken]
    /\ blank' = blank \cup {h}
    /\ End(h)
    /\ UNCHANGED <<managerVars, ids, service>>

-----------------------------------------------------------------------------
(* Auth.Enroll at the manager, one statement at a time.                    *)

Usable(k) == token[k] = "unused" /\ k \notin lapsed

(* The answer is an error: the command ends, if it still listens. *)
Refuse(r) ==
    /\ reqs' = reqs \ {r}
    /\ IF r.heard THEN End(r.host) ELSE UNCHANGED cmdVars

Advance(r, at, i) == reqs' = (reqs \ {r}) \cup {[r EXCEPT !.at = at, !.id = i]}

(* Mutant of ConsumeEnrollToken: the state of the token is not looked at. *)
ConsumeAgain(r) ==
    /\ r.at = "arrived"
    /\ r.token \notin lapsed
    /\ token' = [token EXCEPT ![r.token] = "used"]
    /\ IF r.id # NoId
       THEN Advance(r, "consumed", r.id) /\ UNCHANGED ids
       ELSE \E i \in Id \ ids : Advance(r, "consumed", i) /\ ids' = ids \cup {i}
    /\ UNCHANGED <<lapsed, cred, issued, fileVars, service, cmdVars, faults>>

(* Look and mark are one UPDATE.  A request without a node id gets one.    *)
ConsumeEnrollToken(r) ==
    /\ r.at = "arrived"
    /\ Usable(r.token)
    /\ token' = [token EXCEPT ![r.token] = "used"]
    /\ IF r.id # NoId
       THEN Advance(r, "consumed", r.id) /\ UNCHANGED ids
       ELSE \E i \in Id \ ids : Advance(r, "consumed", i) /\ ids' = ids \cup {i}
    /\ UNCHANGED <<lapsed, cred, issued, fileVars, service, cmdVars, faults>>

TokenInvalid(r) ==
    /\ r.at = "arrived"
    /\ ~Usable(r.token)
    /\ Refuse(r)
    /\ UNCHANGED <<token, lapsed, cred, issued, ids, fileVars, service, faults>>

(* The credential of the node id is replaced if there is one. *)
PutCredential(r) ==
    /\ r.at = "consumed"
    /\ cred' = [cred EXCEPT ![r.id] = r.token]
    /\ issued' = [issued EXCEPT ![r.token] = r.id]
    /\ Advance(r, "put", r.id)
    /\ UNCHANGED <<token, lapsed, ids, fileVars, service, cmdVars, faults>>

(* The node row is ensured (see Session), and the answer is sent. *)
Answer(r) ==
    /\ r.at = "put"
    /\ reqs' = reqs \ {r}
    /\ IF r.heard
       THEN /\ cmd' = [cmd EXCEPT ![r.host] = "save"]
            /\ ans' = [ans EXCEPT ![r.host] = r.id]
       ELSE UNCHANGED <<cmd, ans>>
    /\ UNCHANGED <<token, lapsed, cred, issued, ids, fileVars, service, kind,
                   tok, faults>>

(* An error of the store, before or after the token was consumed. *)
EnrollFails(r) ==
    /\ r.at # "put"
    /\ Fault
    /\ Refuse(r)
    /\ UNCHANGED <<token, lapsed, cred, issued, ids, fileVars, service>>

(* The context of a request whose client has gone may be cancelled. *)
Cancelled(r) ==
    /\ ~r.heard
    /\ reqs' = reqs \ {r}
    /\ UNCHANGED <<token, lapsed, cred, issued, ids, fileVars, service,
                   cmdVars, faults>>

ManagerCrash ==
    /\ Fault
    /\ reqs' = {}
    /\ cmd' = [h \in Host |-> IF cmd[h] = "wait" THEN "idle" ELSE cmd[h]]
    /\ kind' = [h \in Host |-> IF cmd[h] = "wait" THEN "none" ELSE kind[h]]
    /\ tok' = [h \in Host |-> IF cmd[h] = "wait" THEN NoToken ELSE tok[h]]
    /\ ans' = [h \in Host |-> IF cmd[h] = "wait" THEN NoId ELSE ans[h]]
    /\ UNCHANGED <<token, lapsed, cred, issued, ids, fileVars, service>>

-----------------------------------------------------------------------------
HostStep(h) ==
    \/ \E k \in Token : StartSetup(h, k) \/ StartEnroll(h, k)
    \/ LoadIdentity(h) \/ Post(h) \/ SaveIdentity(h) \/ StartService(h)
    \/ Abort(h) \/ TornWrite(h)

EnrollStep(r) ==
    \/ ConsumeEnrollToken(r) \/ TokenInvalid(r) \/ PutCredential(r)
    \/ Answer(r) \/ EnrollFails(r) \/ Cancelled(r)

Next ==
    \/ \E k \in Token : MintEnrollToken(k) \/ Lapse(k)
    \/ \E h \in Host : HostStep(h)
    \/ \E r \in reqs : EnrollStep(r)
    \/ ManagerCrash

Spec == Init /\ [][Next]_vars

-----------------------------------------------------------------------------
(* Every variable holds a value of its type. *)
TypeOK ==
    /\ token \in [Token -> {"none", "unused", "used"}]
    /\ lapsed \subseteq Token
    /\ cred \in [Id -> Token \cup {NoToken}]
    /\ reqs \subseteq Request
    /\ issued \in [Token -> Id \cup {NoId}]
    /\ ids \subseteq Id
    /\ nodeId \in [Host -> Id \cup {NoId}]
    /\ secret \in [Host -> Token \cup {NoToken}]
    /\ blank \subseteq Host
    /\ service \subseteq Host
    /\ cmd \in [Host -> {"idle", "load", "post", "wait", "save", "service"}]
    /\ kind \in [Host -> {"none", "setup", "enroll"}]
    /\ tok \in [Host -> Token \cup {NoToken}]
    /\ ans \in [Host -> Id \cup {NoId}]
    /\ faults \in 0..MaxFaults

(* A token buys one credential, for one node id, once: however many hosts  *)
(* present it, and however often a request is repeated after a timeout.    *)
TokenIssuesOnce ==
    [][\A k \in Token : issued[k] # NoId => issued'[k] = issued[k]]_vars

(* The secret a host keeps was issued for the node id it keeps, whatever   *)
(* answers it gave up on and whoever chose the id.                         *)
HostKnowsIssued ==
    \A h \in Host : secret[h] # NoToken => issued[secret[h]] = nodeId[h]

(* PutCredential replaces whatever credential its node id has.  It is that *)
(* of the host that asked, even when the id was chosen by the manager, the *)
(* file was torn or the request is long given up: a host whose secret is   *)
(* accepted loses it only to a request of its own.                         *)
OwnRequestReplaces ==
    [][\A h \in Host :
          secret[h] # NoToken /\ cred[nodeId[h]] = secret[h]
              /\ cred'[nodeId[h]] # secret[h]
          => \E r \in reqs : r.host = h /\ PutCredential(r)]_vars

(* Setup may be run again at any time: once a host has a credential, only  *)
(* a bare enroll replaces it.                                              *)
SetupKeepsCredential ==
    [][\A h \in Host : kind[h] # "enroll" /\ secret[h] # NoToken
           => secret'[h] = secret[h] /\ nodeId'[h] = nodeId[h]]_vars

(* A setup that failed to enroll does not get as far as the service.       *)
ServiceFollowsEnrollment ==
    [][\A h \in service' \ service : secret[h] # NoToken]_vars

(* docs/design/02-transport.md, enrollment: the manager issues a long-term *)
(* credential (17) and the node keeps it (18).  Enroll replaces the stored *)
(* credential of an enrolled node id before the host has the new secret:   *)
(* when the manager dies after PutCredential in a repeated bare enroll,    *)
(* the host keeps the old secret, which is accepted no more.               *)
StoredIsAccepted ==
    \A h \in Host :
        secret[h] # NoToken /\ cmd[h] = "idle" /\ (\A r \in reqs : r.host # h)
            => cred[nodeId[h]] = secret[h]

-----------------------------------------------------------------------------
(* The strengthening that makes the properties inductive.                  *)

(* A consumed token is with one request; what it issued stays as it is.    *)
TokensOK ==
    /\ \A r \in reqs : r.at # "arrived" => token[r.token] = "used" /\ r.id \in Id
    /\ \A r, q \in reqs :
          r.token = q.token /\ r.at # "arrived" /\ q.at # "arrived" => r = q
    /\ \A r \in reqs : r.at = "consumed" => issued[r.token] = NoId
    /\ \A r \in reqs : r.at = "put" => issued[r.token] = r.id
    /\ \A k \in Token : issued[k] # NoId => token[k] = "used"

(* A host listens to one request, and its command has the right token.     *)
AnswersOK ==
    /\ \A r \in reqs : r.heard => cmd[r.host] = "wait" /\ tok[r.host] = r.token
    /\ \A r, q \in reqs : r.heard /\ q.heard /\ r.host = q.host => r = q
    /\ \A h \in Host :
          cmd[h] = "save" => tok[h] \in Token /\ ans[h] \in Id /\ issued[tok[h]] = ans[h]
    /\ \A h \in Host : secret[h] # NoToken => nodeId[h] \in Id

(* A setup that enrolls does so because there was no secret, and there is  *)
(* one when it comes to the service.                                       *)
CommandOK ==
    \A h \in Host :
        /\ cmd[h] # "idle" => kind[h] # "none"
        /\ cmd[h] = "service" => secret[h] # NoToken
        /\ cmd[h] \in {"load", "post", "wait", "save"}
              => tok[h] \in Token /\ (kind[h] = "setup" => secret[h] = NoToken)

EnrollInv == TypeOK /\ TokensOK /\ AnswersOK /\ CommandOK /\ HostKnowsIssued

=============================================================================
