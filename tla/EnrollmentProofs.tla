------------------------- MODULE EnrollmentProofs -------------------------
(***************************************************************************)
(* For any number of hosts, tokens and failures: the types, that a token   *)
(* issues one credential, that a host keeps a secret with the node id it   *)
(* was issued for, and what setup does with a credential.                  *)
(***************************************************************************)
EXTENDS Enrollment, TLAPS

(* A request nobody waits for any longer is otherwise as it was. *)
LEMMA UnheardOne ==
    ASSUME NEW r \in Request
    PROVE  LET q == [r EXCEPT !.heard = FALSE]
           IN  /\ q \in Request /\ q.host = r.host /\ q.token = r.token
               /\ q.at = r.at /\ q.id = r.id /\ q.heard = FALSE
  BY DEF Request

(* Giving up on the requests of a host leaves a request for each, and what *)
(* is said of a token's request stays true.                                *)
LEMMA UnheardOK ==
    ASSUME EnrollInv, NEW h \in Host, reqs' = Unheard(h),
           UNCHANGED <<token, issued>>
    PROVE  /\ reqs' \subseteq Request
           /\ TokensOK'
           /\ \A q \in reqs' : q.heard => q \in reqs /\ q.host # h
<1>1. \A q \in reqs' : \E r \in reqs :
          /\ q.token = r.token /\ q.at = r.at /\ q.id = r.id /\ q \in Request
          /\ q = IF r.host = h THEN [r EXCEPT !.heard = FALSE] ELSE r
          /\ (q.heard => q = r /\ r.host # h)
  <2>1. TAKE q \in reqs'
  <2>2. PICK r \in reqs : q = IF r.host = h THEN [r EXCEPT !.heard = FALSE] ELSE r
    BY DEF Unheard
  <2>3. r \in Request
    BY DEF EnrollInv, TypeOK
  <2> QED BY <2>2, <2>3, UnheardOne
<1>2. ASSUME NEW q \in reqs', NEW p \in reqs',
             q.token = p.token, q.at # "arrived", p.at # "arrived"
      PROVE  q = p
  <2>1. PICK r \in reqs : /\ q.token = r.token /\ q.at = r.at
                         /\ q = IF r.host = h THEN [r EXCEPT !.heard = FALSE] ELSE r
    BY <1>1
  <2>2. PICK s \in reqs : /\ p.token = s.token /\ p.at = s.at
                         /\ p = IF s.host = h THEN [s EXCEPT !.heard = FALSE] ELSE s
    BY <1>1
  <2>3. r.token = s.token /\ r.at # "arrived" /\ s.at # "arrived"
    BY <1>2, <2>1, <2>2
  <2>4. r = s
    BY <2>3 DEF EnrollInv, TokensOK
  <2> QED BY <2>1, <2>2, <2>4
<1>3. \A q \in reqs' :
          /\ q.at # "arrived" => token'[q.token] = "used" /\ q.id \in Id
          /\ q.at = "consumed" => issued'[q.token] = NoId
          /\ q.at = "put" => issued'[q.token] = q.id
  BY <1>1 DEF EnrollInv, TokensOK
<1>4. TokensOK'
  BY <1>2, <1>3 DEF EnrollInv, TokensOK
<1> QED BY <1>1, <1>4

(* The steps of the administrator and of time. *)
LEMMA MintOK ==
    ASSUME EnrollInv, NEW k \in Token, MintEnrollToken(k) \/ Lapse(k)
    PROVE  EnrollInv'
<1>1. TypeOK'
  BY DEF MintEnrollToken, Lapse, fileVars, cmdVars, EnrollInv, TypeOK
<1>2. TokensOK'
  BY DEF MintEnrollToken, Lapse, EnrollInv, TokensOK, TypeOK, Request
<1>3. AnswersOK' /\ CommandOK' /\ HostKnowsIssued'
  BY DEF MintEnrollToken, Lapse, fileVars, cmdVars, EnrollInv, AnswersOK,
         CommandOK, HostKnowsIssued
<1> QED BY <1>1, <1>2, <1>3 DEF EnrollInv

(* A command starts: setup only goes to enroll without a secret. *)
LEMMA BeginOK ==
    ASSUME EnrollInv, NEW h \in Host, NEW k \in Token,
           StartSetup(h, k) \/ StartEnroll(h, k)
    PROVE  EnrollInv'
<1>1. PICK what \in {"setup", "enroll"}, step \in {"load", "service"} :
          /\ Begin(h, what, step, k)
          /\ step = "load" /\ what = "setup" => secret[h] = NoToken
          /\ step = "service" => secret[h] # NoToken
  BY DEF StartSetup, StartEnroll
<1>2. TypeOK'
  BY <1>1 DEF Begin, managerVars, fileVars, EnrollInv, TypeOK
<1>3. TokensOK' /\ HostKnowsIssued'
  BY <1>1 DEF Begin, managerVars, fileVars, EnrollInv, TokensOK, HostKnowsIssued
<1>4. AnswersOK'
  BY <1>1 DEF Begin, managerVars, fileVars, EnrollInv, TypeOK, AnswersOK, Request
<1>5. CommandOK'
  BY <1>1 DEF Begin, fileVars, EnrollInv, TypeOK, CommandOK
<1> QED BY <1>2, <1>3, <1>4, <1>5 DEF EnrollInv

(* The identity file is read, or created with a fresh node id. *)
LEMMA LoadOK ==
    ASSUME EnrollInv, NEW h \in Host, LoadIdentity(h)
    PROVE  EnrollInv'
<1>1. TypeOK'
  BY DEF LoadIdentity, managerVars, EnrollInv, TypeOK
<1>2. TokensOK'
  BY DEF LoadIdentity, managerVars, EnrollInv, TokensOK
<1>3. nodeId' = nodeId \/ (secret[h] = NoToken /\ \A g \in Host : g # h => nodeId'[g] = nodeId[g])
  BY EnrollmentAssumption DEF LoadIdentity, HasFile, EnrollInv, TypeOK, AnswersOK
<1>4. HostKnowsIssued'
  BY <1>3 DEF LoadIdentity, managerVars, EnrollInv, HostKnowsIssued
<1>5. AnswersOK'
  <2>1. \A g \in Host : secret'[g] # NoToken => nodeId'[g] \in Id
    BY <1>3 DEF LoadIdentity, EnrollInv, AnswersOK
  <2> QED BY <2>1 DEF LoadIdentity, managerVars, EnrollInv, TypeOK, AnswersOK, Request
<1>6. CommandOK'
  BY DEF LoadIdentity, EnrollInv, TypeOK, CommandOK
<1> QED BY <1>1, <1>2, <1>4, <1>5, <1>6 DEF EnrollInv

(* The exchange request is sent: the host listens to no other. *)
LEMMA PostOK ==
    ASSUME EnrollInv, NEW h \in Host, Post(h)
    PROVE  EnrollInv'
<1> DEFINE n == [host |-> h, token |-> tok[h], id |-> nodeId[h],
                 at |-> "arrived", heard |-> TRUE]
<1>1. tok[h] \in Token /\ n \in Request /\ reqs' = reqs \cup {n}
  BY DEF Post, EnrollInv, CommandOK, TypeOK, Request
<1>2. /\ n.host = h /\ n.token = tok[h] /\ n.at = "arrived" /\ n.heard = TRUE
  OBVIOUS
<1>3. \A r \in reqs : r.heard => r.host # h
  BY DEF Post, EnrollInv, AnswersOK
<1> HIDE DEF n
<1>4. TypeOK'
  BY <1>1 DEF Post, fileVars, EnrollInv, TypeOK
<1>5. TokensOK'
  BY <1>1, <1>2 DEF Post, EnrollInv, TokensOK
<1>6. AnswersOK'
  <2>1. \A r \in reqs' : r.heard => cmd'[r.host] = "wait" /\ tok'[r.host] = r.token
    BY <1>1, <1>2, <1>3 DEF Post, EnrollInv, TypeOK, AnswersOK, Request
  <2>2. \A r, q \in reqs' : r.heard /\ q.heard /\ r.host = q.host => r = q
    BY <1>1, <1>2, <1>3 DEF EnrollInv, AnswersOK
  <2>3. \A g \in Host : cmd'[g] = "save" => tok'[g] \in Token /\ ans'[g] \in Id
                                            /\ issued'[tok'[g]] = ans'[g]
    BY DEF Post, EnrollInv, TypeOK, AnswersOK
  <2>4. \A g \in Host : secret'[g] # NoToken => nodeId'[g] \in Id
    BY DEF Post, fileVars, EnrollInv, AnswersOK
  <2> QED BY <2>1, <2>2, <2>3, <2>4 DEF AnswersOK
<1>7. CommandOK'
  BY DEF Post, fileVars, EnrollInv, TypeOK, CommandOK
<1>8. HostKnowsIssued'
  BY DEF Post, fileVars, EnrollInv, HostKnowsIssued
<1> QED BY <1>4, <1>5, <1>6, <1>7, <1>8 DEF EnrollInv

(* The answer is written to the identity file: secret and node id belong   *)
(* together.                                                               *)
LEMMA SaveOK ==
    ASSUME EnrollInv, NEW h \in Host, SaveIdentity(h)
    PROVE  EnrollInv'
<1>1. tok[h] \in Token /\ ans[h] \in Id /\ issued[tok[h]] = ans[h]
  BY DEF SaveIdentity, EnrollInv, AnswersOK
<1>2. TypeOK'
  BY DEF SaveIdentity, managerVars, EnrollInv, TypeOK
<1>3. TokensOK'
  BY DEF SaveIdentity, managerVars, EnrollInv, TokensOK
<1>4. AnswersOK'
  BY <1>1 DEF SaveIdentity, managerVars, EnrollInv, TypeOK, AnswersOK, Request
<1>5. CommandOK'
  BY <1>1, EnrollmentAssumption DEF SaveIdentity, EnrollInv, TypeOK, CommandOK
<1>6. HostKnowsIssued'
  BY <1>1 DEF SaveIdentity, managerVars, EnrollInv, TypeOK, HostKnowsIssued
<1> QED BY <1>2, <1>3, <1>4, <1>5, <1>6 DEF EnrollInv

(* The service starts, and setup ends. *)
LEMMA ServiceOK ==
    ASSUME EnrollInv, NEW h \in Host, StartService(h)
    PROVE  EnrollInv'
<1>1. TypeOK'
  BY DEF StartService, End, managerVars, fileVars, EnrollInv, TypeOK
<1>2. TokensOK' /\ HostKnowsIssued'
  BY DEF StartService, managerVars, fileVars, EnrollInv, TokensOK, HostKnowsIssued
<1>3. AnswersOK'
  BY DEF StartService, End, managerVars, fileVars, EnrollInv, TypeOK, AnswersOK, Request
<1>4. CommandOK'
  BY DEF StartService, End, fileVars, EnrollInv, TypeOK, CommandOK
<1> QED BY <1>1, <1>2, <1>3, <1>4 DEF EnrollInv

(* A command ends early; its request, if any, goes on unheard. *)
LEMMA AbortOK ==
    ASSUME EnrollInv, NEW h \in Host, Abort(h)
    PROVE  EnrollInv'
<1>1. /\ reqs' \subseteq Request /\ TokensOK'
      /\ \A q \in reqs' : q.heard => q \in reqs /\ q.host # h
  BY UnheardOK DEF Abort
<1>2. TypeOK'
  BY <1>1, EnrollmentAssumption DEF Abort, End, Fault, fileVars, EnrollInv, TypeOK
<1>3. AnswersOK'
  BY <1>1 DEF Abort, End, fileVars, EnrollInv, TypeOK, AnswersOK, Request
<1>4. CommandOK' /\ HostKnowsIssued'
  BY DEF Abort, End, fileVars, EnrollInv, TypeOK, CommandOK, HostKnowsIssued
<1> QED BY <1>1, <1>2, <1>3, <1>4 DEF EnrollInv

(* A torn file has neither a secret nor a node id. *)
LEMMA TornOK ==
    ASSUME EnrollInv, NEW h \in Host, TornWrite(h)
    PROVE  EnrollInv'
<1>1. TypeOK'
  BY EnrollmentAssumption DEF TornWrite, End, Fault, managerVars, EnrollInv, TypeOK
<1>2. TokensOK'
  BY DEF TornWrite, managerVars, EnrollInv, TokensOK
<1>3. AnswersOK'
  BY DEF TornWrite, End, managerVars, EnrollInv, TypeOK, AnswersOK, Request
<1>4. CommandOK' /\ HostKnowsIssued'
  BY DEF TornWrite, End, managerVars, EnrollInv, TypeOK, CommandOK, HostKnowsIssued
<1> QED BY <1>1, <1>2, <1>3, <1>4 DEF EnrollInv

(* Every step of a command on a host preserves the invariant. *)
LEMMA HostStepOK ==
    ASSUME EnrollInv, NEW h \in Host, HostStep(h)
    PROVE  EnrollInv'
  BY BeginOK, LoadOK, PostOK, SaveOK, ServiceOK, AbortOK, TornOK DEF HostStep

(* A consumed token is with this request: no other one has consumed it. *)
LEMMA ConsumeOK ==
    ASSUME EnrollInv, NEW r \in reqs, ConsumeEnrollToken(r)
    PROVE  EnrollInv'
<1>1. r \in Request /\ r.token \in Token /\ token[r.token] = "unused"
  BY DEF ConsumeEnrollToken, Usable, EnrollInv, TypeOK, Request
<1>2. PICK i \in Id : Advance(r, "consumed", i) /\ ids' \subseteq Id
  BY <1>1 DEF ConsumeEnrollToken, EnrollInv, TypeOK, Request
<1> DEFINE n == [r EXCEPT !.at = "consumed", !.id = i]
<1>3. /\ n \in Request /\ n.host = r.host /\ n.token = r.token
      /\ n.at = "consumed" /\ n.id = i /\ n.heard = r.heard
  BY <1>1 DEF Request
<1>4. reqs' = (reqs \ {r}) \cup {n}
  BY <1>2 DEF Advance
<1> HIDE DEF n
<1>5. \A q \in reqs : q.token = r.token => q.at = "arrived"
  BY <1>1 DEF EnrollInv, TokensOK
<1>6. issued[r.token] = NoId
  BY <1>1 DEF EnrollInv, TokensOK
<1>7. TypeOK'
  BY <1>1, <1>2, <1>3, <1>4
     DEF ConsumeEnrollToken, fileVars, cmdVars, EnrollInv, TypeOK
<1>8. TokensOK'
  BY <1>1, <1>3, <1>4, <1>5, <1>6
     DEF ConsumeEnrollToken, EnrollInv, TypeOK, TokensOK, Request
<1>9. AnswersOK' /\ CommandOK' /\ HostKnowsIssued'
  BY <1>3, <1>4 DEF ConsumeEnrollToken, fileVars, cmdVars, EnrollInv, AnswersOK,
                    CommandOK, HostKnowsIssued
<1> QED BY <1>7, <1>8, <1>9 DEF EnrollInv

(* The credential is stored: the token has issued its one secret. *)
LEMMA PutOK ==
    ASSUME EnrollInv, NEW r \in reqs, PutCredential(r)
    PROVE  EnrollInv'
<1>1. /\ r \in Request /\ r.token \in Token /\ r.id \in Id
      /\ issued[r.token] = NoId /\ token[r.token] = "used"
  BY DEF PutCredential, EnrollInv, TypeOK, TokensOK, Request
<1> DEFINE n == [r EXCEPT !.at = "put", !.id = r.id]
<1>2. /\ n \in Request /\ n.host = r.host /\ n.token = r.token
      /\ n.at = "put" /\ n.id = r.id /\ n.heard = r.heard
  BY <1>1 DEF Request
<1>3. reqs' = (reqs \ {r}) \cup {n}
  BY DEF PutCredential, Advance
<1> HIDE DEF n
<1>4. \A q \in reqs : q.token = r.token /\ q # r => q.at = "arrived"
  BY <1>1 DEF PutCredential, EnrollInv, TokensOK
<1>5. TypeOK'
  BY <1>1, <1>2, <1>3 DEF PutCredential, fileVars, cmdVars, EnrollInv, TypeOK
<1>6. TokensOK'
  BY <1>1, <1>2, <1>3, <1>4 DEF PutCredential, EnrollInv, TypeOK, TokensOK, Request
<1>7. \A k \in Token : issued[k] # NoId => issued'[k] = issued[k]
  BY <1>1 DEF PutCredential, EnrollInv, TypeOK
<1>8. AnswersOK'
  BY <1>2, <1>3, <1>7, EnrollmentAssumption
     DEF PutCredential, fileVars, cmdVars, EnrollInv, TypeOK, AnswersOK
<1>9. HostKnowsIssued'
  <2>1. \A h \in Host : secret[h] # NoToken => nodeId[h] \in Id /\ secret[h] \in Token
    BY DEF EnrollInv, AnswersOK, TypeOK
  <2> QED BY <1>7, <2>1, EnrollmentAssumption
          DEF PutCredential, fileVars, EnrollInv, HostKnowsIssued
<1>10. CommandOK'
  BY DEF PutCredential, fileVars, cmdVars, EnrollInv, CommandOK
<1> QED BY <1>5, <1>6, <1>8, <1>9, <1>10 DEF EnrollInv

(* A request leaves the manager with an error; its command ends. *)
LEMMA RefuseOK ==
    ASSUME EnrollInv, NEW r \in reqs, Refuse(r), faults' \in 0..MaxFaults,
           UNCHANGED <<token, lapsed, cred, issued, ids, fileVars, service>>
    PROVE  EnrollInv'
<1>1. r \in Request /\ r.host \in Host
  BY DEF EnrollInv, TypeOK, Request
<1>2. \A q \in reqs' : q \in reqs /\ (r.heard /\ q.heard => q.host # r.host)
  BY DEF Refuse, EnrollInv, AnswersOK
<1>3. TypeOK'
  BY <1>1 DEF Refuse, End, fileVars, cmdVars, EnrollInv, TypeOK
<1>4. TokensOK' /\ HostKnowsIssued'
  BY <1>2 DEF fileVars, EnrollInv, TokensOK, HostKnowsIssued
<1>5. CASE r.heard
  <2>1. AnswersOK'
    BY <1>1, <1>2, <1>5 DEF Refuse, End, fileVars, EnrollInv, TypeOK, AnswersOK, Request
  <2>2. CommandOK'
    BY <1>1, <1>5 DEF Refuse, End, fileVars, EnrollInv, TypeOK, CommandOK
  <2> QED BY <1>3, <1>4, <2>1, <2>2 DEF EnrollInv
<1>6. CASE ~r.heard
  <2>1. AnswersOK' /\ CommandOK'
    BY <1>2, <1>6 DEF Refuse, fileVars, cmdVars, EnrollInv, AnswersOK, CommandOK
  <2> QED BY <1>3, <1>4, <2>1 DEF EnrollInv
<1> QED BY <1>5, <1>6

(* The answer reaches a command that still waits: it is its own. *)
LEMMA AnswerOK ==
    ASSUME EnrollInv, NEW r \in reqs, Answer(r)
    PROVE  EnrollInv'
<1>1. /\ r \in Request /\ r.host \in Host /\ r.token \in Token
      /\ r.id \in Id /\ issued[r.token] = r.id
  BY DEF Answer, EnrollInv, TypeOK, TokensOK, Request
<1>2. \A q \in reqs' : q \in reqs /\ (r.heard /\ q.heard => q.host # r.host)
  BY DEF Answer, EnrollInv, AnswersOK
<1>3. TypeOK'
  BY <1>1 DEF Answer, fileVars, EnrollInv, TypeOK
<1>4. TokensOK' /\ HostKnowsIssued'
  BY <1>2 DEF Answer, fileVars, EnrollInv, TokensOK, HostKnowsIssued
<1>5. CASE r.heard
  <2>1. cmd[r.host] = "wait" /\ tok[r.host] = r.token
    BY <1>5 DEF EnrollInv, AnswersOK
  <2>2. AnswersOK'
    BY <1>1, <1>2, <1>5, <2>1 DEF Answer, fileVars, EnrollInv, TypeOK, AnswersOK, Request
  <2>3. CommandOK'
    BY <1>1, <1>5, <2>1 DEF Answer, fileVars, EnrollInv, TypeOK, CommandOK
  <2> QED BY <1>3, <1>4, <2>2, <2>3 DEF EnrollInv
<1>6. CASE ~r.heard
  <2>1. AnswersOK' /\ CommandOK'
    BY <1>2, <1>6 DEF Answer, fileVars, EnrollInv, AnswersOK, CommandOK
  <2> QED BY <1>3, <1>4, <2>1 DEF EnrollInv
<1> QED BY <1>5, <1>6

(* A request nobody waits for may vanish. *)
LEMMA CancelledOK ==
    ASSUME EnrollInv, NEW r \in reqs, Cancelled(r)
    PROVE  EnrollInv'
<1>1. reqs' \subseteq reqs
  BY DEF Cancelled
<1>2. TypeOK' /\ TokensOK'
  BY <1>1 DEF Cancelled, fileVars, cmdVars, EnrollInv, TypeOK, TokensOK
<1>3. AnswersOK' /\ CommandOK' /\ HostKnowsIssued'
  BY <1>1 DEF Cancelled, fileVars, cmdVars, EnrollInv, AnswersOK, CommandOK,
              HostKnowsIssued
<1> QED BY <1>2, <1>3 DEF EnrollInv

(* Every step of Enroll preserves the invariant. *)
LEMMA EnrollStepOK ==
    ASSUME EnrollInv, NEW r \in reqs, EnrollStep(r)
    PROVE  EnrollInv'
<1>1. CASE TokenInvalid(r)
  BY <1>1, RefuseOK DEF TokenInvalid, EnrollInv, TypeOK
<1>2. CASE EnrollFails(r)
  <2>1. faults' \in 0..MaxFaults
    BY <1>2, EnrollmentAssumption DEF EnrollFails, Fault, EnrollInv, TypeOK
  <2> QED BY <1>2, <2>1, RefuseOK DEF EnrollFails
<1> QED BY <1>1, <1>2, ConsumeOK, PutOK, AnswerOK, CancelledOK DEF EnrollStep

(* The manager goes down with the requests in progress. *)
LEMMA ManagerCrashOK ==
    ASSUME EnrollInv, ManagerCrash
    PROVE  EnrollInv'
<1>1. TypeOK'
  BY EnrollmentAssumption DEF ManagerCrash, Fault, fileVars, EnrollInv, TypeOK
<1>2. TokensOK' /\ HostKnowsIssued'
  BY DEF ManagerCrash, fileVars, EnrollInv, TokensOK, HostKnowsIssued
<1>3. AnswersOK' /\ CommandOK'
  BY DEF ManagerCrash, fileVars, EnrollInv, TypeOK, AnswersOK, CommandOK
<1> QED BY <1>1, <1>2, <1>3 DEF EnrollInv

(* The initial state satisfies the invariant. *)
LEMMA EnrollInitOK == Init => EnrollInv
<1>1. Init => TypeOK
  BY EnrollmentAssumption DEF Init, TypeOK
<1>2. Init => TokensOK /\ AnswersOK /\ CommandOK /\ HostKnowsIssued
  BY DEF Init, TokensOK, AnswersOK, CommandOK, HostKnowsIssued
<1> QED BY <1>1, <1>2 DEF EnrollInv

(* The inductive invariant of the exchange. *)
THEOREM EnrollmentInvariant == Spec => []EnrollInv
<1>1. EnrollInv /\ [Next]_vars => EnrollInv'
  <2>1. CASE UNCHANGED vars
    BY <2>1 DEF vars, managerVars, fileVars, cmdVars, EnrollInv, TypeOK, TokensOK,
                AnswersOK, CommandOK, HostKnowsIssued
  <2> QED BY <2>1, MintOK, HostStepOK, EnrollStepOK, ManagerCrashOK DEF Next
<1> QED BY <1>1, EnrollInitOK, PTL DEF Spec

(* The types, for any number of hosts, tokens and ids. *)
THEOREM EnrollmentTypeCorrect == Spec => []TypeOK
<1>1. EnrollInv => TypeOK
  BY DEF EnrollInv
<1> QED BY <1>1, EnrollmentInvariant, PTL

(* Auth.Enroll and sit node enroll: secret and node id belong together. *)
THEOREM HostsKnowTheirIssue == Spec => []HostKnowsIssued
<1>1. EnrollInv => HostKnowsIssued
  BY DEF EnrollInv
<1> QED BY <1>1, EnrollmentInvariant, PTL

(* ConsumeEnrollToken: a token is exchanged once. *)
THEOREM TokensIssueOnce == Spec => TokenIssuesOnce
<1> DEFINE Once == \A k \in Token : issued[k] # NoId => issued'[k] = issued[k]
<1>1. ASSUME EnrollInv, [Next]_vars
      PROVE  Once
  <2>1. CASE issued' = issued
    BY <2>1
  <2>2. ASSUME NEW r \in reqs, PutCredential(r)
        PROVE  Once
    <3>1. issued[r.token] = NoId
      BY <1>1, <2>2 DEF PutCredential, EnrollInv, TokensOK
    <3> QED BY <1>1, <2>2, <3>1 DEF PutCredential, EnrollInv, TypeOK
  <2>3. ASSUME NEW h \in Host, HostStep(h)
        PROVE  issued' = issued
    BY <2>3 DEF HostStep, StartSetup, StartEnroll, Begin, LoadIdentity, Post,
                SaveIdentity, StartService, Abort, TornWrite, managerVars
  <2>4. ASSUME NEW r \in reqs, EnrollStep(r)
        PROVE  issued' = issued \/ PutCredential(r)
    BY <2>4 DEF EnrollStep, ConsumeEnrollToken, TokenInvalid, Answer, EnrollFails, Cancelled
  <2>5. ASSUME NEW k \in Token, MintEnrollToken(k) \/ Lapse(k)
        PROVE  issued' = issued
    BY <2>5 DEF MintEnrollToken, Lapse
  <2>6. ManagerCrash \/ UNCHANGED vars => issued' = issued
    BY DEF ManagerCrash, vars, managerVars
  <2> QED BY <1>1, <2>1, <2>2, <2>3, <2>4, <2>5, <2>6 DEF Next
<1>2. EnrollInv /\ [Next]_vars => [Once]_vars
  BY <1>1
<1> QED BY <1>2, EnrollmentInvariant, PTL DEF Spec, TokenIssuesOnce

(* identityHasSecret: a setup that is run again leaves the identity alone. *)
THEOREM SetupsKeepCredentials == Spec => SetupKeepsCredential
<1> DEFINE Kept == \A h \in Host : kind[h] # "enroll" /\ secret[h] # NoToken
                       => secret'[h] = secret[h] /\ nodeId'[h] = nodeId[h]
<1>1. ASSUME EnrollInv, [Next]_vars
      PROVE  Kept
  <2>1. CASE UNCHANGED <<secret, nodeId>>
    BY <2>1
  <2>2. ASSUME NEW h \in Host, LoadIdentity(h)
        PROVE  Kept
    BY <1>1, <2>2, EnrollmentAssumption
       DEF LoadIdentity, HasFile, EnrollInv, TypeOK, AnswersOK
  <2>3. ASSUME NEW h \in Host, SaveIdentity(h) \/ TornWrite(h)
        PROVE  Kept
    <3>1. kind[h] # "enroll" => secret[h] = NoToken
      BY <1>1, <2>3 DEF SaveIdentity, TornWrite, EnrollInv, TypeOK, CommandOK
    <3> QED BY <1>1, <2>3, <3>1 DEF SaveIdentity, TornWrite, EnrollInv, TypeOK
  <2>4. ASSUME NEW h \in Host, HostStep(h)
        PROVE  \/ UNCHANGED <<secret, nodeId>>
               \/ LoadIdentity(h) \/ SaveIdentity(h) \/ TornWrite(h)
    BY <2>4 DEF HostStep, StartSetup, StartEnroll, Begin, Post, StartService, Abort,
                fileVars
  <2>5. ASSUME NEW r \in reqs, EnrollStep(r)
        PROVE  UNCHANGED <<secret, nodeId>>
    BY <2>5 DEF EnrollStep, ConsumeEnrollToken, TokenInvalid, PutCredential, Answer,
                EnrollFails, Cancelled, fileVars
  <2>6. ASSUME NEW k \in Token, MintEnrollToken(k) \/ Lapse(k)
        PROVE  UNCHANGED <<secret, nodeId>>
    BY <2>6 DEF MintEnrollToken, Lapse, fileVars
  <2>7. ManagerCrash \/ UNCHANGED vars => UNCHANGED <<secret, nodeId>>
    BY DEF ManagerCrash, vars, fileVars
  <2> QED BY <1>1, <2>1, <2>2, <2>3, <2>4, <2>5, <2>6, <2>7 DEF Next
<1>2. EnrollInv /\ [Next]_vars => [Kept]_vars
  BY <1>1
<1> QED BY <1>2, EnrollmentInvariant, PTL DEF Spec, SetupKeepsCredential

(* runNodeSetup: the service is installed on a host that has a credential. *)
THEOREM ServicesFollowEnrollment == Spec => ServiceFollowsEnrollment
<1> DEFINE Follows == \A h \in service' \ service : secret[h] # NoToken
<1>1. ASSUME EnrollInv, [Next]_vars
      PROVE  Follows
  <2>1. CASE service' = service
    BY <2>1
  <2>2. ASSUME NEW h \in Host, StartService(h)
        PROVE  Follows
    BY <1>1, <2>2 DEF StartService, EnrollInv, CommandOK
  <2>3. ASSUME NEW h \in Host, HostStep(h)
        PROVE  service' = service \/ StartService(h)
    BY <2>3 DEF HostStep, StartSetup, StartEnroll, Begin, LoadIdentity, Post,
                SaveIdentity, Abort, TornWrite
  <2>4. ASSUME NEW r \in reqs, EnrollStep(r)
        PROVE  service' = service
    BY <2>4 DEF EnrollStep, ConsumeEnrollToken, TokenInvalid, PutCredential, Answer,
                EnrollFails, Cancelled
  <2>5. ASSUME NEW k \in Token, MintEnrollToken(k) \/ Lapse(k)
        PROVE  service' = service
    BY <2>5 DEF MintEnrollToken, Lapse
  <2>6. ManagerCrash \/ UNCHANGED vars => service' = service
    BY DEF ManagerCrash, vars
  <2> QED BY <1>1, <2>1, <2>2, <2>3, <2>4, <2>5, <2>6 DEF Next
<1>2. EnrollInv /\ [Next]_vars => [Follows]_vars
  BY <1>1
<1> QED BY <1>2, EnrollmentInvariant, PTL DEF Spec, ServiceFollowsEnrollment

-----------------------------------------------------------------------------
(* Who may have which node id.                                             *)

(* The host has the node id in its file, in the answer it is about to save *)
(* or in a request of its own, perhaps one it gave up on.                  *)
MayHave(h, i) ==
    nodeId[h] = i \/ ans[h] = i \/ \E r \in reqs : r.host = h /\ r.id = i

(* A node id somebody has was generated, and nobody else has it. *)
IdsApart ==
    \A h \in Host, i \in Id :
        MayHave(h, i) => i \in ids /\ \A g \in Host : MayHave(g, i) => g = h

ApartInv == EnrollInv /\ IdsApart

(* A step in which one host at most comes to have a node id it did not     *)
(* have, and that a fresh one, keeps the hosts apart.                      *)
LEMMA FreshApart ==
    ASSUME IdsApart, NEW h \in Host, NEW New \in SUBSET (Id \ ids), ids' = ids \cup New,
           \A g \in Host, i \in Id :
               MayHave(g, i)' => MayHave(g, i) \/ (g = h /\ i \in New)
    PROVE  IdsApart'
<1>1. ASSUME NEW f \in Host, NEW i \in Id, MayHave(f, i)'
      PROVE  i \in ids' /\ \A g \in Host : MayHave(g, i)' => g = f
  <2>1. CASE i \in New
    <3>1. \A g \in Host : ~MayHave(g, i)
      BY <2>1 DEF IdsApart
    <3> QED BY <1>1, <2>1, <3>1
  <2>2. CASE i \notin New
    <3>1. MayHave(f, i) /\ \A g \in Host : MayHave(g, i)' => MayHave(g, i)
      BY <1>1, <2>2
    <3> QED BY <3>1 DEF IdsApart
  <2> QED BY <2>1, <2>2
<1> QED BY <1>1 DEF IdsApart

(* In particular a step that generates no node id. *)
LEMMA KeptApart ==
    ASSUME IdsApart, ids' = ids,
           \A g \in Host, i \in Id : MayHave(g, i)' => MayHave(g, i)
    PROVE  IdsApart'
  BY DEF IdsApart

(* A request that moves on, keeping its node id or getting a fresh one. *)
LEMMA AdvanceApart ==
    ASSUME ApartInv, NEW r \in reqs, NEW at \in {"consumed", "put"}, NEW j \in Id,
           Advance(r, at, j),
           (j = r.id /\ ids' = ids) \/ (j \in Id \ ids /\ ids' = ids \cup {j}),
           UNCHANGED <<nodeId, ans>>
    PROVE  IdsApart'
<1> DEFINE n == [r EXCEPT !.at = at, !.id = j]
<1>1. r \in Request /\ r.host \in Host
  BY DEF ApartInv, EnrollInv, TypeOK, Request
<1>2. n.host = r.host /\ n.id = j
  BY <1>1 DEF Request
<1>3. reqs' = (reqs \ {r}) \cup {n}
  BY DEF Advance
<1> HIDE DEF n
<1>4. \A g \in Host, i \in Id : MayHave(g, i)' => MayHave(g, i) \/ (g = r.host /\ i = j)
  BY <1>2, <1>3 DEF MayHave
<1>5. CASE j = r.id /\ ids' = ids
  <2>1. \A g \in Host, i \in Id : MayHave(g, i)' => MayHave(g, i)
    BY <1>4, <1>5 DEF MayHave
  <2> QED BY <1>5, <2>1, KeptApart DEF ApartInv
<1>6. CASE j \in Id \ ids /\ ids' = ids \cup {j}
  <2>1. {j} \in SUBSET (Id \ ids)
    BY <1>6
  <2>2. \A g \in Host, i \in Id : MayHave(g, i)' => MayHave(g, i) \/ (g = r.host /\ i \in {j})
    BY <1>4
  <2> QED BY <1>1, <1>6, <2>1, <2>2, FreshApart DEF ApartInv
<1> QED BY <1>5, <1>6

(* The node id of a first run is fresh. *)
LEMMA LoadApart ==
    ASSUME ApartInv, NEW h \in Host, LoadIdentity(h)
    PROVE  IdsApart'
<1>1. CASE HasFile(h)
  <2>1. \A g \in Host, i \in Id : MayHave(g, i)' => MayHave(g, i)
    BY <1>1 DEF LoadIdentity, managerVars, MayHave
  <2> QED BY <1>1, <2>1, KeptApart DEF LoadIdentity, ApartInv
<1>2. CASE ~HasFile(h)
  <2>1. PICK j \in Id \ ids : nodeId' = [nodeId EXCEPT ![h] = j] /\ ids' = ids \cup {j}
    BY <1>2 DEF LoadIdentity
  <2>2. {j} \in SUBSET (Id \ ids)
    BY <2>1
  <2>3. \A g \in Host, i \in Id : MayHave(g, i)' => MayHave(g, i) \/ (g = h /\ i \in {j})
    BY <2>1 DEF LoadIdentity, managerVars, MayHave, ApartInv, EnrollInv, TypeOK
  <2> QED BY <2>1, <2>2, <2>3, FreshApart DEF ApartInv
<1> QED BY <1>1, <1>2

(* The other steps of a command hand a node id on within the host. *)
LEMMA HostApart ==
    ASSUME ApartInv, NEW h \in Host, HostStep(h)
    PROVE  IdsApart'
<1> DEFINE Within == ids' = ids /\ \A g \in Host, i \in Id : MayHave(g, i)' => MayHave(g, i)
<1>1. ASSUME NEW k \in Token, StartSetup(h, k) \/ StartEnroll(h, k)
      PROVE  Within
  BY <1>1 DEF StartSetup, StartEnroll, Begin, managerVars, MayHave, fileVars
<1>2. ASSUME Post(h)
      PROVE  Within
  BY <1>2 DEF Post, fileVars, MayHave, ApartInv, EnrollInv, TypeOK
<1>3. ASSUME SaveIdentity(h)
      PROVE  Within
  BY <1>3, EnrollmentAssumption
     DEF SaveIdentity, managerVars, MayHave, ApartInv, EnrollInv, TypeOK
<1>4. ASSUME StartService(h)
      PROVE  Within
  BY <1>4, EnrollmentAssumption
     DEF StartService, End, managerVars, fileVars, MayHave, ApartInv, EnrollInv, TypeOK
<1>5. ASSUME Abort(h)
      PROVE  Within
  <2>1. \A q \in reqs' : \E r \in reqs : q.host = r.host /\ q.id = r.id
    <3>1. TAKE q \in reqs'
    <3>2. PICK r \in reqs : q = IF r.host = h THEN [r EXCEPT !.heard = FALSE] ELSE r
      BY <1>5 DEF Abort, Unheard
    <3>3. r \in Request
      BY DEF ApartInv, EnrollInv, TypeOK
    <3> QED BY <3>2, <3>3, UnheardOne
  <2> QED BY <1>5, <2>1, EnrollmentAssumption
          DEF Abort, End, fileVars, MayHave, ApartInv, EnrollInv, TypeOK
<1>6. ASSUME TornWrite(h)
      PROVE  Within
  BY <1>6, EnrollmentAssumption
     DEF TornWrite, End, managerVars, MayHave, ApartInv, EnrollInv, TypeOK
<1>7. Within => IdsApart'
  BY KeptApart DEF ApartInv
<1> QED BY <1>1, <1>2, <1>3, <1>4, <1>5, <1>6, <1>7, LoadApart DEF HostStep

(* At the manager only a request without a node id gets one. *)
LEMMA EnrollApart ==
    ASSUME ApartInv, NEW r \in reqs, EnrollStep(r)
    PROVE  IdsApart'
<1> DEFINE Within == ids' = ids /\ \A g \in Host, i \in Id : MayHave(g, i)' => MayHave(g, i)
<1>1. CASE ConsumeEnrollToken(r)
  <2>1. r.id # NoId => r.id \in Id
    BY DEF ApartInv, EnrollInv, TypeOK, Request
  <2>2. PICK j \in Id : /\ Advance(r, "consumed", j)
                       /\ \/ j = r.id /\ ids' = ids
                          \/ j \in Id \ ids /\ ids' = ids \cup {j}
    BY <1>1, <2>1 DEF ConsumeEnrollToken
  <2> QED BY <1>1, <2>2, AdvanceApart DEF ConsumeEnrollToken, fileVars, cmdVars
<1>2. CASE PutCredential(r)
  <2>1. r.id \in Id
    BY <1>2 DEF PutCredential, ApartInv, EnrollInv, TokensOK
  <2> QED BY <1>2, <2>1, AdvanceApart DEF PutCredential, fileVars, cmdVars
<1>3. CASE TokenInvalid(r) \/ EnrollFails(r)
  <2>1. r.host \in Host
    BY DEF ApartInv, EnrollInv, TypeOK, Request
  <2>2. Refuse(r) /\ ids' = ids /\ nodeId' = nodeId
    BY <1>3 DEF TokenInvalid, EnrollFails, fileVars
  <2>3. Within
    BY <2>1, <2>2, EnrollmentAssumption
       DEF Refuse, End, cmdVars, MayHave, ApartInv, EnrollInv, TypeOK
  <2> QED BY <2>3, KeptApart DEF ApartInv
<1>4. CASE Answer(r)
  <2>1. Within
    BY <1>4 DEF Answer, fileVars, MayHave, ApartInv, EnrollInv, TypeOK
  <2> QED BY <2>1, KeptApart DEF ApartInv
<1>5. CASE Cancelled(r)
  <2>1. Within
    BY <1>5 DEF Cancelled, fileVars, cmdVars, MayHave
  <2> QED BY <2>1, KeptApart DEF ApartInv
<1> QED BY <1>1, <1>2, <1>3, <1>4, <1>5 DEF EnrollStep

(* No two hosts ever have the same node id, in a file, an answer or a      *)
(* request: neither the host's own choice nor the manager's repeats one.   *)
THEOREM NodeIdsApart == Spec => []IdsApart
<1>1. Init => ApartInv
  BY EnrollInitOK, EnrollmentAssumption DEF Init, ApartInv, IdsApart, MayHave
<1>2. ApartInv /\ [Next]_vars => ApartInv'
  <2> SUFFICES ASSUME ApartInv, [Next]_vars PROVE ApartInv'
    OBVIOUS
  <2>1. EnrollInv'
    <3>1. CASE UNCHANGED vars
      BY <3>1 DEF vars, managerVars, fileVars, cmdVars, ApartInv, EnrollInv, TypeOK,
                  TokensOK, AnswersOK, CommandOK, HostKnowsIssued
    <3> QED BY <3>1, MintOK, HostStepOK, EnrollStepOK, ManagerCrashOK DEF Next, ApartInv
  <2>2. ASSUME UNCHANGED <<ids, reqs, nodeId, ans>>
        PROVE  IdsApart'
    BY <2>2 DEF ApartInv, IdsApart, MayHave
  <2>3. ASSUME ManagerCrash
        PROVE  IdsApart'
    <3>1. \A g \in Host, i \in Id : MayHave(g, i)' => MayHave(g, i)
      BY <2>3, EnrollmentAssumption
         DEF ManagerCrash, fileVars, MayHave, ApartInv, EnrollInv, TypeOK
    <3> QED BY <2>3, <3>1, KeptApart DEF ManagerCrash, ApartInv
  <2>4. ASSUME NEW k \in Token, MintEnrollToken(k) \/ Lapse(k)
        PROVE  UNCHANGED <<ids, reqs, nodeId, ans>>
    BY <2>4 DEF MintEnrollToken, Lapse, fileVars, cmdVars
  <2>5. UNCHANGED vars => UNCHANGED <<ids, reqs, nodeId, ans>>
    BY DEF vars, managerVars, fileVars, cmdVars
  <2>6. IdsApart'
    BY <2>2, <2>3, <2>4, <2>5, HostApart, EnrollApart DEF Next
  <2> QED BY <2>1, <2>6 DEF ApartInv
<1>3. ApartInv => IdsApart
  BY DEF ApartInv
<1> QED BY <1>1, <1>2, <1>3, PTL DEF Spec

(* PutCredential never replaces the credential of another host. *)
THEOREM OwnRequestsReplace == Spec => OwnRequestReplaces
<1> DEFINE Own == \A h \in Host :
          secret[h] # NoToken /\ cred[nodeId[h]] = secret[h]
              /\ cred'[nodeId[h]] # secret[h]
          => \E r \in reqs : r.host = h /\ PutCredential(r)
<1>1. ASSUME EnrollInv, IdsApart, [Next]_vars
      PROVE  Own
  <2>1. CASE cred' = cred
    BY <2>1
  <2>2. ASSUME NEW r \in reqs, PutCredential(r)
        PROVE  Own
    <3> SUFFICES ASSUME NEW h \in Host, secret[h] # NoToken,
                        cred[nodeId[h]] # cred'[nodeId[h]]
                 PROVE  r.host = h
      BY <2>2
    <3>1. nodeId[h] \in Id /\ r.host \in Host
      BY <1>1 DEF EnrollInv, AnswersOK, TypeOK, Request
    <3>2. nodeId[h] = r.id
      BY <1>1, <2>2, <3>1 DEF PutCredential, EnrollInv, TypeOK
    <3>3. MayHave(h, r.id) /\ MayHave(r.host, r.id)
      BY <3>2 DEF MayHave
    <3> QED BY <1>1, <3>1, <3>2, <3>3 DEF IdsApart
  <2>3. ASSUME NEW h \in Host, HostStep(h)
        PROVE  cred' = cred
    BY <2>3 DEF HostStep, StartSetup, StartEnroll, Begin, LoadIdentity, Post,
                SaveIdentity, StartService, Abort, TornWrite, managerVars
  <2>4. ASSUME NEW r \in reqs, EnrollStep(r)
        PROVE  cred' = cred \/ PutCredential(r)
    BY <2>4 DEF EnrollStep, ConsumeEnrollToken, TokenInvalid, Answer, EnrollFails, Cancelled
  <2>5. ASSUME NEW k \in Token, MintEnrollToken(k) \/ Lapse(k)
        PROVE  cred' = cred
    BY <2>5 DEF MintEnrollToken, Lapse
  <2>6. ManagerCrash \/ UNCHANGED vars => cred' = cred
    BY DEF ManagerCrash, vars, managerVars
  <2> QED BY <1>1, <2>1, <2>2, <2>3, <2>4, <2>5, <2>6 DEF Next
<1>2. EnrollInv /\ IdsApart /\ [Next]_vars => [Own]_vars
  BY <1>1
<1> QED BY <1>2, EnrollmentInvariant, NodeIdsApart, PTL DEF Spec, OwnRequestReplaces

-----------------------------------------------------------------------------
(* When a host's stored secret is the accepted one.                        *)

(* The three ways the answer to a replaced credential gets lost: the       *)
(* credential is replaced for a command that no longer waits; the command  *)
(* or the manager goes before the answer does; the command ends before it  *)
(* saved the answer.                                                       *)
LosesAnswer ==
    \/ \E r \in reqs : PutCredential(r) /\ ~r.heard
    \/ \E r \in reqs : r.at = "put" /\ r \notin reqs' /\ ~(r.heard /\ Answer(r))
    \/ \E h \in Host : cmd[h] = "save" /\ Abort(h)

(* The accepted secret of a host is on its way to the command, with the    *)
(* command, or in the file.                                                *)
PendingAccepted == \A r \in reqs : r.at = "put" => r.heard /\ cred[r.id] = r.token

AnsweredAccepted == \A h \in Host : cmd[h] = "save" => cred[ans[h]] = tok[h]

KeptAccepted ==
    \A h \in Host :
        secret[h] # NoToken /\ cmd[h] # "save" /\ (\A r \in reqs : r.host = h => r.at # "put")
            => cred[nodeId[h]] = secret[h]

AcceptInv == PendingAccepted /\ AnsweredAccepted /\ KeptAccepted

(* A step that touches no credential, no answered request, no answer in    *)
(* hand and no stored identity.                                            *)
LEMMA AcceptKept ==
    ASSUME AcceptInv, cred' = cred,
           \A r \in reqs : r.at = "put" => r \in reqs',
           \A r \in reqs' : r.at = "put" => r \in reqs,
           \A g \in Host : cmd'[g] = "save" =>
               cmd[g] = "save" /\ ans'[g] = ans[g] /\ tok'[g] = tok[g],
           \A g \in Host : secret'[g] # NoToken /\ cmd'[g] # "save" =>
               cmd[g] # "save" /\ secret'[g] = secret[g] /\ nodeId'[g] = nodeId[g]
    PROVE  AcceptInv'
  BY DEF AcceptInv, PendingAccepted, AnsweredAccepted, KeptAccepted

(* The answer is written to the file. *)
LEMMA AcceptSave ==
    ASSUME ApartInv, AcceptInv, NEW h \in Host, SaveIdentity(h)
    PROVE  AcceptInv'
<1>1. PendingAccepted'
  BY DEF SaveIdentity, managerVars, AcceptInv, PendingAccepted
<1>2. \A g \in Host : g # h => /\ cmd'[g] = cmd[g] /\ tok'[g] = tok[g] /\ ans'[g] = ans[g]
                              /\ secret'[g] = secret[g] /\ nodeId'[g] = nodeId[g]
  BY DEF SaveIdentity, ApartInv, EnrollInv, TypeOK
<1>3. cmd'[h] # "save" /\ secret'[h] = tok[h] /\ nodeId'[h] = ans[h] /\ cred[ans[h]] = tok[h]
  BY DEF SaveIdentity, ApartInv, EnrollInv, TypeOK, AcceptInv, AnsweredAccepted
<1>4. AnsweredAccepted'
  BY <1>2, <1>3 DEF SaveIdentity, managerVars, AcceptInv, AnsweredAccepted
<1>5. KeptAccepted'
  BY <1>2, <1>3 DEF SaveIdentity, managerVars, AcceptInv, KeptAccepted
<1> QED BY <1>1, <1>4, <1>5 DEF AcceptInv

(* A step of a command that does not lose the answer in its hand. *)
LEMMA AcceptHost ==
    ASSUME ApartInv, AcceptInv, NEW h \in Host, HostStep(h), ~LosesAnswer
    PROVE  AcceptInv'
<1>1. ASSUME NEW k \in Token, StartSetup(h, k) \/ StartEnroll(h, k)
      PROVE  AcceptInv'
  <2>1. PICK what \in {"setup", "enroll"}, step \in {"load", "service"} : Begin(h, what, step, k)
    BY <1>1 DEF StartSetup, StartEnroll
  <2> QED BY <2>1, AcceptKept DEF Begin, managerVars, fileVars, ApartInv, EnrollInv, TypeOK
<1>2. CASE LoadIdentity(h)
  BY <1>2, AcceptKept, EnrollmentAssumption
     DEF LoadIdentity, HasFile, managerVars, ApartInv, EnrollInv, TypeOK, AnswersOK
<1>3. CASE Post(h)
  BY <1>3, AcceptKept DEF Post, fileVars, ApartInv, EnrollInv, TypeOK
<1>4. CASE StartService(h)
  BY <1>4, AcceptKept DEF StartService, End, managerVars, fileVars, ApartInv, EnrollInv, TypeOK
<1>5. CASE Abort(h)
  <2>1. cmd[h] # "save"
    BY <1>5 DEF LosesAnswer
  <2>2. \A r \in reqs : r.at = "put" => r \in reqs'
    BY <1>5 DEF LosesAnswer, Answer, Abort, Fault, ApartInv, EnrollInv, TypeOK
  <2>3. ASSUME NEW q \in reqs', q.at = "put"
        PROVE  q \in reqs
    <3>1. PICK r \in reqs : q = IF r.host = h THEN [r EXCEPT !.heard = FALSE] ELSE r
      BY <1>5 DEF Abort, Unheard
    <3>2. r \in Request /\ r.at = "put"
      BY <2>3, <3>1, UnheardOne DEF ApartInv, EnrollInv, TypeOK
    <3>3. r \in reqs' /\ r.heard
      BY <2>2, <3>2 DEF AcceptInv, PendingAccepted
    <3>4. r.host # h
      BY <1>5, <3>3, UnheardOK DEF Abort, ApartInv
    <3> QED BY <3>1, <3>4
  <2> QED BY <1>5, <2>1, <2>2, <2>3, AcceptKept
          DEF Abort, End, fileVars, ApartInv, EnrollInv, TypeOK
<1>6. CASE TornWrite(h)
  BY <1>6, AcceptKept DEF TornWrite, End, managerVars, ApartInv, EnrollInv, TypeOK
<1> QED BY <1>1, <1>2, <1>3, <1>4, <1>5, <1>6, AcceptSave DEF HostStep

(* A credential is replaced for a command that waits: no other host and no *)
(* other request of this one is concerned.                                 *)
LEMMA AcceptPut ==
    ASSUME ApartInv, AcceptInv, NEW r \in reqs, PutCredential(r), ~LosesAnswer
    PROVE  AcceptInv'
<1>0. r \in Request /\ r.id \in Id
  BY DEF PutCredential, ApartInv, EnrollInv, TypeOK, TokensOK
<1>1. r.heard /\ r.host \in Host /\ r.id \in Id /\ r.token \in Token
  BY <1>0 DEF LosesAnswer, Request
<1> DEFINE n == [r EXCEPT !.at = "put", !.id = r.id]
<1>2. /\ n \in Request /\ n.host = r.host /\ n.token = r.token
      /\ n.at = "put" /\ n.id = r.id /\ n.heard = r.heard
  BY <1>0 DEF Request
<1>3. reqs' = (reqs \ {r}) \cup {n}
  BY DEF PutCredential, Advance
<1> HIDE DEF n
<1>4. cred'[r.id] = r.token /\ \A i \in Id : i # r.id => cred'[i] = cred[i]
  BY <1>1 DEF PutCredential, ApartInv, EnrollInv, TypeOK
<1>5. \A g \in Host : MayHave(g, r.id) => g = r.host
  BY <1>1 DEF MayHave, ApartInv, IdsApart
<1>6. PendingAccepted'
  <2>1. ASSUME NEW q \in reqs, q # r, q.at = "put"
        PROVE  q.heard /\ cred'[q.id] = q.token
    <3>1. q.heard /\ cred[q.id] = q.token /\ q.id \in Id /\ q.host \in Host
      BY <2>1 DEF AcceptInv, PendingAccepted, ApartInv, EnrollInv, TokensOK, TypeOK, Request
    <3>2. q.host # r.host
      BY <1>1, <2>1, <3>1 DEF ApartInv, EnrollInv, AnswersOK
    <3>3. q.id # r.id
      BY <1>5, <3>1, <3>2 DEF MayHave
    <3> QED BY <1>4, <3>1, <3>3
  <2> QED BY <1>1, <1>2, <1>3, <1>4, <2>1 DEF PendingAccepted
<1>7. AnsweredAccepted'
  <2>1. ASSUME NEW h \in Host, cmd[h] = "save"
        PROVE  cred'[ans[h]] = tok[h]
    <3>1. ans[h] \in Id /\ h # r.host
      BY <1>1, <2>1 DEF ApartInv, EnrollInv, AnswersOK
    <3>2. ans[h] # r.id
      BY <1>5, <3>1 DEF MayHave
    <3> QED BY <1>4, <2>1, <3>1, <3>2 DEF AcceptInv, AnsweredAccepted
  <2> QED BY <2>1 DEF PutCredential, cmdVars, AnsweredAccepted
<1>8. KeptAccepted'
  <2>1. ASSUME NEW h \in Host, secret[h] # NoToken, cmd[h] # "save",
               \A q \in reqs' : q.host = h => q.at # "put"
        PROVE  cred'[nodeId[h]] = secret[h]
    <3>1. h # r.host /\ nodeId[h] \in Id
      BY <1>2, <1>3, <2>1 DEF ApartInv, EnrollInv, AnswersOK
    <3>2. nodeId[h] # r.id
      BY <1>5, <3>1 DEF MayHave
    <3>3. \A q \in reqs : q.host = h => q.at # "put"
      BY <1>3, <2>1, <3>1
    <3> QED BY <1>4, <2>1, <3>1, <3>2, <3>3 DEF AcceptInv, KeptAccepted
  <2> QED BY <2>1 DEF PutCredential, fileVars, cmdVars, KeptAccepted
<1> QED BY <1>6, <1>7, <1>8 DEF AcceptInv

(* The answer reaches the command that waits for it. *)
LEMMA AcceptAnswer ==
    ASSUME ApartInv, AcceptInv, NEW r \in reqs, Answer(r)
    PROVE  AcceptInv'
<1>1. r.heard /\ cred[r.id] = r.token
  BY DEF Answer, AcceptInv, PendingAccepted
<1>2. r.host \in Host /\ tok[r.host] = r.token
  BY <1>1 DEF ApartInv, EnrollInv, AnswersOK, TypeOK, Request
<1>3. PendingAccepted'
  BY DEF Answer, AcceptInv, PendingAccepted
<1>4. AnsweredAccepted'
  BY <1>1, <1>2 DEF Answer, AcceptInv, AnsweredAccepted, ApartInv, EnrollInv, TypeOK
<1>5. KeptAccepted'
  BY <1>1, <1>2 DEF Answer, fileVars, AcceptInv, KeptAccepted, ApartInv, EnrollInv, TypeOK
<1> QED BY <1>3, <1>4, <1>5 DEF AcceptInv

(* A step of Enroll that does not replace a credential for nobody. *)
LEMMA AcceptEnroll ==
    ASSUME ApartInv, AcceptInv, NEW r \in reqs, EnrollStep(r), ~LosesAnswer
    PROVE  AcceptInv'
<1>1. r \in Request /\ r.host \in Host
  BY DEF ApartInv, EnrollInv, TypeOK, Request
<1>2. CASE ConsumeEnrollToken(r)
  <2>1. PICK i \in Id : Advance(r, "consumed", i)
    BY <1>1, <1>2 DEF ConsumeEnrollToken, Request
  <2>2. [r EXCEPT !.at = "consumed", !.id = i].at = "consumed"
    BY <1>1 DEF Request
  <2>3. \A q \in reqs' : q.at = "put" => q \in reqs
    BY <2>1, <2>2 DEF Advance
  <2>4. \A q \in reqs : q.at = "put" => q \in reqs'
    BY <1>2, <2>1 DEF Advance, ConsumeEnrollToken
  <2> QED BY <1>2, <2>3, <2>4, AcceptKept DEF ConsumeEnrollToken, fileVars, cmdVars
<1>3. CASE TokenInvalid(r) \/ EnrollFails(r)
  <2>1. r.at # "put" /\ Refuse(r) /\ cred' = cred /\ UNCHANGED fileVars
    BY <1>3 DEF TokenInvalid, EnrollFails
  <2>2. r.heard => cmd[r.host] # "save"
    BY DEF ApartInv, EnrollInv, AnswersOK
  <2> QED BY <1>1, <2>1, <2>2, AcceptKept
          DEF Refuse, End, cmdVars, fileVars, ApartInv, EnrollInv, TypeOK
<1>4. CASE Cancelled(r)
  <2>1. r.at # "put"
    BY <1>4 DEF Cancelled, AcceptInv, PendingAccepted
  <2> QED BY <1>4, <2>1, AcceptKept DEF Cancelled, fileVars, cmdVars
<1> QED BY <1>2, <1>3, <1>4, AcceptPut, AcceptAnswer DEF EnrollStep

(* docs/design/02-transport.md, enrollment: the node keeps the credential  *)
(* the manager issued.  Auth.Enroll breaks this in no other way than by    *)
(* replacing a credential whose answer then gets lost.                     *)
THEOREM StoredAccepted == Spec /\ [][~LosesAnswer]_vars => []StoredIsAccepted
<1>1. Init => AcceptInv
  BY DEF Init, AcceptInv, PendingAccepted, AnsweredAccepted, KeptAccepted
<1>2. ASSUME ApartInv, AcceptInv, [Next]_vars, [~LosesAnswer]_vars
      PROVE  AcceptInv'
  <2>1. CASE UNCHANGED vars
    BY <1>2, <2>1, AcceptKept DEF vars, managerVars, fileVars, cmdVars
  <2>2. CASE Next /\ ~LosesAnswer
    <3>1. ASSUME NEW k \in Token, MintEnrollToken(k) \/ Lapse(k)
          PROVE  AcceptInv'
      BY <1>2, <3>1, AcceptKept DEF MintEnrollToken, Lapse, fileVars, cmdVars
    <3>2. CASE ManagerCrash
      <4>1. faults' # faults /\ reqs' = {}
        BY <1>2, <3>2 DEF ManagerCrash, Fault, ApartInv, EnrollInv, TypeOK
      <4>2. \A r \in reqs : ~Answer(r)
        BY <4>1 DEF Answer
      <4>3. \A r \in reqs : r.at # "put"
        BY <2>2, <4>1, <4>2 DEF LosesAnswer
      <4> QED BY <1>2, <3>2, <4>3, AcceptKept
              DEF ManagerCrash, fileVars, ApartInv, EnrollInv, TypeOK
    <3> QED BY <1>2, <2>2, <3>1, <3>2, AcceptHost, AcceptEnroll DEF Next
  <2> QED BY <1>2, <2>1, <2>2
<1>3. AcceptInv => StoredIsAccepted
  BY DEF AcceptInv, KeptAccepted, StoredIsAccepted
<1>4. EnrollInv /\ IdsApart => ApartInv
  BY DEF ApartInv
<1> QED BY <1>1, <1>2, <1>3, <1>4, EnrollmentInvariant, NodeIdsApart, PTL DEF Spec

=============================================================================
