------------------------------- MODULE Agent -------------------------------
(***************************************************************************)
(* The timing of one node and its manager: the agent's loop of dialing,    *)
(* serving and backing off, the session loop with its heartbeat ticker and *)
(* the execution that blocks it, the silence the manager measures, and the *)
(* reaper.  Time is discrete: Tick lets one unit pass, everything else     *)
(* takes none, and what is due does not wait.                              *)
(*                                                                         *)
(* Which handler removes whose session is the subject of Session and       *)
(* Dispatch; here a replaced handler is remembered only as long as it may  *)
(* still remove the session.                                               *)
(***************************************************************************)
EXTENDS Executor, Sequences

CONSTANTS
    Heartbeat,    \* the agent's heartbeat_sec (30 s)
    OfflineLimit, \* OfflineTimeoutMS (90 s)
    ReapPeriod,   \* the ticker of reapLoop (30 s)
    Delay,        \* longest time from Send at the node to the handler's touch
    Base, Factor, Cap, Jitter, \* Backoff: 1 s, 2, 60 s, 20 per cent
    Endpoints,    \* number of configured endpoints, tried in order
    Serving,      \* those of them behind which the manager is
    DialTimeout,  \* for the attempt on one endpoint (10 s)
    MaxInFlight   \* bound on instructions waiting and reports under way

ASSUME ClockAssumption ==
    /\ Heartbeat \in Nat \ {0} /\ OfflineLimit \in Nat /\ ReapPeriod \in Nat \ {0}
    /\ Delay \in Nat
ASSUME BackoffAssumption ==
    /\ Base \in Nat \ {0} /\ Factor \in Nat \ {0} /\ Cap \in Nat \ {0}
    /\ Jitter \in 0..99
ASSUME DialAssumption ==
    /\ Endpoints \in Nat \ {0} /\ Serving \subseteq 1..Endpoints
    /\ DialTimeout \in Nat \ {0} /\ MaxInFlight \in Nat \ {0}

VARIABLES
    \* the agent
    stage,     \* "off" (no process), "dial", "serve" or "sleep"
    base,      \* the delay Backoff.base returns for the current attempt
    wake,      \* time left to sleep
    ep, tried, \* the endpoint being dialed, and for how long
    stopping,  \* the context of the process was cancelled
    \* the session loop
    next,      \* time until the heartbeat ticker fires
    pending,   \* its channel holds a tick
    inbox,     \* timeouts of the instructions that wait
    \* the connection
    link,      \* "up", "cut" (silently) or "closed"
    wire,      \* ages of the notifications under way, oldest first
    \* the manager
    reachable, \* it accepts connections
    silent,    \* time since a notification touched the session, or NoSession
    handler,   \* the handler of the last connection is still there,
    leaving,   \* some of earlier connections are
    reapIn,    \* time until the reaper's ticker fires
    \* history
    apart,     \* how long the agent has been dialing or asleep, knowing that
               \* it has no connection, although the manager was reachable
    overran    \* an execution was past its timeout since the last touch

agentVars == <<stage, base, wake, ep, tried, stopping>>
loopVars  == <<next, pending, inbox>>
mgrVars   == <<reachable, silent, handler, leaving, reapIn>>

histVars  == <<apart, overran>>

vars == <<xvars, agentVars, loopVars, link, wire, mgrVars, histVars>>

NoSession == -1

Smaller(a, b) == IF a < b THEN a ELSE b

Init ==
    /\ XInit
    /\ stage = "off" /\ base = Smaller(Base, Cap) /\ wake = 0 /\ ep = 1 /\ tried = 0
    /\ stopping = FALSE
    /\ next = Heartbeat /\ pending = FALSE /\ inbox = <<>>
    /\ link = "closed" /\ wire = <<>>
    /\ reachable = TRUE /\ silent = NoSession /\ handler = FALSE
    /\ leaving = FALSE /\ reapIn = ReapPeriod
    /\ apart = 0 /\ overran = FALSE

-----------------------------------------------------------------------------
(* Agent.Run.                                                              *)

(* Mutant of Doubled: the delay is not capped. *)
DoubledUncapped(b) == Factor * b

(* Backoff.base for the next attempt. *)
Doubled(b) == Smaller(Factor * b, Cap)

(* Backoff.Next: the jitter comes on top of the capped delay. *)
Jittered(b) ==
    {d \in 0 .. 2 * b : (100 - Jitter) * b <= 100 * d /\ 100 * d <= (100 + Jitter) * b}

Backoff(b) ==
    /\ stage' = "sleep"
    /\ wake' \in Jittered(b)
    /\ base' = Doubled(b)

StartDial ==
    /\ stage' = "dial"
    /\ ep' = 1
    /\ tried' = 0

Start ==
    /\ stage = "off"
    /\ StartDial
    /\ base' = Smaller(Base, Cap)
    /\ UNCHANGED <<xvars, wake, stopping, loopVars, link, wire, mgrVars, histVars>>

(* Mutant of WakeUp: dialing goes on with the endpoint it ended with. *)
WakeUpSameEndpoint ==
    /\ stage = "sleep" /\ wake = 0
    /\ stage' = "dial" /\ tried' = 0
    /\ UNCHANGED <<xvars, base, wake, ep, stopping, loopVars, link, wire, mgrVars, histVars>>

WakeUp ==
    /\ stage = "sleep" /\ wake = 0
    /\ StartDial
    /\ UNCHANGED <<xvars, base, wake, stopping, loopVars, link, wire, mgrVars, histVars>>

(* transport.Dial: refused, unreachable or timed out.  A manager that can  *)
(* be reached during a whole attempt is.                                   *)
AttemptFails ==
    /\ stage = "dial"
    /\ ep \notin Serving \/ ~reachable \/ tried > apart
    /\ IF ep < Endpoints
       THEN ep' = ep + 1 /\ tried' = 0 /\ UNCHANGED <<stage, wake, base>>
       ELSE Backoff(base) /\ UNCHANGED <<ep, tried>>
    /\ UNCHANGED <<xvars, stopping, loopVars, link, wire, mgrVars, histVars>>

(* The handshake succeeds: the backoff is reset, the manager adds the      *)
(* session, Serve sends its register notification and starts its ticker.   *)
Connect ==
    /\ stage = "dial" /\ ep \in Serving /\ reachable
    /\ stage' = "serve"
    /\ base' = Smaller(Base, Cap)
    /\ next' = Heartbeat /\ pending' = FALSE /\ inbox' = <<>>
    /\ link' = "up" /\ wire' = <<0>>
    /\ silent' = 0
    /\ leaving' = (leaving \/ handler) /\ handler' = TRUE
    /\ apart' = 0 /\ overran' = FALSE
    /\ UNCHANGED <<xvars, wake, ep, tried, stopping, reachable, reapIn>>

Idle == stage = "serve" /\ ~Executing

(* Serve returns because the connection has ended: closed by the manager,  *)
(* or found out to be cut.                                                 *)
Disconnected ==
    /\ Idle /\ link # "up" /\ ~stopping
    /\ Backoff(base)
    /\ pending' = FALSE /\ inbox' = <<>>
    /\ UNCHANGED <<xvars, ep, tried, stopping, next, link, wire, mgrVars, histVars>>

(* SIGTERM cancels the context: at once while the agent dials or sleeps,   *)
CancelRun ==
    /\ stage \in {"dial", "sleep"}
    /\ stage' = "off"
    /\ apart' = 0
    /\ UNCHANGED <<xvars, base, wake, ep, tried, stopping, loopVars, link, wire, mgrVars, overran>>

(* ... and when the loop comes to look at it while it serves.              *)
CancelServe ==
    /\ stage = "serve" /\ ~stopping
    /\ stopping' = TRUE
    /\ UNCHANGED <<xvars, stage, base, wake, ep, tried, loopVars, link, wire, mgrVars, histVars>>

(* The process is gone, and with it whatever it was executing. *)
Gone(how) ==
    /\ stage' = "off" /\ stopping' = FALSE
    /\ pending' = FALSE /\ inbox' = <<>>
    /\ link' = IF link = "up" THEN how ELSE link
    /\ wire' = <<>>
    /\ apart' = 0 /\ overran' = FALSE
    /\ alive' = {} /\ holds' = {} /\ limit' = 0 /\ age' = 0 /\ killed' = FALSE
    /\ UNCHANGED <<base, wake, ep, tried, next, mgrVars>>

ContextDone == Idle /\ stopping /\ Gone("closed")

(* The process or its host dies. *)
Crash == stage # "off" /\ \E how \in {"closed", "cut"} : Gone(how)

-----------------------------------------------------------------------------
(* The session loop: one thing at a time, in no particular order.          *)

(* conn.Send of a notification. *)
Report == wire' = IF link = "up" THEN Append(wire, 0) ELSE wire

SendHeartbeat ==
    /\ Idle /\ pending
    /\ pending' = FALSE
    /\ Report
    /\ UNCHANGED <<xvars, agentVars, next, inbox, link, mgrVars, histVars>>

(* A replayed, discarded or unknown instruction takes no time. *)
Answer ==
    /\ Idle /\ inbox # <<>>
    /\ inbox' = Tail(inbox)
    /\ Report
    /\ UNCHANGED <<xvars, agentVars, next, pending, link, mgrVars, histVars>>

Execute ==
    /\ Idle /\ inbox # <<>>
    /\ StartShell(Head(inbox))
    /\ inbox' = Tail(inbox)
    /\ UNCHANGED <<agentVars, next, pending, link, wire, mgrVars, histVars>>

Finish ==
    /\ Return
    /\ Report
    /\ UNCHANGED <<agentVars, loopVars, link, mgrVars, histVars>>

Running ==
    /\ CommandStep \/ KillGroup(stopping)
    /\ UNCHANGED <<agentVars, loopVars, link, wire, mgrVars, histVars>>

-----------------------------------------------------------------------------
(* The manager.                                                            *)

(* Dispatcher.send on the registered connection. *)
Instruct(r) ==
    /\ link = "up" /\ silent # NoSession
    /\ Len(inbox) + Len(wire) < MaxInFlight
    /\ inbox' = Append(inbox, SentTimeout(r))
    /\ UNCHANGED <<xvars, agentVars, next, pending, link, wire, mgrVars, histVars>>

(* The handler receives a notification and touches the session, if any.    *)
(* (Acks are skipped before that.)                                         *)
Touch ==
    /\ link = "up" /\ wire # <<>>
    /\ wire' = Tail(wire)
    /\ silent' = IF silent = NoSession THEN NoSession ELSE 0
    /\ overran' = Overdue
    /\ UNCHANGED <<xvars, agentVars, loopVars, link, reachable, handler, leaving, reapIn, apart>>

(* Mutant of Stale: a session at its limit is stale already. *)
StaleAtLimit == silent # NoSession /\ silent >= OfflineLimit

(* Mutant of Stale: one more missed heartbeat is forgiven. *)
StaleLate == silent # NoSession /\ silent > OfflineLimit + Heartbeat

Stale == silent # NoSession /\ silent > OfflineLimit

(* ReapStale at every tick of reapLoop. *)
Reap ==
    /\ reapIn = 0
    /\ reapIn' = ReapPeriod
    /\ silent' = IF Stale THEN NoSession ELSE silent
    /\ IF Stale /\ link = "up"
       THEN link' = "closed" /\ wire' = <<>>
       ELSE UNCHANGED <<link, wire>>
    /\ UNCHANGED <<xvars, agentVars, loopVars, reachable, handler, leaving, histVars>>

(* A handler returns, and removes whatever session there is: one of an     *)
(* earlier connection, or that of this one once it has ended.              *)
Leave ==
    /\ \/ leaving /\ leaving' \in BOOLEAN /\ UNCHANGED handler
       \/ handler /\ link # "up" /\ handler' = FALSE /\ UNCHANGED leaving
    /\ silent' = NoSession
    /\ UNCHANGED <<xvars, agentVars, loopVars, link, wire, reachable, reapIn, histVars>>

(* The manager stops.  Its registry is empty when it is back. *)
ManagerDown ==
    /\ reachable
    /\ reachable' = FALSE
    /\ silent' = NoSession /\ handler' = FALSE /\ leaving' = FALSE
    /\ link' = IF link = "up" THEN "closed" ELSE link
    /\ wire' = <<>>
    /\ apart' = 0
    /\ UNCHANGED <<xvars, agentVars, loopVars, reapIn, overran>>

(* The link is cut without a sign to either end, alone or by an outage.    *)
Cut ==
    /\ link = "up" \/ reachable
    /\ link' = IF link = "up" THEN "cut" ELSE link
    /\ wire' = <<>>
    /\ \/ UNCHANGED <<reachable, histVars>>
       \/ reachable' = FALSE /\ apart' = 0
    /\ UNCHANGED <<xvars, agentVars, loopVars, silent, handler, leaving, reapIn, overran>>

Recover ==
    /\ ~reachable
    /\ reachable' = TRUE
    /\ UNCHANGED <<xvars, agentVars, loopVars, link, wire, silent, handler, leaving, reapIn, histVars>>

-----------------------------------------------------------------------------
(* Time.                                                                   *)

Away == stage \in {"dial", "sleep"} /\ reachable

(* What is due happens before time passes. *)
NothingDue ==
    /\ Idle => ~pending /\ inbox = <<>> /\ link # "closed" /\ ~stopping
    /\ stage = "dial" => tried < DialTimeout
    /\ stage = "sleep" => wake > 0
    /\ link = "up" /\ wire # <<>> => Head(wire) < Delay
    /\ reapIn > 0

(* time.Ticker drops a tick nobody has taken. *)
TickerRuns ==
    IF stage # "serve" THEN UNCHANGED <<next, pending>>
    ELSE IF next = 1 THEN next' = Heartbeat /\ pending' = TRUE
    ELSE next' = next - 1 /\ UNCHANGED pending

Tick ==
    /\ NothingDue
    /\ Older(stopping)
    /\ TickerRuns
    /\ wake' = IF stage = "sleep" THEN wake - 1 ELSE wake
    /\ tried' = IF stage = "dial" THEN tried + 1 ELSE tried
    /\ wire' = [i \in DOMAIN wire |-> wire[i] + 1]
    /\ silent' = IF silent = NoSession THEN NoSession ELSE silent + 1
    /\ reapIn' = reapIn - 1
    /\ apart' = IF Away THEN apart + 1 ELSE apart
    /\ overran' = (overran \/ Overdue')
    /\ UNCHANGED <<stage, base, ep, stopping, inbox, link, reachable, handler, leaving>>

-----------------------------------------------------------------------------
AgentStep ==
    \/ Start \/ WakeUp \/ AttemptFails \/ Connect \/ Disconnected
    \/ CancelRun \/ CancelServe \/ ContextDone \/ Crash

LoopStep == SendHeartbeat \/ Answer \/ Execute \/ Finish \/ Running

ManagerStep ==
    \/ \E r \in Requests : Instruct(r)
    \/ Touch \/ Reap \/ Leave \/ ManagerDown \/ Cut \/ Recover

Next == AgentStep \/ LoopStep \/ ManagerStep \/ Tick

Spec == Init /\ [][Next]_vars

-----------------------------------------------------------------------------
(* Every variable holds a value of its type. *)
TypeOK ==
    /\ XType
    /\ stage \in {"off", "dial", "serve", "sleep"}
    /\ base \in 1..Cap /\ wake \in Nat
    /\ ep \in 1..Endpoints /\ tried \in 0..DialTimeout
    /\ stopping \in BOOLEAN
    /\ next \in 1..Heartbeat /\ pending \in BOOLEAN /\ inbox \in Seq(Nat)
    /\ link \in {"up", "cut", "closed"} /\ wire \in Seq(0..Delay)
    /\ reachable \in BOOLEAN /\ silent \in Nat \cup {NoSession}
    /\ handler \in BOOLEAN /\ leaving \in BOOLEAN /\ reapIn \in 0..ReapPeriod
    /\ apart \in Nat /\ overran \in BOOLEAN

(* A node whose link is up and whose command is within its timeout.  It is *)
(* silent while it executes: the session loop runs executor.Execute itself *)
(* and the heartbeat ticker waits, so that it may be as late as a whole    *)
(* execution, and no later.                                                *)
Live == stage = "serve" /\ link = "up" /\ silent # NoSession /\ ~overran

LiveIsHeard == Live => silent <= Heartbeat + DefaultTimeout + Delay

(* docs/design/02-transport.md, section 4: a session is closed as offline  *)
(* after 90 s, three heartbeat periods, without a frame.  So that must not *)
(* be the end of a live node: its session leaves the registry only with    *)
(* the manager or by a handler of an earlier connection.  With the code's  *)
(* 30 s, 60 s and 90 s, LiveIsHeard leaves no room for any delay, and the  *)
(* reaper does close the session of a node that is only busy.              *)
LiveNotReaped ==
    [][Live /\ silent' = NoSession => ~reachable' \/ leaving]_vars

(* The same rule from the other side: a registered session of a node that  *)
(* is gone, cut off or stuck is closed within one period of the reaper.    *)
SilentIsReaped == silent <= OfflineLimit + ReapPeriod

(* Once an agent knows that it has no connection, it dials or sleeps until *)
(* it is served.  However long that has been going on, it is served again  *)
(* within the longest delay and one round of attempts after the manager    *)
(* can be reached.                                                         *)
MaxDelay == ((100 + Jitter) * Cap) \div 100

ServedOnceNoticed ==
    Serving # {} => apart <= (Endpoints + 1) * DialTimeout + MaxDelay

(* docs/design/02-transport.md, sections 4 and 5: the node pings every     *)
(* 30 s and reconnects after any disconnection.  So by the time that the   *)
(* manager may judge it offline it has left a connection that was cut.     *)
(* The loop of Serve has neither pings nor a read deadline: on a silently  *)
(* cut link it goes on for as long as the network lets it.                 *)
CutIsNoticed ==
    stage = "serve" /\ link = "cut" /\ ~Executing => silent <= OfflineLimit

=============================================================================
