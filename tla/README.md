# Formal models of SIT

SIT connects managed devices (*nodes*) to a *manager*: a node keeps an outbound
websocket open, the manager sends it instructions (shell commands or predefined
queries) over it and records their results, and administrators and MCP clients
create the instructions as *tasks* over HTTP. This directory holds TLA+ models of
the parts of that system where order, failure and concurrency matter, the TLC
configurations that check them on small instances, and proofs of what matters
most for instances of every size.

## The system

| Component | State it keeps | Operations | Talks to |
|---|---|---|---|
| Task store (`manager/store`) | tables `nodes`, `node_credentials`, `enroll_tokens`, `tasks`, `activities` in SQLite | one SQL statement per operation, none conditional on the old state | survives crashes; called by everything at the manager |
| Dispatcher (`manager/dispatcher.go`) | window of result ids (4096), one waiter channel per MCP call | `CreateTask`, `send`, `FlushQueue`, `HandleResult`, `Wait`/`CancelWait` | store, registry, connections |
| Registry (`manager/registry.go`) | one session per node id: connection, last frame | `Add`, `Remove`, `Conn`, `Touch`, `ReapStale` | closes connections it replaces or reaps |
| Connection handler (`managerd/server.go`, `manager/reports.go`) | one goroutine per connection | register: upsert the node row and flush; heartbeat: status; result: `HandleResult`; on return: `Remove` | dispatcher, registry, store |
| Reaper (`managerd/server.go`) | a 30 s ticker | `ReapStale`, then the status column | registry, store |
| REST API (`manager/api`) | none | create task, rename, revoke, delete, enroll, queries | dispatcher, store, registry |
| MCP gateway (`manager/mcp`) | none | `run_command`: create a task and wait for it up to a timeout | dispatcher |
| Authentication (`manager/auth.go`) | admin sessions, token and secret hashes in the store | enroll, verify a handshake, revoke | store |
| Transport (`transport`) | per connection a send channel of 64, two pumps, `done` | `Send` (blocks when full), `Recv`, `Close` | the other end |
| Node agent (`node/bootstrap.go`, `node/client.go`) | the current connection | dial with backoff for ever, register, heartbeat, handle instructions one by one | transport, executor |
| Executor (`node/executor.go`) | window of results by instruction id (1024) | replay, discard past the deadline, execute, remember | the operating system |
| Identity, setup, configuration (`node/identity.go`, `cmd/sit`) | files | prompts, enrollment exchange | the API |

### What is hard

* A creator, the flush of a registering handler, and the handler recording a
  result all update the same task row, with statements that do not look at its
  state and with a blocking `Send` in between.
* The registry is keyed by node id, not by connection. A reconnecting node has
  two handlers for a while, and each of them removes "the" session on return.
* A connection loses what is in its channels when it closes, `Send` succeeds once
  the frame is in the channel, and nothing is acknowledged end to end.
* Both ends block while they send into a full channel, and neither reads
  meanwhile; the node also does not read, or send heartbeats, while it executes.
* Either process can die between two steps; only SQLite survives.
* A connection has two pumps at each end, any number of callers of `Send`, and a
  `Close` that may come from anyone, twice, and at any point.
* Two tickers (30 s), three timeouts (10, 60, 90 s) and a backoff of up to 72 s have
  to fit each other.
* A node row is written by handlers, by the reaper and by API requests, each
  from something it read earlier.
* Enrolling changes the manager's credential and the host's file one after the
  other; the command may be killed, time out or be repeated at any point, while a
  request it gave up on is still in progress.

### What makes each component correct

* Dispatcher and queue: no result for the wrong task or out of thin air; no task
  left queued that nobody is going to send; final states final; an MCP caller is
  given a completed task.
* Registry, handlers, reaper: the served session is the registered one; a dead or
  stuck session goes away; the status column says what is the case.
* Executor: a repeated instruction is not executed again by the same process; a
  command that overruns is killed with its whole process group.
* Agent: back soon once it knows that it is disconnected, and knowing it soon; never
  silent for so long that the reaper takes it for gone while it is only busy.
* Transport: frames arrive in order and without a gap until the connection breaks;
  a connection that ends leaves no goroutine and no caller behind at either end.
* Node rows: re-registration does not undo what an administrator did; a revoke cuts
  the node off.
* Enrollment: one credential per token; a host's file holds a secret that was
  issued for it; setup can be run again.

This is what the repository's documents and comments promise. Where the code keeps it,
a run checks it; where it does not, a configuration shows the counterexample (see *Runs*).

## Modules

| Module | What it is |
|---|---|
| `TaskService` | abstract specification: the task table and what nodes really produced |
| `DedupWindow` | the first-in first-out id window both ends use, as operators |
| `Dispatch` | the dispatch path of one node end to end, composed of creators, handlers, registry, connections, session loop and executor; refines `TaskService` |
| `Session` | credential, registry entry and node row of one node, with handlers, reaper and API requests |
| `Enrollment` | tokens, credentials and identity files of several hosts, the enroll and setup commands, and `Auth.Enroll` statement by statement |
| `Channel` | abstract specification: what one direction of a connection promises |
| `Transport` | one connection with its pumps, buffers, senders and `Close` at both ends; each direction refines `Channel` |
| `Executor` | one shell instruction: its processes, their output, the timer and the kill |
| `Agent` | `Executor` in the agent's loops, with backoff, heartbeats and the reaper, in discrete time |
| `MCDispatch`, `MCSession`, `MCEnrollment`, `MCTransport`, `MCAgent` | instances for TLC |
| `DispatchProofs` | types and locals of `Dispatch` (inductive) |
| `DispatchSafety` | provenance of results (inductive) and the refinement of `TaskService` |
| `RegistryProofs` | what creators, flushes and the reaper can rely on in the registry; no task is stranded in the queue, no circle of waits lasts |
| `ResultProofs` | both windows, one execution and one outcome per instruction, the MCP caller, the ways an answer is lost |
| `SessionProofs` | types of `Session`, names, deleted rows, the ways a session outlives a revoke and a status goes stale |
| `EnrollmentProofs` | the inductive invariant of `Enrollment`, its properties, and when the kept secret is accepted |
| `AgentProofs` | types and the timing properties of `Agent` |
| `TransportProofs` | types of `Transport`, its pumps, the refinement of `Channel`, the bound of a direction, and progress of closing |

How they fit together: `Dispatch` follows the content of tasks through one node and
abstracts time and the connection; `Transport` justifies the connection it assumes
(a queue that keeps order and loses its newest frames when it breaks), `Agent` the
time (a command ends, a silent session is reaped, the agent comes back), and
`Session` the registry entry from the side of the node row.

### `Dispatch`

A manager process is the creator of a task (named by its task) or the handler of
a connection (named by its connection). `pc` stands where the code can be
interleaved: before a lock of the registry or of the dispatcher, before a store
statement, at the blocking `Send`. The rest of a function belongs to one action.

| Code | Actions |
|---|---|
| `CreateTask` (`dispatcher.go:39`), `handleCreateTask`, `runCommand` | `Submit`, then the shared send; `CancelWait` when an MCP call gives up |
| `send` (`:59`) | `LookupConn`, then `Push`, `PushFails` or `PushCancelled`, then `MarkSent` |
| `FlushQueue` (`:87`) | snapshot in `ReadRegister`; `FlushExpire` / `FlushSend` per task; `FlushDone` |
| `HandleResult` (`:104`) | `ReadResult` (first look at the window), `MarkSeen`, `CompleteTask`, `NotifyWaiter` |
| `handleConn` (`server.go:71`) | `AddSession`, receiving, `Leave` (the deferred `Remove`) |
| `ReapStale` | `Reap` |
| `Client.Serve`, `handleFrame`, `Executor.Execute` | `NodeReplay`, `NodeDiscard`, `NodeStart`, `NodeFinish`, `NodeDrop`; `Dial` for the agent's loop |
| process deaths, broken links, store errors | `ManagerCrash`, `NodeCrash`, `Break`, `StoreFails`, `RegisterFails` |

Abstractions:

* One node. Tasks of different nodes share nothing but the dispatcher's window,
  which other nodes' results can only make forget sooner; `ManagerWindow` 1 covers that.
* The two registry reads in a row of the creating path (`IsOnline`, then `Conn`) and
  the first `select` of `Send` are one `LookupConn`: without a session, or with one
  whose connection is done, all lead to "stay queued". The second `select` may put the
  frame in the channel although the connection is done by then (`Push` does not ask for
  the link), and the late frame may even be written, as `Close` closes `done` before the
  socket.
* A direction of a connection (channel, pump, socket, unbuffered receive channel)
  is one bounded queue, which is `Channel` with a bound. Closing it loses what is in it, except that the read pump
  may still hand over one decoded frame. A node that dies or drops its end loses
  a suffix of what it sent.
* Acks and the `online` event are left out: the manager ignores the one and only
  logs the other. Heartbeats touch the session (see `Session`); here they only
  show that an idle connected session is not stuck (`IdleHeartbeat`).
* A task row is its state. The result is one of four endings: exit code zero,
  another exit code, killed at the timeout, or discarded past the deadline (which
  the node reports as exit code -1, `executor.go:54`).
* A deadline is a nondeterministic event on the manager's clock; the node's clock
  is independent of it.
* The row read again by `HandleResult` is read and handed over in one step.

### `Session`

`pc` of a connection's handler: `verified` (handshake accepted), `read`, `upsert`
(row read, not yet written), `beat` (heartbeat seen by the registry, not yet by the
row). `reaper` and `api` stand between their steps likewise.

| Code | Actions |
|---|---|
| `wssAuth`, `VerifyNode` | `VerifyNode`, then `AddSession` |
| `Reports.handleRegister` | `ReadRegister`, `UpsertNode` |
| `Reports.Handle`, heartbeat | `ReadHeartbeat`, `BeatStatus` |
| `handleConn` return | `Leave` |
| `reapLoop` | `ReapStale`, `ReapWrite`; `GoSilent` is the passing of 90 s without a frame |
| `handlePatchNode` | `StartRename`, `SetDisplayName` |
| `handleRevoke` | `RevokeCredential("lookup")`, `RevokeLookup`, `RevokeClose`, `RemoveSession` |
| `handleDeleteNode` | `RevokeCredential("remove")`, `RemoveSession`, `DeleteRow` |
| `Auth.Enroll` (after the token) | `PutCredential`, `EnsureLook`, `EnsureInsert` |

Abstractions: one node; one API request at a time, against any number of handlers
and the reaper; the row is its status and one administrator-owned column (the MCP
switch is written the same way as the name); the event `shutting_down` is
left out because the node never sends it; `last_seen` is whether 90 s have passed.
Time is not measured: `GoSilent` may happen whenever a registered session's node is
gone, and a bounded number of times to a live one (cut off, or busy executing).

A connection is `Served` while the manager's end is up and its handler works. A revoke
closes only what the registry holds when it looks, and a delete closes nothing:
`MCSessionRevoke` shows what that may leave connected.

### `Enrollment`

A request at the manager is a record that says how far `Auth.Enroll` has come with
it (`arrived`, `consumed`, `put`) and whether its client still waits (`heard`). A
command on a host stands at `load`, `post`, `wait`, `save` or `service`.

| Code | Actions |
|---|---|
| `handleEnroll`, `MintEnrollToken`; the TTL | `MintEnrollToken`, `Lapse` |
| `runNodeSetup`, `enrollAsUser`; `sit node enroll` | `StartSetup`, `StartEnroll` |
| `LoadOrCreateIdentity`, `SaveIdentity` | `LoadIdentity`, `SaveIdentity`, and `TornWrite` when the host dies between truncating and writing the file |
| `exchangeEnrollToken` | `Post`; the answer arrives with `Answer`, or an error with `Refuse` |
| `ConsumeEnrollToken`, `PutCredential`, the response | `ConsumeEnrollToken` or `TokenInvalid`, `PutCredential`, `Answer` |
| error paths | `Abort` (any error, timeout or kill of the command), `EnrollFails`, `Cancelled` (the request context of a client that went away), `ManagerCrash` |
| installing and starting the service | `StartService` |

Abstractions: one command at a time runs on a host (they are started by an
administrator, as root); the secret generated for a token is named by the token;
a fresh node id is one never used before; the node row that `Enroll` ensures is in
`Session`; the running agent, which only reads the identity file, is left out; the
look at the secret before the prompt and the one before enrolling are one step,
since nothing else writes the file; everything setup does to the system before
enrolling (user, directories, binary, configuration) can only fail, which is `Abort`.

### `Transport` and `Channel`

Every variable has one value per end. `sender` is a call of `Send` between its two
`select`s, `whold` and `rhold` are the frames in the hands of the two pumps, `sock`
and `fin` what is on the wire.

| Code (`transport/pump.go`) | Actions |
|---|---|
| `Send` (`:92`) | `SendStart`, then `SendEnqueue` or `SendFails` |
| `writePump` (`:73`) | `WriteTake`, then `WriteSkip` (`Encode` refused), `WriteOut`, or `WriteFails` and its `Close`; `WriteStops` |
| `readPump` (`:48`) | `ReadTake` (a frame `Decode` refuses is dropped there), then `Recv` or `ReadDrops`; `ReadFails` and its `Close`; `ReadStops` |
| `Close` (`:114`) | `Close` (the once, `done`), `SendClose` and `CloseSocket` (the library's `Close`) |
| the network | `Cut` |

A caller of `Close` after the first waits in the `sync.Once` for it to return; so do
the pumps (`wpump`, `rpump` in `close`). The library (`coder/websocket`) is external:
its `Close` writes a close frame, waits a bounded time for the peer's and closes the
socket; a write on a socket whose other side is gone may succeed or fail; closing a
socket may take unread frames of the other side with it. `Channel` says what a caller
of `Conn` gets: frames in order, without a gap, until the direction breaks, with
refused frames left out. Note that `Done` is closed first and not, as its comment in
`transport/conn.go:30` has it, when the connection "has fully terminated":
`ClosesClean` says that the rest follows.

Abstractions: frames are numbered in the order an end sends them; which of them are
too large (`Oversize`) or of another protocol version (`Foreign`) is a constant; one
`Send` per end is between its two `select`s at a time, since a second one adds no
order the first cannot have; binary websocket messages, which the pump skips and no
peer sends, are left out.

### `Executor` and `Agent`

`Executor` has three processes for all of a command: the shell, one of its group and
a stray one that left the group. `runShell` returns when the shell has exited and
nobody holds the output any more; the timer is looked at as long as the shell runs.
`Agent` extends it with the loops around it; `stage` is where `Agent.Run` stands.

| Code | Actions |
|---|---|
| `Agent.Run`, `transport.Dial`, `Backoff`, `sleepCtx` | `Start`, `AttemptFails` (endpoint after endpoint, then `Backoff`), `Connect`, `Disconnected`, `WakeUp`, `CancelRun`, `CancelServe`, `ContextDone` |
| `Client.Serve`, `handleFrame` | `SendHeartbeat`, `Answer` or `Execute` and `Finish` |
| `runShell`, `killGroup` | `StartShell`, `KillGroup`, `Return`; the command's own steps are `Spawn`, `Exit`, `CloseOutput` |
| `Dispatcher.send`, `Reports.Handle`, `reapLoop`, `handleConn` | `Instruct`, `Touch`, `Reap`, `Leave` |
| the environment | `Crash`, `ManagerDown`, `Cut`, `Recover` |

Time is discrete. `Tick` lets one unit pass and everything else takes none; `Tick`
waits for what is due (`NothingDue`, `Older`), which is how timers, tickers and a
running goroutine are expressed. `Delay` bounds the time from `Send` at the node to
`Touch` at the manager. The ticker holds one tick, as Go's does. A link that is `cut`
gives neither end a sign: the agent writes to it and stays in `serve`, since the loop
of `Serve` has no ping and no deadline. Only the operating system ends that, after a
time the program does not set, so the model sets none either.

Abstractions: one execution and one connection at a time, as the loop has them;
a notification is its age; an earlier connection is the fact that its handler may
still remove the session; a send into a full buffer is not modelled (`Transport`,
`SendReturns`); the manager's clock is monotonic.

## Runs

`MaxFaults` bounds all failures together, and connection identities are reused
once nothing of their former life is left, so that two of them give any number of
reconnects. Every run finishes in a few minutes with two workers.

| Run | Instance | Shows |
|---|---|---|
| `MCDispatch` | 1 task, 2 connections, all seven kinds of failure, 2 failures, 2.7 M states | `TypeOK`, `ResultsReal`, that every step is a step of `TaskService`, and `OpenSessionKept`: a session leaves the registry unclosed only with the return of another handler |
| `MCDispatchQueue` | 2 tasks, one of them of an MCP caller, 1 connection, channels of one frame, a manager's window of one id, fairness, a broken link or a manager crash, 428 k states | `NoStrandedTask` while tasks are created during a flush; `WaiterIsTold`; `SendersAreSeen`: who is blocked in `Send` waits for a session the reaper sees; `AtMostOncePerProcess` although creator and flush both send; `SendReturns`: creators and flush fill both channels, and the reaper breaks the wait; `QueueDrains` |
| `MCSession` | 2 connections, 2 names, 2 failures, fairness, 903 k states | `TypeOK`, `NameKept`, `RowComesBack`, `StatusSettles` |
| `MCEnrollment` | 2 hosts, 2 tokens, 4 node ids, 2 failures, 103 k states | `TypeOK`, `HostKnowsIssued`, `TokenIssuesOnce`, `SetupKeepsCredential`, `ServiceFollowsEnrollment`, `OwnRequestReplaces` |
| `MCAgent` | the configured times in units of 15 s, 2 endpoints of which one serves, any number of failures, 8.0 M states | `TypeOK`, `SilentIsReaped`, `LiveIsHeard`: a live agent is silent no longer than a heartbeat period, a default timeout and a delay together, `KillReachesGroup`, `ServedOnceNoticed`: an agent that dials or backs off is served within one longest delay and one round of attempts once the manager can be reached |
| `MCTransport` | 4 frames up, of which one too large and one of another version, 1 frame down, buffers of one frame, fairness, 162 k states | `TypeOK`, `NoHalfDead`, `ImplementsChannel`, `ClosesClean`, `PeerNotices` |

Why the bounds are enough: the races are between the creator of a task, at most two
handlers (the replaced and the fresh one) and the node. A third connection adds a
further stale handler that does what the first does. One task is enough where the
property speaks of one task's row and two where a window or a flush order is
involved. The node's window is as large as the number of tasks where a property
depends on nothing being forgotten; the manager's is 1 everywhere, since forgetting
a result id must be harmless.
Channels hold one or two frames, so "full" happens. The two task instance uses one
connection: with two it exceeds what can be explored. Overlapping connections are in
`MCDispatch`, and `NoStrandedTask` is proved for any number of them; with two tasks
and two connections `SendReturns` would fail: see the section on deadlock. In `Enrollment` a token is
used up by one exchange, so two tokens give a first enrollment and one repetition,
and two hosts compete for them; a torn identity file makes the manager choose an
id, for which there are more ids than hosts. `MCTransport` is not symmetric: the two
ends run the same code, so the frames that matter flow one way, and one frame the
other way is enough for a pump to be busy there; buffers of one frame are full as
soon as anything waits. In `MCAgent` nothing counts failures. Its unit is 15 s:
default timeout 60 s = 4, heartbeat 30 s = 2, limit 90 s = 6, reaper 30 s = 2, a frame
takes up to one unit, and requests may ask for 8 units (the manager passes none on).
The backoff cap is 5, near its 60 s = 4, so that a jitter of 20 % is a whole unit, and
an attempt to dial, 10 s at most, one. `Heartbeat + DefaultTimeout + Delay` is 7 there and so above the
limit of 6, as it is in the code for any delay at all. That a live node is nevertheless
never reaped does therefore not hold (`MCAgentBusy`, in units of 6 s, refutes it); what
holds, and what the proof is about for all times, is `LiveIsHeard`, how long the manager
may have to wait for a frame.

What some of the properties do not say: `ServedOnceNoticed` begins when the agent has
noticed, and nothing bounds when that is: `CutIsNoticed` fails. `TaskServiceSpec` allows `Mark` after an outcome
and frames that are lost, as the code does both: `TerminalFinal`, `OutcomeKept` and
`SentIsAnswered` are about these. `OpenSessionKept` allows the stale `Remove`, which is
`ServedSessionRegistered`. `SendReturns` and `SendersAreSeen` are checked with one
connection, where no `Remove` is stale; the proofs have the general form. `PeerNotices`
rests on receivers that receive while their connection is not done, which a node in an
execution that overruns (`MCAgentOverrun`) does not.

Some claims of the repository fail. Six of them have a run, three in `Dispatch`, two in
`Session` and one in `Executor`. The counterexample of each is the shortest story (that
of `MCDispatchSentAnswered`, a temporal one, is short, and there are several of them):

| Run | Claim | What happens |
|---|---|---|
| `MCDispatchOutcome` | `succeeded` and `failed` say how the command ended, and a frontend polls for that (`docs/design/03-rest-api.md:76`, `:80`) | the result comes, and is recorded, before `send` marks the task `sent`; the row `HandleResult` reads again for an MCP caller may then say `sent` too |
| `MCDispatchRegistered` | the registry holds the fresh connection (`registry_test.go:36`) | the old handler's deferred `Remove`, keyed by node id, removes it |
| `MCDispatchSentAnswered` | at least once delivery (`docs/design/01-protocol.md:114`) | the link breaks with the instruction on it, or in the channel of a connection that is gone; only queued tasks are sent again |
| `MCSessionOffline` | a silent node is judged offline (`docs/design/02-transport.md:37`) | its handler left first, so the reaper never sees it and the row says online |
| `MCSessionRevoke` | a revoke cuts the sessions there are (`docs/design/02-transport.md:23`, `api/enroll_handlers.go:21`) | a handshake was accepted before the revoke and its connection is added after it |
| `MCAgentOverrun` | "Node force-kills on overrun" (`internal/protocol/instruction.go:20`) | the shell exits within its timeout, a process it left in the background holds the output, and `cmd.Run` waits for that without a timer |

Four more configurations, kept to be run by hand, end in a counterexample too:

| Configuration | Claim | What happens |
|---|---|---|
| `MCDispatchTerminal` (`TerminalFinal`) | final task states are final (`docs/design/03-rest-api.md:80`) | a creator has put the instruction in the channel and not marked the task yet; a flush finds it queued and past its deadline and marks it `expired`; the creator's mark makes it `sent` |
| `MCAgentCut` (`CutIsNoticed`) | the node pings, and reconnects after any disconnection (`docs/design/02-transport.md:36`, `:42`) | the link is cut without a reset; heartbeats go into it, nothing comes back, and the agent stays on it long after the reaper has taken the session |
| `MCAgentBusy` (`LiveNotReaped`) | instructions run asynchronously, and 90 s are three heartbeats (`docs/design/05-node.md:39`, `02-transport.md:37`) | an instruction starts just before a heartbeat is due and runs for 60 s; the frame after it is under way when the reaper looks |
| `MCEnrollmentLate` (`StoredIsAccepted`) | the manager issues a credential (`docs/design/02-transport.md:17`) and the node keeps it (`:18`) | an enrolled host is enrolled again; the manager dies after it has replaced the credential and before it answers; the host keeps the old secret |

A further divergence needs no run: an instruction past its deadline is answered with
exit code -1 (`executor.go:54`) and recorded as failed (`dispatcher.go:113-118`), where
`docs/design/05-node.md:31` has it answer `expired`.

### Fairness

Weak fairness throughout, on what the scheduling of the code gives: every
goroutine that can run does (handler and send steps, the node's loop); a command
ends, because `runShell` kills it at its timeout (unless it leaves its output open:
`MCAgentOverrun`, an exception `QueueDrains` and `SendReturns` make); `Agent.Run` dials for ever; the
agent notices a closed connection, and TCP (or the write pump) a peer that is gone;
the reaper and the node's heartbeat run on tickers. Failures, deadlines and new
requests are not fair. In `Session` nothing makes a node come back or
an administrator act; a request that was started is carried through. In `Transport`
the pumps run, the library's `Close` ends in bounded time, and a receiver receives
as long as the connection is not done and no longer, which is what the loops of
`Serve` and `handleConn` do; nobody is assumed to send or to close. `Agent` has no
fairness: its properties are bounds on time, and time passes only when nothing is due.

### Deadlock

`MCDispatchQueue` switches the deadlock check off because with channels of one
frame the system really can stop: after a stale handler has removed the registry
entry of a live session (`MCDispatchRegistered`), the reaper does not see that
session any more; if its handler is blocked sending and its node blocked reporting,
they wait for each other for ever. With one connection, as in that run, the node may
have used up its failures and simply be done. `MCTransport` switches it off because
a connection that has ended has no further step. The other runs keep the check on.

## Proofs

All proofs are for any `Task` (a set of numbers), any `Conn`, any buffer and window
sizes of at least one, any set of failures and any bound on them, any times and
numbers of endpoints, any frames. They rest on the assumptions named in the modules
(`TaskAssumption`, `ConnAssumption`, `BoundAssumption`, `SessionAssumption`,
`EnrollmentAssumption`, `TimeoutAssumption`, `ClockAssumption`, `BackoffAssumption`,
`DialAssumption`, `BufferAssumption`) and, where it is said below,
on an assumption of the theorem.

* `DispatchProofs!TypeInvariant`: `Spec => []TypeInv`, with `TypeInv == TypeOK /\
  LocalsOK`. `TypeOK` alone is not inductive: `Push` appends `cur[p]` to
  `down[dst[p]]`, which is a task on a connection only because a process that stands
  at `push` holds both. `LocalsOK` says what a process holds where it stands.
  `TypeCorrect` is the corollary for `TypeOK`, including the bounds of channels
  and windows.
* `DispatchSafety!ProvenanceInvariant`: `Spec => []Provenance`. `ResultsReal` is
  about rows and waiters; a row is written from a handler's local, that from a
  frame, that from the executor's window, and that from an execution, and
  `Provenance` traces the result through each of them, and likewise each
  instruction back to a row and each late task to the clock.
* `DispatchSafety!ResultsAreReal`: its corollary `Spec => []ResultsReal`.
* `DispatchSafety!ImplementsTaskService`: `Spec => TaskServiceSpec`. The refinement
  mapping is the identity on `task`, `late`, `offered` and `produced`; `Provenance`
  discharges the guards of the abstract `Mark`, `Expire`, `Produce` and `Record`.
* `SessionProofs!SessionTypes`, `SessionTypeCorrect`: types of `Session`; the
  inductive form adds that a rename in progress carries a name.
* `SessionProofs!NamesAreKept`: `Spec => NameKept`; `RowsComeBack`: `Spec =>
  RowComesBack`.
* `SessionProofs!RevokesCut`: `[]RevokedIsCut` of every behaviour without
  `HandshakeOvertaken` (a connection is added although the credential is revoked by
  now) and `RemovesOpen` (a delete, or a replaced handler that returns, takes a session
  out of the registry whose connection is up). The invariant, `CutInv`, is that what is
  served is registered, and that a revoke past its lookup leaves at most the connection
  it is about to close; `RequestKnows` adds that a revoke in progress means a revoked
  credential. On the instance of `session` TLC finds `RevokedIsCut` violated when either
  is allowed.
* `SessionProofs!OnlineWatched`: a node recorded online has a session for the reaper to
  look at, or the reaper is about to write, in every behaviour without
  `RemovesUnrecorded` (a `Remove`, by a returning handler, a revoke or a delete, takes
  the session out and nobody writes the status) and `RecordsTooLate` (a handler
  writes the status after its session has gone and the reaper is done with it). On the
  instance of `session` TLC finds it violated when either is allowed.
* `RegistryProofs!NoTaskStranded`: `Spec => []NoStrandedTask`, assuming `Lossless`: the
  store does not fail and no request is cancelled (each of these leaves a task
  queued until the next connection, by design of the code). The invariant names for
  every queued task of a registered session who is responsible for it: its creator,
  before its look at the registry or at its send; or the flush of a handler that has
  yet to take its snapshot or has the task in it.
* `RegistryProofs!OpenSessionsKept`: `Spec => OpenSessionKept`. `ServedAreRegistered`
  and `SendersSeen` say what follows where no handler returns that was replaced
  (`StaleRemove`): the served session is the registered one, and whoever is blocked
  in `Send` waits for a connection that is closed or registered. Their invariant,
  `SeenInv`, adds that what a process looked up has been added: a creator may hold a
  connection that was replaced meanwhile, and then it is down. `WaitsEnd` draws the
  conclusion, under the same hypothesis: whenever a `Send` waits on a full channel, the
  node can make room, or the handler of that connection can go on, or the reaper sees
  the session with nobody behind it or a handler that waits itself. So a handler that
  flushes into a full channel and a node whose report finds the other one full, with
  any number of creators queued behind them, do not wait for each other for good.
* `ResultProofs!WindowIsExact`: the executor's map and its order list name the same
  ids, each once, for every window size; `SeenIsBounded`: the manager's set is within
  its order list, although two handlers that both find an id missing may append it
  twice, so that the list is not one of distinct ids.
* `ResultProofs!RunsOnce`: `Spec => AtMostOncePerProcess`, assuming `NothingForgotten`:
  the window has a place for every task. The invariant (`RanKnown`) is that what was
  executed is remembered or under way; that a window of distinct ids with that many
  places never evicts is a counting argument (`NothingEvicted`). `OneResultEach` and
  `OutcomesStand` assume in addition that the node process lives on: it produces one
  result per instruction, and two outcomes recorded for a task, or told to a caller,
  are equal. So the race between `seenRecently` and `markSeen`, and a result that
  comes twice over two connections, do no harm. `OutcomeStands` is in no run: it
  needs two endings and no node crash, which neither instance of `Dispatch` has.
* `ResultProofs!FinalUnlessStale`: under the same assumptions `TerminalFinal` holds
  of every behaviour without `ActsOnStale`: a send that puts an expired task in the
  channel, a mark of a task that is final, a flush that expires a task another send
  has offered since its snapshot. It needs `ExpiredUnsent`.
* `ResultProofs!WaitersAreTold`: `Spec => []WaiterIsTold` without store errors.
* `ResultProofs!SentUnderWay`: every behaviour without `Loses` keeps `SentIsUnderWay`:
  a task marked sent has its instruction on the way to the node, or executed there, or
  its result on the way back, or in the hands of a handler. `Loses` names five steps:
  the last result for a task disappears from a connection unread; the node leaves its
  connection with instructions unread or one running; a frame is given to a connection
  nobody reads (a creator that looked up a session just replaced, a node that reports
  on a connection the manager has closed); a received result is not recorded; `MarkSent`
  overwrites a recorded outcome. Each of the five is needed: on the instance of the
  run `dispatch` TLC finds `SentIsUnderWay` violated when any one is allowed. The
  invariant, `DeliveryInv`, adds that a task is marked sent only when offered, that
  *offered* (not only sent) tasks are under way or final, which covers the gap between
  `Push` and `MarkSent`, and that an id in the window of results is recorded or about
  to be, without which dropping a duplicate could drop the only answer.
* `AgentProofs`: `AgentTypeCorrect`, `KillsReachGroup`, `SilentAreReaped`,
  `LiveAreHeard`, `ComesBackOnceNoticed`, for all times. `LiveAreHeard` (`Spec =>
  []LiveIsHeard`) has no hypothesis: with the configured 30 s and 60 s it bounds the
  silence of a live node by 90 s and a delay, which the limit of 90 s does not cover. Its
  invariant, `Beats`, bounds the silence of a live session by where its loop stands:
  `Heartbeat` and the age of the execution while it executes, `Heartbeat` while a tick
  waits, the part of the period that has passed otherwise; with a notification under
  way, by its age and the longest gap before it (`send` never passes a timeout on, so every execution has the default
  one). `ServedOnceNoticed` needs `apart` bounded stage by stage (`AwayInv`): once the
  manager is reachable the agent can miss its endpoint with one attempt only, fails
  at those behind it, sleeps once, and comes to it again. `OverrunsAreKilled` is
  `[]OverrunIsKilled` of every behaviour in which no shell goes while another process
  holds the output (`LeavesOutputOpen`); its invariant is that nobody holds the output
  once the shell is gone.
* `TransportProofs`: `TransportTypeCorrect`, `NoPumpIsMissing`, and
  `DirectionsAreChannels`: `Spec => Up!Safety /\ Down!Safety`. The mapping
  concatenates what the read pump holds, the socket, what the write pump holds, and
  the send channel, each as long as it is still passed on; a direction is broken once
  one of its stages is. `Screened` (what is in the socket is not oversize, what
  the read pump offers is not refused at all, and only a running pump holds a frame)
  is the invariant it needs. The proof has
  one step per action, most of them a stutter of the direction the action does not
  belong to; closing a socket and cutting the link are `Break`, which is where the
  prefixes come in. `FlightIsBounded`: at most `SendBuffer + SockBuffer + 2` frames are
  under way in a direction, and while it is intact `Send` finds the buffer full only
  with `SendBuffer` of them under way; this is the bounded queue that `Dispatch`, which
  has one `SendBuffer` for the stages in a row, takes a direction for. `NobodyIsStuck`:
  an end that is done and not all gone has a sender, a pump or a `Close` that can go
  on, and an end that has not noticed yet has something to read or a peer still
  closing. It needs that the websocket is closed by `Close` only (`CloseOrder`) and
  that a connection not done has its read pump.
* `EnrollmentProofs!EnrollmentInvariant`: `Spec => []EnrollInv`. `HostKnowsIssued`
  is about two files on either side of the network; it is inductive only with
  `TokensOK` (at most one request has consumed a token, so what the token issued
  never changes), `AnswersOK` (a host listens to one request, so an answer given up
  on cannot be taken for the answer to a later one) and `CommandOK` (a setup that
  enrolls found no secret). The corollaries are `EnrollmentTypeCorrect`,
  `HostsKnowTheirIssue`, `TokensIssueOnce`, `SetupsKeepCredentials` and
  `ServicesFollowEnrollment`, for any number of hosts, tokens, ids and failures.
* `EnrollmentProofs!NodeIdsApart`: no node id is with two hosts, be it in a file, an
  answer or a request (`MayHave`); a torn file makes its host ask for a fresh one, a
  request given up on may still bring an old one, and neither is another host's.
  `OwnRequestsReplace` (`Spec => OwnRequestReplaces`) rests on it.
* `EnrollmentProofs!StoredAccepted`: `[]StoredIsAccepted` of every behaviour without
  `LosesAnswer`: a credential put for a client that has gone, the answer to a put one
  lost, or a command that dies with the answer in its hands. `AcceptInv` follows the
  credential from the row through the answer to the file: while a request of the host
  is put, while its answer waits to be saved, and at rest.

Seven of these have a hypothesis on the behaviour: `ServedAreRegistered` (with
`SendersSeen` and `WaitsEnd`), `FinalUnlessStale`, `SentUnderWay`, `RevokesCut`,
`OnlineWatched`, `StoredAccepted` and `OverrunsAreKilled`. Each complements the
configuration that finds its claim violated (`FinalUnlessStale` complements two): the
counterexample shows one way to violate the claim, the theorem that there is no way but
the steps it names, for every size. `MCAgentCut` and `MCAgentBusy` have no such theorem;
how late a frame can be in the latter is `LiveAreHeard`. (For the two
claims that are liveness properties the theorem is about their safety half: the answer,
or the correction, is on its way.) Each is also a statement of what a repair has to
prevent.

Only model-checked is everything under fairness (`QueueDrains`, `SendReturns`,
`StatusSettles`, `ClosesClean`, `PeerNotices`, the liveness half of
`ImplementsChannel`, and the refuted `SentIsAnswered` and `OfflineIsRecorded`), which
the proof system does not reach. Of `QueueDrains`, `SendReturns`, `ClosesClean`
and `PeerNotices` the safety half is proved (`NoTaskStranded`, `WaitsEnd`,
`NobodyIsStuck`): in no reachable state is there nobody left to go on. Those theorems
say where each actor stands, by the guards of its steps, as `ENABLED` is out of
reach too.

## Not modelled

* Pure input and output: configuration files, flags and environment; prompts and what
  setup does to the operating system; output truncation; JSON; the predefined queries.
* Queries, listings, filters, activities, metrics and tool listing: they read.
* Admin login sessions and the MCP switch of a node: a map under a mutex and a column
  with one writer; nothing interacts with them but expiry.
* TLS, the race between address families, and the websocket library itself, of which
  `Transport` has only how the code uses it.
* How long `Close` holds the registry's mutex (`registry.go:38`, `:119`): the library
  waits for the peer's close frame meanwhile, and all nodes wait with it. Every lock
  section is one step here.
* Steps of the wall clock, which `ReapStale` measures silence with.
* In `Dispatch`, an instruction that is too large for a frame; `Transport` has it, and
  for the task it is a frame lost.

## Plan

Done: `DedupWindow`, `TaskService`, `Dispatch`, `Session`, `Enrollment`, `Channel`,
`Transport`, `Executor`, `Agent`, with their proofs.

What would come next:

1. `Dispatch`'s connection as an instance of `Channel`: a refinement from the two
   `Transport` ends to `up`, `down` and `link`, with `FlightIsBounded` for the bound.
2. A repair of the dispatcher (send again what was sent and not answered, `MarkSent` and
   `CompleteTask` conditional on the state, `Remove` of one's own session only, a look at
   the credential under the registry's lock) as a variant of `Dispatch` and `Session` in
   which `ActsOnStale`, `StaleRemove`, `RemovesUnrecorded`, `HandshakeOvertaken` and
   `RemovesOpen` cannot happen and a `Loses` is made good, so that the theorems give the
   claims without those hypotheses.
3. A repair of the agent (executing beside the session loop, a read deadline) as a
   variant of `Agent` in which `LiveNotReaped` and `CutIsNoticed` hold.
