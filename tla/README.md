# Lobu in TLA+

Lobu runs AI agents for chat users and API clients. A gateway process (one or
more replicas over one Postgres) takes messages in, dispatches each to the
worker subprocess of its conversation, and routes the worker's reply back to the
client. Beside that it runs connectors: feeds are synchronised, operations are
executed and accounts are authenticated by workers that poll for runs. And it
keeps the configuration of agents, which a control plane changes by signed
releases.

This directory models the parts of it where processes race, crash, time out or
repeat themselves: the runs queue in Postgres on which everything travels, the
obligation to answer every turn exactly once, the connection between a gateway
and a worker process, the worker subprocesses and their locks, the lanes of the connector runs, and the authority over an
agent's configuration. TLC checks the models on small instances, TLAPS proves
the safety properties, and that waits end, for all values of the constants.

Paths below are relative to the repository root; `gateway/` stands for
`packages/server/src/gateway/`.

## The system: inventory

| Component | State | Operations | What is hard | What makes it correct |
|---|---|---|---|---|
| Runs queue `gateway/infrastructure/queue/runs-queue.ts` | `public.runs`, `queue_dispatch_receipts`; per process: workers map, claim id, timers | start and recovery, send, sendDurable, work, pause, resume, claim, heartbeat, complete, fail, retry, stale sweep, retention sweep, stop | replicas race on every row; crash between claim and settling; lost database answers; a handler that outlives its claim; `work()` over a busy worker; `stop()` with handlers running | one executor per run, retry budget spent by failures only, finished stays finished, one active row per key, every run settles |
| Turn liveness `gateway/orchestration/turn-liveness.ts` | marker rows on `internal:turn_timeout` | arm, extend, fail by deployment, fail one, commit a reply, sweep | reply, sweep, exit handler and startup failure race to answer; repeated dispatch; signals of a newer worker | exactly one terminal event per turn, none forgotten |
| Message dispatch `gateway/orchestration/message-consumer.ts`, `course-context-gate.ts` | the `messages` run, deployment locks, pending course selections | handleMessage: guardrails, course gate, arm, send to the worker's queue, ensure a worker | the handler is at-least-once; the worker starts in the background | marker before delivery; hand over once |
| Worker gateway `gateway/gateway/index.ts`, `job-router.ts`, `connection-manager.ts` | SSE connections, the queue worker of a deployment, pending receipts | connect, evict, register, resume, abort, stale clean-up; deliver, acknowledge, time out; response | a reconnect at any await of the set-up of the old connection; a write to a broken stream succeeds; 5 s receipt timeout against a late receipt | a connected worker is served, an unconnected one is not sent jobs, a run is completed only when a worker has read it |
| Agent worker client `packages/agent-worker/src/gateway/` | batch queue, window, current batch | receive, acknowledge, batch, group, process, reply | a message is acknowledged before it is worked on; a turn that throws; messages that arrive meanwhile | turns do not overlap; no acknowledged message is forgotten |
| Embedded deployments `gateway/orchestration/impl/embedded-deployment.ts` | children by name, intentional-exit flags, advisory locks and the count of their connections | ensure, spawn, scale, kill, exit, release | two maps with different keys; a late exit event of an old child; the lock belongs to a session that may end | one worker per conversation, every end told or meant, no connection leaks |
| Thread response consumer `gateway/platform/unified-thread-consumer.ts` | SSE connections of clients | route, re-queue | only one replica has the client | a terminal row reaches the client within its 30 attempts |
| Consumer leases (runs-queue.ts 655-749) | lease table, write chain per queue | heartbeat, expire | heartbeat in flight at expiry | no live lease without a worker |
| Connector runs `packages/server/src/worker-api/`, `packages/connector-worker/src/daemon/` | polled lanes of `public.runs`, feeds, the worker's batch and checkpoint | poll, heartbeat, stream, complete | statements of one request are apart; a worker whose run was written off goes on; unguarded updates | no item is skipped, decided runs stay decided |
| Feeds and reaper `packages/server/src/utils/queue-helpers.ts`, `scheduled/` | due feeds, stale runs | materialise, trigger, delete, reap with a retry | several replicas tick; deletion against creation | one active run per feed |
| Operations and authentication `packages/server/src/tools/admin/manage_operations.ts`, `manage_connections/` | runs with an approval, waiting callers, auth profiles | execute, approve, reject, wait, reauthenticate, cancel | approval makes a row claimable before it is executed inline; timeout against report; two requests for one profile | executed once and approved, caller and row agree, every request settles |
| Agent configuration `packages/server/src/lobu/agent-configuration/`, `agent-release-service.ts` | settings, mode, revision, records of commands, receipt, feed cursors, provisioning fence | patch, bootstrap, enrol, apply and repeat a release | commands are late, repeated and reordered; drift; two transports of releases | every change is recorded once under its own revision; what a release owns holds; a rollback holds |
| Schedulers and watchers `packages/server/src/scheduled/`, `watchers/` | scheduled jobs, due feeds, watcher runs | tick, materialise, dispatch, reconcile | several replicas tick | no double dispatch |
| Chat connections, interactions, sessions | adapter instances, cards, sessions | receive, render, approve | cross-replica state | a card is taken once |
| Auth, secrets, proxy, CLI, SDK, connectors, site | | | | |

The parts meet in the database. A client's message becomes a `messages` run; its
handler arms a marker, inserts a `thread_message_<deployment>` run and makes sure
that a worker exists; the replica that has the worker's SSE connection claims
that run and writes it to the stream; the worker acknowledges, works and posts
its reply, which deletes the marker and inserts a `thread_response` run in one
transaction; the replica that has the client claims that run and delivers it.
Connector workers have no connection: they poll over HTTP for rows of the lanes
`sync`, `action` and `auth` of the same table, send heartbeats and report, and a
reaper writes off those who fall silent.
`PROJECT.json` lists every component with what is left out of it, and the
hazards of the code at their lines.

## Modules

| Module | What it is |
|---|---|
| `RunLedger` | abstract: what the queue promises about one run |
| `RunsQueue` | the queue in detail, its properties, and its refinement of `RunLedger` |
| `TurnLiveness` | dispatch, worker, replies and deadlines of one deployment's turns |
| `WorkerLink` | what a gateway and a worker process share: streams and receipts |
| `WorkerClient` | the worker's side: reading, batching, turns |
| `WorkerGateway` | the gateway's side: connections, the queue's workers, delivery |
| `WorkerSession` | the two composed over the link, their properties, and their refinement of `RunLedger` |
| `EmbeddedDeployments` | the children of the pods and the conversation locks |
| `ConnectorRuns` | feeds, their sync runs, the worker that executes them, the reaper |
| `OperationRun` | runs of operations and of authentications |
| `ConfigurationLedger` | abstract: what the configuration authority promises |
| `AgentConfiguration` | the authority and the release service, and the refinement |
| `RunsQueueProofs`, `TurnLivenessProofs`, `WorkerSessionProofs`, `ConnectorRunsProofs`, `OperationRunProofs`, `AgentConfigurationProofs`, `EmbeddedDeploymentsProofs` | theorems about the module of that name |
| `FiniteInduction` | induction over the numbers and over finite sets, for the proofs of liveness |
| `MCRunsQueue`, `MCTurnLiveness`, `MCWorkerSession`, `MCConnectorRuns`, `MCOperationRun`, `MCAgentConfiguration`, `MCEmbeddedDeployments` | small instances for TLC |

### RunsQueue

One queue name; the rows, keys and receipts of it, and `Procs`, the RunsQueue
objects that use it. A restarted gateway is a new element of `Procs`, because the
claim id `claimedBy` is made by the constructor. (An id given through the
option `consumerId` would have to be unique per process for the same reason;
nothing outside the tests passes one.)

- Every SQL statement is one action, and every `await` between two statements
  is a point where others may act. `sendWithDisposition` is a transaction under
  READ COMMITTED, so its insert with the receipt is one step, but a conflict and
  the lookup that follows are two (`SendConflict`, `SendLookup`). `claimOne` is
  split from the loop's look at `stopped` and `paused` (`LoopClaims`, `ClaimOne`):
  what happens to the worker in between is not looked at again by the code.
  `start()` is one step: the process does nothing else before it ends.
- A `QueueWorker` is a pair of a process and the number of its `work()` call.
  `cur[p]` is the entry of the workers map; a worker that was replaced keeps its
  own loop, as in the code. `work()` over an existing worker is two steps
  (`WorkAgain`, `WorkReplace`) with the lease expiry awaited in between.
- `phase` follows the loop and `runHandler`: `poll`, `claiming`, `fetched`
  (claimed, handler not started), `running`, `succeeded`, `threw`. `snap` is the
  value of `attempts` that the claim returned.
- Database errors are modelled where the code handles them: recovery and
  release (logged), a claim whose answer is lost, `markCompleted` failing before
  or after its commit, and `markFailed` or `scheduleRetry` failing. A failed
  send or sweep statement is the statement not being taken; a settle
  statement that commits with its answer lost is the statement itself.
- Time is kept as far as the code compares it: `due` (run_at has passed),
  `expires`, and `age`, two steps each, which stand for the visibility timeout
  and twice that on a claimed row, and for the two retention periods on a
  finished one. `HeartbeatsTimely` says whether a claim may go stale while
  its handler lives (a blocked event loop, a database outage); both settings
  are used. The periods of the sweeps are fairness, below.
- The order among claimable rows is by priority; `run_at` and `id` are left open,
  so every order they could give is allowed.
- LISTEN/NOTIFY only shortens a sleep and is left out, as are breadcrumbs,
  metrics, `getQueueStats`, payloads and back-off lengths. A durable send that
  finds a receipt changes nothing, so it is no action.
- History variables: `ran` (some invocation returned), `throws` (invocations that
  threw, capped), `dbErrors`.

`RunLedger` has no processes, claims or leases: a run is opened, its handler
returns or throws any number of times, it is completed after a return or
failed after `MaxAttempts` throws, dropped or forgotten. `ImplementsLedger` maps
pending and claimed rows to `open` and a deleted row to `forgotten`. `WorkerSession`
keeps the same promise for the jobs of a deployment: there an invocation counts as returned
once a worker has read the message, so a job is completed only if one did. The
gateway's last throw and the failing of the run are one step in it, the ledger's `ThrowLast`.

### TurnLiveness

The turns of one conversation. The tables are shared by all replicas, so no
replica is named; a transaction is one step of whoever runs it.

- `disp` is the `messages` run and its handler: `ready`, then `armed`, then `sent`
  (everything awaited is done), then `done`. `HandlerThrows` and `Rerun` are the two
  ways in which the queue runs it again: the retry after a throw, and a second
  claim after a crash or a completion that failed. `sentKey` and `courseKey` are the
  durable receipts of the sends, `job` is the `thread_message` run.
- What the guardrails and the course gate decide is free (`Outcomes`), and may
  differ between two runs of the same message. The key of a notice
  contains the kind of the notice and, for a clarification, the candidates; the
  model has one clarification per message.
- The worker is `down`, `beating` or `silent`. `Beat` stands for every signal that
  reaches `extendTurnDeadlines`: status updates, heartbeat and delivery
  acknowledgements. As in the code it moves all markers of the
  deployment. `GoSilent` also covers an UPDATE that keeps failing. `WorkerGone`
  with `observed` is the exit or error event of an unintended exit, which starts
  `FailTurnsForDeployment` as a step of its own, because the handler does not
  await it; without, it is a deliberate stop or the loss of the pod. When the
  transaction of the fast path or of a startup failure fails it is logged and
  dropped, which is the same as its never being taken.
- `inbox` is a set: a second copy of a message that is still waiting adds
  nothing, a copy of one that was started is there again, so turns that answer
  one message twice do happen.
- `terminals` counts the terminal `thread_response` rows that name a message.

### WorkerLink, WorkerClient, WorkerGateway, WorkerSession

One deployment: its jobs, the requests to `/worker/stream` made in its life
(`Conns`) and one worker process, which may die and be replaced. `WorkerLink` holds
the variables both sides see; the two sides extend it, and `WorkerSession` lets them
take turns, one step of one side at a time, and lets receipts get lost.

- `stage[c]` is where `handleStreamConnection` is for connection c: `pausing`
  (`pauseWorker` awaited), `added` (in the connection manager, which ended the old
  writer), `replacing` (`work()` awaits the expiry of the old worker's lease),
  `resuming`, `open`. Each transition is the code between two awaits, so the handler
  of an old connection can be anywhere while that of a new one runs, and `Abort`
  (the clean-up) comes at any of these points.
- A queue worker is named after the connection `work()` was called for; `cur` is the
  entry of the workers map, and `leaked` notes the workers that two calls of `work()`
  at once leave running outside of it. `RunsQueue` has what happens to a row in
  detail; here a row is queued, claimed, completed or failed, and `tries` counts the
  attempts that threw.
- `HandleJob` writes to whatever connection the manager has. The write succeeds also when
  nobody reads the stream, which is why the receipt is what counts. `pending` is
  keyed by job alone, as in the code, so a late receipt settles the next attempt.
- The worker acknowledges a message when it has read it and gives it to the
  batcher. `AddMessage` has the three cases of the code: during a batch or window the
  message is queued, the first one of a process starts a batch at once, a later one
  opens a window. A batch is cut into groups by `Identity`; a group is a turn. A turn
  that returns is followed by the next group, one that throws drops the rest of the batch.
- A batch is kept in the order of arrival. The code sorts it by the messages'
  timestamps (message-batcher.ts:84), which changes which groups are formed and in
  which order they run, and none of the properties.
- History: `received`, `held`, `answered`, `dropped`; `late` (a handler resumed the queue
  when its connection had gone), `stale` (the stale clean-up removed a connection).

### EmbeddedDeployments

The worker subprocesses of all pods. A child is a call of `spawnDeployment` that passed its
guards, from the reservation of its connection to its exit.

- A step is the code between two awaits, an event handler, or one statement of the database.
  `Ensure` runs up to `await sql.reserve()`; a call that is refused before changes nothing
  and is no step. A pod that is started again is another element of `Pods`.
- A pod keeps children, flags and creations by deployment name, the database keeps locks by
  conversation key. A name is made from platform, channel and conversation, a key from
  organization, agent and conversation, so neither determines the other; every pair is allowed.
- `conn` is the reserved connection of a child and its `releaseLockOnce`; `holder` is
  what the database says. `UnlockFails` stands for three failed attempts, after which the
  connection goes back to the pool with its lock (`stuck`). `SessionLost` ends a session on
  the database's side.
- `KillWorker` is the part of `killWorker` before its await, for whoever calls it: any child in
  the map may be stopped at any time. `ChildEnds` is the process, `ChildExited` the event.
- `PodCrashes` leaves the children alive: they are not told, and their locks are gone.
- History: `killed`, `reported`, `severed`.

### ConnectorRuns

Feeds and their sync runs. A source is numbered items in the order in which the
connector emits them, a checkpoint the number it stands for.

- A step is one statement or transaction. `/stream` stores the items of a batch and then,
  in a second statement, saves the checkpoint; `/complete` closes the run under its
  claim and then books the checkpoint and the schedule on the feed. `stream[r]` and `close[r]`
  are what is left of such a request, and the reaper, the user and the next run can
  come in between.
- `createSyncRun` decides in one statement, under the unique index, whether the feed has
  an active run; what precedes it (due feeds, triggers) is `PickFeed`, so a feed may be
  deleted between the two. Deleting a feed and cancelling its runs are two statements.
- `Reap(S)` is `reapStaleRuns`: any set of running runs times out and gets retries where
  its feed has no other active run, in one statement. Since heartbeats may be late or
  lost, every running run may be in S.
- The worker collects items in a batch of `BatchSize` and flushes it with its
  checkpoint; `UpdateCheckpoint` is the connector's own call, which is streamed ahead of
  the batch. `overtaken` notes the items in the batch at that moment. A request may fail
  or its answer may be lost; a worker may disappear at any step.
- A stream handler that fails part way may have stored the beginning of its batch. The
  model stores all or nothing; storing more items disturbs no property.
- History: `overtaken`, `raced` (a run inserted for a feed that had been deleted after it was
  picked), `overlapped` (two workers had runs of the feed at a time).

### OperationRun

The other two lanes. The kind of a run says where it is executed: by a worker at once
(`device`), by a worker after an approval (`local`), by the approving request (`remote`), by
the executing request (`inline`), or by a worker that authenticates the profile (`auth`).
The header of the module says which statements of the code these come from.

- `handleApprove` makes the row approved and pending, and then sets it to running for its own
  execution; between the two `Poll` may hand it to a worker (`contested`).
- `waiter[r]` is `waitForDeviceActionRun`: it reads until its deadline, then tries to write the
  timeout, and rereads the row when that does not match. Each is a statement.
- `CompleteAction` asks for the claim and the status, `CompleteAuth` for neither; the
  latter's second statement, on the profile, is `WriteProfile`. `Reauthenticate` chooses or
  cancels, resets the profile and inserts its run in separate steps.
- A worker's last report is repeated once as a failure when its answer is lost, so two
  reports of a run may be under way; `crossed` notes that requests for the one profile
  crossed or that one died between its statements.

### AgentConfiguration

One agent. A command is a transaction that holds the agent's row FOR UPDATE, so it is one
step; the commands that exist are constants, and each may arrive at any time and any
number of times. That is how late, repeated and reordered commands are modelled. A
refusal, and an answer from the record of a command that was seen, change nothing and are
no step.

- A setting belongs to the legacy release keys, to the further keys of a personal baseline, or to
  the operator. `Sealed` is the check on a native patch, `HashedFields` what the hash of a
  release covers. They come from different files, which is what `ReleasedSettingsHold`
  holds together.
- `Authorized` is the authority (`applyManagedRelease`), `FeedInOrder`, `Direction`,
  `ReapplyRelease` and `ApplyRelease` the release service. `current` distinguishes the newer
  contract, which compares the expected release also when it is in place.
- `Bypass` is a write past the authority: what the service calls drift.
- `ImplementsLedger` maps the records of commands, without their digests, to the outcomes of
  `ConfigurationLedger`: every change of settings by a command makes the next revision and is
  recorded under a key of its own, and no record changes.

### Faulty variants

The modules hold operators marked as faulty, outside of `Next`. Each is what a
plausible mistake in the code would make of the definition below it (`Owned`
without the process, a recovery scan without its age limit, an election that is
not asked, a clean-up that does not pause the queue). `PROJECT.json` pairs each with the
property that TLC then finds violated.

## Runs

| Run | Configuration | Shows |
|---|---|---|
| `claims` | 2 processes, 1 run, budget 3, 1 `work()` each, 1 database error, late heartbeats allowed | `BudgetSpentByThrows`, `FreshClaimEndsByHolder`, `ImplementsLedger` |
| `sends` | 1 process, 2 `work()`, 2 runs, 1 key sent plainly and durably, heartbeats in time | `ActiveKeysUnique`, `ReceiptStandsForRun`, `ClaimKeptWhileExecuting` |
| `live` | 2 processes, 1 run, budget 2, 1 error, heartbeats in time, fairness | `ExclusiveExecution`, `NothingIsStuck`, `EveryRunSettles` |
| `drain` | 2 processes, 2 `work()` each | a disagreement: `DrainWaitsForHandlers` |
| `faults` | 2 messages, all outcomes, 1 repetition each, 1 loss; sweep and time only are fair | `OneTerminalUnlessRepeated`, `DeliverableIsCovered`, `NothingIsStuck`, `NoTurnForgotten`, `SilenceEndsTurns` |
| `hang` | 2 messages, fairness of all that goes on | a disagreement: `EveryTurnEnds` |
| `retried` | 2 messages, 1 repetition each | a disagreement: `ExactlyOneTerminal` |
| `delivery` | 2 jobs that are not batched together, 2 connections, 2 attempts | `OpenConnectionServed`, `IdleQueueIsPaused`, `ImplementsLedger`, `NothingHeldIsForgotten`, `OneBatchAtATime`, `OnlyAThrowStrands` |
| `children` | 2 pods, 2 names, 2 keys, 3 children, 2 connections per pod, 1 lost session | `OneWriterPerConversation`, `LivingWorkersAreKnown`, `ReservationsAreCounted`, `NothingIsStuck`, `CrashesAreTold` |
| `sync` | 1 feed, 2 runs, 2 items, batches of 2 | `OneActiveRunPerFeed`, `NothingIsSkipped`, `DeletedFeedIsQuiet`, `OnlyOverlapsRewind`, `DecidedRunsStay` |
| `operations` | 2 runs: 1 operation of any kind, or 2 authentications; fairness | `RunsOnceAndApproved`, `CallerHearsTheOutcome`, `ProfileFollowsItsRun`, `NothingIsStuck`, `RequestsSettle` |
| `commands` | 3 settings, 1 of each owner; 4 revisions; 2 writes past the authority; patches, bootstraps with and without fence, enrolments, a legacy release, a baseline and its rollback on 2 channels | `ReleasedSettingsHold`, `ReceiptAtCursor`, `RollbacksHold`, `RepairsNeverCollide`, `ImplementsLedger` |

Bounds, and why they are enough:

- Two processes are the fewest that can take a claim from each other. A third
  would act on a row like the second: claims, sweeps and releases only ask
  whether `claimed_by` is one's own.
- Runs meet each other only in the choice of the next row and in the unique
  keys; one run is enough for everything about claims, two with the same key for
  the sends (the second is inserted when the first has finished or been dropped).
  In the `sends` run one process suffices because a second send of a process is
  possible only after its transaction ended, and what races with it are the
  loop, the sweeps and time; senders of different processes that hold
  receipts of one key are covered by the proofs.
- A budget of three has a first, a middle and a last attempt. Two `work()` calls
  give a replaced worker and its successor. One database error already
  separates what the caller believes from what the row says; combinations of
  several are left to the proofs.
- `live` calls `work()` once per process and has one row; that every run settles with more of
  both is `RunsSettle`.
- Two messages show a turn that profits or suffers from the signals of another.
  `MaxRepeats` and `MaxLost` bound repetitions and losses in guards
  (`RunEndsBadly`, `DeliverUnacked`, `JobDies`, `ReplyLost`).
- `delivery`: two connections are an old and a new one whose handlers interleave; with a
  second attempt a receipt can arrive for the wrong one. Two jobs that are not batched
  together make a batch of two groups, of which one may be dropped. Three connections with
  one job and one attempt satisfy the same properties (run by hand, 260,000 states).
- `children`: three children are a worker, its rival on the same or the other pod, and a third
  that may be stopped while the two disagree over their name. With two connections per pod the
  third meets the cap. One lost session is what the properties have to except.
- `sync`: two runs are one that was written off and its retry or successor, which is all
  that can overlap; feeds do not meet. With two items in batches of two, a checkpoint can
  be ahead of an unflushed batch.
- `operations`: operations do not touch each other, so one of them suffices; authentications
  share the profile, and two make an older and a newer one. `Mixed` keeps the two apart in this
  run. Two operations and authentications together satisfy the safety properties as well
  (run by hand, over a million states).
- `commands`: four revisions are those of a release, another in its place, its rollback and one
  command more. The second channel is what `RollbacksHold` excepts, and the second write past
  the authority asks for a second repair of the same command.

The theorems cover what the bounds leave open.
Deadlock is not checked: sends, `work()` calls, repetitions, errors, runs, connections
and revisions are bounded, processes stop, and a system with nothing left to do is no
error.
Runs with fairness use no symmetry; `delivery`, `sync` and `children` do, and check no liveness.

Some properties that are proved are in no run: `TypeOK` of each module; `FinishedForGood` and
`CompletedWasReceived`, which follow from `ImplementsLedger`; `AttemptsNeverDecrease`, and the
liveness properties `LostClaimsEnd`, `LoopsComeBack` and `StoppedWorkersGiveBack`.

## Fairness

`RunsQueue!FairSpec`: the poll loop of every living worker, its handler and the
settling of its run (`LoopFairness`: `while (!worker.stopped)`, 588-652), the stale sweep
(setInterval, 1071-1074), the removal of expired rows and the passing of time
(`RowFairness`) are weakly fair. Sends, stops, crashes, pauses, heartbeats, `work()` calls and
errors are not. `HandlerReturns \/ HandlerThrows` assumes that handlers end: a
delivery does within its 5 s receipt timeout, dispatch and rendering wait on
database and HTTP calls only. `EveryRunSettles` also assumes one process that goes on
serving the queue; it need not be the one that claimed the run. Without such a
process rows wait, as they should. `LostClaimsEnd` (a claim nobody works on ends, while a
process sweeps) and `LoopsComeBack` (a loop that took a run polls again) are steps on that
way; TLC finds both true of the `live` instance. A loop that asked for a run is answered
(`Answered`): it gets a row when there is one. Which one is decided by priority, so with an
endless stream of urgent rows the others might wait for ever; with the finitely many
rows of an instance they cannot.

`TurnLiveness!SweepSpec`: only the sweep (`SweepFairness`) and the lapse of a deadline
(`DeadlineFairness`). A tick skips locked rows and takes a limited number; what is fair is a
tick that finds all lapsed rows. That is the
backstop the module comment promises, so `SilenceEndsTurns` needs nothing of
dispatch, workers or fast path. `FairSpec` adds what gateway and worker go on
doing; it makes the counterexample of `hang` one in which nobody is idle.

`OperationRun!FairTo`: the reaper takes a run that sends no heartbeats; an action's
subprocess has a timeout, so its execution ends; a report is answered or fails; a
waiting request polls and gives up at its deadline. Nothing makes a worker poll, a
user decide, an interactive authentication end or a request to another server return,
so `RequestsSettle` asks only that running operations end and that callers get an answer.

`EmbeddedDeployments!FairTo`: while its pod is up, a child that was told to end is killed when
the timer rings (killWorker's 5 s), its exit event is handled, and an attempt to unlock ends,
well or badly. `StoppedWorkersGiveBack` needs no more; it holds with one name and two children
(TLC, no symmetry, 21,000 states), and the `children` run checks the part of it that TLC can
do with symmetry, `NothingIsStuck`.

`WorkerSession`, `ConnectorRuns` and `AgentConfiguration` state no fairness. Whether a message
is delivered in the end depends on a worker that reconnects and reads within its attempts, which
nothing in the code ensures; what happens to a turn whose message is not delivered is the subject
of `TurnLiveness`. A feed is read again whenever it is due, and commands are the client's
business.

## Where comments and code disagree

- `drain`: `work()` on a queue with a busy worker deletes it from the map, so the
  drain of `stop()` does not wait for its handler although the comment says
  that in-flight handlers are waited for. The worker gateway calls `work()` at each
  SSE reconnect.
- `hang`: the deadline of a turn that died with an unobserved worker is moved for
  ever by the signals of its successor; the comment says the backstop covers
  the loss of a worker pod.
- `retried`: arming is idempotent only while the marker exists. A dispatch that is
  repeated after the answer arms it anew, and the sweep sends a second terminal
  event.

The comment that `hang` is about also says that the backstop covers a worker that is alive and never
replies. `faults` (`SilenceEndsTurns`) shows it for one that also stops signalling; a worker that
goes on signalling is never failed, by design ("a live-but-slow worker is
never falsely failed").

`AttemptsNeverDecrease` is stated for one `work()` call per process. With two, a
handler of a replaced worker whose claim went stale may settle the claim of
its successor, since both carry the id of the process; the retry then writes the
older count.

Some properties name what the code lets happen:

- `IdleQueueIsPaused`: a set-up that is aborted after the connection was added still
  resumes the queue (index.ts:1273), and the stale clean-up does not pause it
  (connection-manager.ts:227). Jobs then use up attempts on "no active connection".
- `NothingHeldIsForgotten`, `OnlyAThrowStrands`: a turn that throws drops the later groups of
  its batch, and opens no window for messages that arrived meanwhile; they wait for
  the next message.
- `RunsOnceAndApproved`: an approved remote operation is pending for a moment and may be
  executed by a polling worker as well as by the gateway.
- `LivingWorkersAreKnown`, `CrashesAreTold`: the exit handler takes map entry and flag away by name.
  A conversation that got another agent has a new key, so a child of its name may be started
  while the old one, which was just stopped, is still ending. The exit of the old one then
  removes the new one from the map; it lives on where idle clean-up does not find it, and
  later dispatches meet its lock.
- `OneWriterPerConversation` excepts a worker whose reserved connection broke. Its lock ends with the
  session, which is idle while the worker lives, and nobody looks at it before the release; so
  "only one pod at a time may run a worker" (embedded-deployment.ts:587) holds as long as the
  sessions do.
- `OnlyOverlapsRewind`: a worker whose run was written off can still save its checkpoint
  on the feed.
- `RollbacksHold`: a command without an expected revision can bring back what another
  channel rolled back.

## Proofs

All safety properties of the passing runs, the three refinements, and six liveness
properties under the hypotheses named below are theorems, for any number of processes, runs,
keys, messages, connections, children, feeds, settings and commands, from the named assumptions
on the constants (TLC evaluates them in each run). `RollbacksStay` has a further hypothesis,
below.

`RunsQueueProofs`:

- `CoreInv` = `TypeOK`, `RowBudget` and `SlotOK`. The properties are not
  inductive alone: `scheduleRetry` writes `snap + 1`, so even the type of `attempts`
  depends on what a worker remembers. `SlotOK` says of a worker past its claim that
  its run exists, that `snap` is below the budget and backed by throws, strictly so
  once its handler threw, and that a handler which returned is noted in `ran`.
  `RowBudget` says of a row that it has attempts left while it can be claimed, none
  before it was inserted, and as many throws as attempts. `CoreInvHolds` gives
  `TypeCorrect` and `BudgetHonest`; `NoRevival`, `HolderEndsClaim` and `KeysUnique`
  follow from the lemmas on steps.
- `ReceiptInv`: the key of an open transaction and of every receipt is carried by a
  row that was inserted (`ReceiptsSound`). The key of the transaction is the
  strengthening: its row may finish or be deleted before the lookup.
- `SnapInv` (one `work()` per process): the count that a worker holds for a row it
  owns is the row's own, hence `AttemptsGrow`.
- `ExecInv` = `TendedFresh`, `ClaimKept`, `Exclusive`: with heartbeats in time a row
  that is tended never reaches the age at which recovery or the sweep takes it, so
  its claim is kept, so nobody else can claim it. The three hold each other
  up, which is why they are proved together (`ClaimsKept`, `ExecutionExclusive`).
- `QueueKeepsLedger`: the initial states map, and every action is a ledger action or
  a stutter. `LedgerStep` splits by action; a step that changes one row's standing goes
  through `OneEntry`, one that changes none through `SameLedger`. `SlotOK` supplies what
  the ledger asks for: `ran` when a run is completed, `MaxAttempts` throws when it
  fails.

The proof of each step is organised by what actions touch (`StepRow`, `StepSlot`,
`StepHistory`, `StepAge`, `StepMode`), so the invariants cite those lemmas instead of
going through all actions again.

`TurnLivenessProofs`: `OneAnswer` by `ElectionInv`, which says for a message whose
handler was never repeated where it stands in each state of its dispatch: no
marker and no answer before, a marker or exactly one answer after; whoever answers
holds the marker (`EmitterKeepsElected`). `CoverHolds` by `CoverInv`, which adds that a
handler between arm and send is covered; `StepKeepsCovered` is the half that no marker
goes away without an answer, from which `NeverForgotten` follows.

`WorkerSessionProofs`: `IInv` has one part per concern, and one lemma shows for each what
every step does to it.

- `JobsOK`: a claimed job has one handler and an attempt left; without it even the type of
  `tries` fails. `ReceiptsOK`: a receipt on its way is that of a message that was read.
- `HandlersOK` is the heart: nothing takes the place of the stream that is read without ending it,
  and when it is open, the worker in the map runs or some handler has yet to resume it.
  `ConnectedIsServed` follows, since settled handlers have nothing left to resume.
- `WorkersOK`: workers outside of the map are stopped or lost, and whoever removes the
  connection has paused the one inside. This part does not need the handlers to have settled.
- `BatchOK`: `isProcessing` is set exactly while there is a batch, and no window is open then.
  `GroupLengthExists` shows that a first group exists, by the well-foundedness of <.
  `BatchesApart` and `ThrowsStrand` follow from the lemma on steps.

`EmbeddedDeploymentsProofs`: `ChildOK` ties a child's phase to its connection and its lock, `MapOK`
the entries and creations of a pod to its children, `FlagsOK` the flags to the children that were
stopped, `Counted` the counter to the set of connections in use. `TwoAreRivals` is the
argument: two children of a name and pod that both passed the lock are rivals, since a lock
has one holder. `RivalGoneStays` keeps the exceptions of the properties once they apply.

`ConnectorRunsProofs`: `RunOK` ties a run's requests to where its worker is, and says that the
items up to what it flushed are kept (stored or noted in `overtaken`), hence `NoItemSkipped`.
`Alone` says that on a feed without overlaps at most one worker may write, and that what
it would write is not behind the checkpoint, hence `CheckpointsGrow`. The reaper inserts
retries by a function from runs to new rows; `ReapEffect` turns that into what happens to
each row, and the other lemmas use only that.

`OperationRunProofs`: `Placed` says who may have to do with a run by its kind and approval,
`Counted` that gateway and worker have started it at most once each, `Unreported` that a run
just handed out has no report on its way, `Heard` that the caller's answer is the row's.
`ProfileOK` covers the moment between the two statements of `completeAuthRun`: while the
write on the profile is to come, the row already says what it will be.

`AgentConfigurationProofs`: `RepairsArePast` (a repair is recorded under a revision that is over)
gives `RepairsAreFree`. `PatchKeepsHash` is the argument of `SettingsHold`: what is not sealed
is not hashed. `EffectsArePast` says that a release that took effect has used up the revision it
expected and has moved its channel's cursor to its feed or past it; so it can take effect again only
without an expected revision, at a cursor that still is at its feed, and then the release in
place came on another channel. That last step, `RollbacksStay`, needs `OnePublication`: a feed publishes
one release. The code holds current commands to it (`validateCurrentContract`); a feed of the
older contract may publish several, and is not covered. `AuthorityImplementsLedger` splits the
refinement by action.

Where invariants were needed to prove them, they were checked by TLC first.

Refinement of `RunLedger` by `WorkerSession` (`SessionKeepsLedger`): `LedgerInv` adds two facts to
`IInv`, that a job whose handler waits for a receipt is still claimed (`PendingOK`) and that
what is on a stream was inserted (`SentOK`). Without the first, a receipt might complete
a job that went back to the queue or failed; without the second, a worker might read a job
that the ledger does not know.

Liveness. ENABLED is out of the prover's reach, so each theorem is the argument
with the enabledness left as a hypothesis: `FairSpec /\ []NothingIsStuck => ...`, where
`NothingIsStuck` says of each waiting state that the fair step out of it can be taken.
`NothingIsStuck` is an invariant of the run of each module. The
proofs name the phases of a wait, show from the inductive invariant that every step stays in
a phase or goes on to a later one and that the fair step leaves it, and put these together by
temporal logic.

Where something is counted down, or is to hold of all members of a set at once, the proof
is by induction over a temporal statement. The library's induction theorems cannot be
instantiated for that; `FiniteInduction` states induction of a function that marks with 1
what the statement is true of (`InductionOnNat`, `InductionOnFiniteSet`), which the provers can
use. It is proved from the well-foundedness of <. `Term` names that function where its existence
is shown, because a temporal witness cannot be written in a WITNESS step. That is where the theorems ask for finite sets;
the code has finitely many processes and rows at any time, and an instance of the model those of
some finite stretch of its life.

- `OperationsSettle` (`RequestsSettle`): an execution ends by its action, its report, or the reaper; a
  caller reads, expires, tries to write the timeout, rereads, and has its answer.
- `StoppedGiveBack` (`StoppedWorkersGiveBack`): alive, dead, releasing, given back. A pod that ends
  on the way ends its sessions, which is the same outcome.
- `LostClaimsReturn` (`LostClaimsEnd`): an untended claim stays untended until it ends (`LostStays`)
  and grows old, and an old one is swept. `LoopsReturn` (`LoopsComeBack`): fetched, running, to be settled,
  polling (`LoopSteps`).
- `RunsSettle` (`EveryRunSettles`), for finitely many processes and rows, any budget and any number
  of `work()` calls, with heartbeats in time. First, what can go wrong comes to an end:
  processes change their mode finitely often (`ModesSettle`), errors are
  bounded (`ErrorsSettle`), and so are retries (`RetriesCease`: a retry leaves a higher count behind,
  or one that some worker still had in view, and each worker has that in view once).
  From then on no claim is lost anew (`LossesCease`) and none goes back to the queue
  (`ReturnsCease`), so a row only goes forward and the whole queue comes to rest (`RowsSettle`).
  A row at rest is not claimed, as the loop that tends it comes back (`ClaimsEnd`). If it
  waited, it would be due and not expired for ever (`WaitingTurnsClaimable`); then a worker that polls
  takes some row, unless it was replaced (`PollerIsReplaced`), and the last worker of a process
  that goes on serving is not (`ClaimableIsTaken`). Without timely heartbeats the argument
  breaks at `ReturnsCease`, and TLC finds a counterexample of the `live` instance: a slow
  handler's claim is swept and taken anew without end, and what the handler then reports no
  longer counts.
- `SilentTurnsEnd`: once no signal comes, a fresh deadline lapses and a lapsed one
  is swept. A receipt moves deadlines too, also after the worker fell silent, so this theorem has the
  hypothesis `ReceiptsCease`. `ReceiptsDoCease` proves that of finitely many messages, from the
  receipts of each one (`ReceiptsOfEachCease`), and `SilenceAnswered` is `SilenceEndsTurns` without
  the hypothesis.

Only model-checked: the `NothingIsStuck` of each module (ENABLED), and the
three disagreements, which are counterexamples. No definition here is recursive.

## Not modelled

Where a part would add to this, in the order in which it would:

1. Thread responses: a terminal row is re-queued by replicas without the client's
   connection until its 30 attempts are over (unified-thread-consumer.ts:257). Over
   `RunsQueue`'s claims.
2. Consumer leases: generations and write chains against expiry. Only diagnostics read them.
3. Scheduled jobs and watchers, as far as their locks and the reconciliation of watcher runs go.

Left out of parts that are modelled:

- Worker gateway: heartbeat pings, session context, per-job tokens, routes that only read.
- Embedded deployments: which deployments the reconciliation picks (idle clock, age, maximum),
  the retries of the dispatching handler, turns without a run id, which take no lock, and the
  processes that nix-shell or systemd-run have of their own.
- Worker client: exec jobs, configuration events, the agent loop behind a turn.
- Connector runs: the `embed_backfill` and watcher lanes, the credentials that a sync's
  completion may update (run-lifecycle.ts 408-500), authentication artifacts and signals.
  What a schedule computes is left out; any feed that is not deleted may be due.
- Operations: what an operation does, OAuth callbacks, listings.
- Agent configuration: signatures, owners, environments, expiry dates, entitlements,
  capability bundles and the HTTP layer, for which a command may only be refused.

Left out for good: how guardrails, course gate and agents decide, prompts, provider
catalogues, chat adapters and connectors (I/O and conversion), interactions and
snapshots (one guarded statement each), authentication and the proxy (request-scoped
decisions), the CLI and the site.
