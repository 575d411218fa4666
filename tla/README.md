# gollem: TLA+ specifications

These modules specify parts of gollem, a Go framework for LLM agents. They are
translated from the Go source; `PROJECT.json` maps every definition to its
lines. TLC checks the modules on small instances, and TLAPS proves the safety of
both stores, the scheduler, teams, the event bus and the app server for every
instance.

## The system and its parts

| Part | Directory | State worth specifying | Status |
| --- | --- | --- | --- |
| Orchestrator store | `ext/orchestrator`, `.../memory` | tasks, leases, attempts, dependencies, artifacts, commands | specified |
| Orchestrator scheduler | `ext/orchestrator/scheduler.go`, `recovery_manager.go` | polling loop, run goroutines, renewal, recovery, commands, shutdown | specified |
| sqlite store, event history | `ext/orchestrator/sqlite`, `history.go` | transactions, event log, projections of runs and workers | specified, but for the migration of old databases |
| Event bus | `core/eventbus.go` | subscribers, queue, dispatch goroutine, close | specified |
| Teams | `ext/team` | teammates, assignment, shutdown, a scheduler per teammate | specified |
| App server connection | `appserver` (`jsonl.go`, `scheduler.go`, `approval.go`, `interactions.go`, `events.go`) | request slots and locks, questions to the client, end of a connection | specified for request handlers |
| App server turns and reverts | `appserver` (`runtime.go`, `workspace_revert_coordination.go`, `file_change_revert.go`), `appserver/store`, `appserver/tools/fs` | turns, retries, crash recovery, exact revert of a file | specified; not the rest of the store and of the file tools |
| App server terminals | `appserver/terminal_ownership.go`, `tools/process` | ownership across restarts | planned |
| Agent loop | `core` (agent, run engine, stream, steer, quota) | turns, tool calls, retries, limits | planned |
| Model wrappers | `modelutil` | retry loop, token bucket, fallback, cache | planned |
| Graphs, MCP, AG-UI | `ext/graph`, `ext/mcp`, `ext/agui` | step limit; request matching; session log and replay | planned |
| Temporal | `ext/temporal` | durable workflows | rests on Temporal's replay, which is not in this repository |
| Deep agents, memory, middleware, traces, eval, monty, tui | `ext/...` | little state, mostly formatting and I/O | not planned |
| Providers, auth, coding tools, commands, web UI, HTTP adapters | `provider`, `auth`, `ext/codetool`, `cmd`, `pkg/ui`, `contrib` | network, process and file I/O | not planned |

The orchestrator is the concurrent and fault-tolerant core: workers on several
machines share a store, crash, lose leases, retry, and answer commands addressed
to one another. Teams put agents on top of it. The app server is the daemon that
editors talk to; it shares one workspace among several connections.

## Modules

`TaskStore` has the task, lease and artifact methods of the in-memory store. All
of them run under one mutex, so each is one action. Missing map entries are
records with status `"absent"` or token 0; ids are the counters they are printed
from. The set `claims` holds what callers were given. Methods that take a token
are offered every token ever issued with any reading of the clock, so late,
repeated and reordered calls are all behaviours. The filters of a claim are one
set `skip`.

`TaskLifecycle` is what the store promises its callers: a task's status and the
run that owns it, with no leases, tokens, attempts or clocks. It says how many
tasks one call may move and from where to where.

`CommandStore` adds the command methods, which share the mutex. A command is
readdressed whenever a claim looks at it. One clock reading is two values: the
nanosecond count printed into the claim token, taken to be different at each
claim, and the coarse instant that measures the claim's age.

`SqliteStore` is the durable store. A method is one transaction: it changes the
state as the memory store does (the actions of `CommandStore`), appends event
records to `events`, and leaves in `outbox` what it publishes after the commit;
`Publish` empties the outbox onto the bus, and `Crash` into nowhere. `told` is the
picture that a subscriber of the bus has, who applies the events in the order in
which they come; after a crash it starts from the tables. The places where the
sqlite code differs from the memory code are modelled from the sqlite code.
`GetRun` and `ActiveRuns` are the projections that readers compute from the
records. Times are whole instants, as in the memory store. The code stores
expiries as RFC 3339 text and compares the text, which may misorder two instants
of the same second; that is not modelled.

`Scheduler` adds the workers to `CommandStore`: `loop[w]` is the program counter
and the locals of worker w's `Run`, `runs[n]` the goroutine of claim n
(`runClaim` and its `renewLoop`), `active[w]` the table of active runs and
`slots[w]` the slots taken. A step is one call to the store or one access to that
table. The runner is external: it returns success, a retryable error, another
error, or, once its context is canceled, the context's error. `ContextStore`
chooses between a store that ignores its context (memory) and one that fails
once it is canceled (sqlite). `HasController` says whether the runner implements
`RunController`.

`Team` has the teammates: `mates[i]` is made by the i-th call of
`SpawnTeammate`, with its goroutine (`pc`), the run of its scheduler (`work`),
the command its loop is at (`cmd`) and what `markTaskProgress` knows (`active`).
A name may be taken again by a later teammate. The store and the scheduler are
reduced to what a team sees of them, with the one attempt that a team's task has.
A task that is over keeps its assignee, and a retry makes it pending for that
name again, whether or not somebody still has it. Two fields record the past for
the properties: `early`, that a teammate was asked to stop before it had a cancel
function, and `late`, that a task became pending when nobody was left who would
look for it.

`EventBus` is the publish-subscribe bus. `Publish` and `PublishAsync` copy the
subscribers under one lock and call or queue them later, so they are two steps:
`calls[c]` is what client c is in the middle of. `loop` is the dispatch
goroutine, between dequeuing, waiting, calling handlers, and exiting. Handlers
return, panic, or call `Close`, which blocks the goroutine for good (`"stuck"`);
the crash of the program that follows a panic is left out. `audience`,
`accepted` and `log` record who was subscribed when, what the queue took, and
which handlers were called.

`Transport` is one connection of the app server: the select loop of
`ServeJSONLines` (`loop`), a goroutine for each scheduled request (`jobs`), the
slots and scope locks of the request scheduler, and a question that a request
may put to the client, from the pending table over the bounded queue and its
one-place signal to the client and back. Answers are handled by the loop itself.
A drain that fails has emptied the queue and sent the first few of its questions
(`DrainedInPart`). A scheduled method other than its question, notifications and
the questions of turns are left out.

`ExactRevert` is `RevertFile`, one operation of the file system per step:
`target` is the file, `box[k]` the transaction directory of key k, `op` the call
under way. Any operation may fail, and somebody else may write the file between
any two. `AppServer` extends it with the daemon: the turns in the store, the
starts and retries under way, the goroutines that run turns, the mutation
coordinator, the revert request with its durable record, and crash and restart.
Turns that shell commands and compactions create are left out: they are created
under the same start lease and ended by the same `failUnownedTurn`. So are the
turns that a fork copies, none of which is active.

The `MC` modules add symmetry sets (and, for `CommandStore`, a constraint) for
TLC. `StoreProofs`, `SqliteStoreProofs`, `SchedulerStepProofs`, `SchedulerProofs`,
`TeamProofs`, `EventBusProofs`, `AppServerProofs` and `TransportProofs` hold the
theorems.

Definitions introduced by "Variant:" are altered copies of an operation (a guard
dropped, a reset forgotten). Put in the operation's place they make TLC report
the property they are listed with in `PROJECT.json`, which shows that the
property depends on that operation.

## Runs

| Run | Configuration | Instance | Shows |
| --- | --- | --- | --- |
| `task_store` | `MCTaskStore.cfg` | 1 worker, 2 tasks, 2 claims, attempt limits 0 and 2 | store invariants and action properties; the store implements `TaskLifecycle` |
| `command_store` | `MCCommandStore.cfg` | 2 workers, 1 task, 2 commands, 2 claims of each sort | command claims, aborts and cancels |
| `scheduler_tasks` | `MCSchedulerTasks.cfg` | 2 workers with 2 slots, 1 task, 2 claims, context store | slots and leases are accounted for |
| `scheduler_commands` | `MCSchedulerCommands.cfg` | 1 worker, 1 task, 1 command, run controller, 1 fault | the table of active runs is exact, no claim is stranded, tasks settle, commands get handled, shutdown completes and requeues |
| `abort_targets_run` | `MCSchedulerAbort.cfg` | 2 workers, run controller | **fails**: see below |
| `shutdown_context_store` | `MCSchedulerShutdown.cfg` | 1 worker, context store | **fails**: see below |
| `sqlite_history` | `MCSqliteStore.cfg` | 1 worker, 2 tasks, 2 claims, 1 command, 8 records | the history, and what is published of it, tell the status of tasks, commands, runs and workers |
| `failure_events` | `MCSqliteFailures.cfg` | the same | **fails**: see below |
| `team` | `MCTeam.cfg` | 2 names, 2 teammates, 2 tasks, 1 fault | idle teammates, shutdown requests, shutdown, released tasks |
| `event_bus` | `MCEventBus.cfg` | 2 clients, 2 types, 2 subscriptions, 2 events | order, audience, draining at close, no lost wake-up |
| `app_server` | `MCAppServer.cfg` | 2 connections, 2 turns, 2 revert keys, 2 edits, 1 fault, 2 crashes | reverts exclude turns, turns are owned, reverts are all or nothing, edits survive |
| `transport` | `MCTransport.cfg` | 2 requests, 2 slots, 1 scope, queue of 1, 2 faults | slots, locks and questions are exact; requests get answered; the connection ends |

Bounds. Two tasks give dependencies, deletion of a blocker and a claim that
skips one task for another. Two claims give a run, the run that
supersedes it and a late call of the first; one worker is enough in `task_store`
because the store compares tokens and never workers. Two instants and a lease of
one give a lease that is live, one that expired, and callers that disagree. Two
attempts give retry, exhaustion and roll-back. In the scheduler runs one fault
(cancellation or crash) can strike anywhere. With one worker and one command the
loop meets its own earlier run, the case in which the store moved under the
command; two workers with commands are explored in `abort_targets_run` up to the
violation. A crash is allowed only while the clock can still reach the expiry of
what the worker held. Eight records are enough for two runs of a task with a
release between them, a recovery of two leases in one transaction, and a claim
that meets a finished task; records that leave the status of tasks alone count
twice. Two teammates are a team, or a teammate and its later namesake. On the
bus, two events and two subscriptions give an event with two handlers, two
events in the queue, and subscriptions that start or end between any two steps of
a publication; two clients give publishers that overtake each other and one that
is overtaken by `Close`. In the app server two crashes strike the revert and the
repair of what the first left; two connections and two turns give a start in
competition with a start, a retry and a revert; two keys give a request that is
refused while the other's revert is pending. On a connection two requests with
one lock and a queue of one give waiting for the lock, waiting for the client,
both at once, refusal, and the loss of a question. A drain that fails between two
questions needs a longer queue; the theorems cover it.

Fairness. In the scheduler every loop and goroutine keeps running (weak fairness
on its next step); runners return; the clock advances; a stopped or killed worker
is started again. `Sweep` and the canceled-context branch of `Run`'s select are
strongly fair: the recovery interval elapses again and again, and Go chooses
among ready select cases at random. Nothing is assumed of clients, cancellations
or crashes, or of the order in which renewals and expiries happen. The progress
properties hold "or the bound on claims is reached", since each retry consumes a
claim. On the bus, calls under way go on, the dispatch goroutine runs and
handlers return; that anyone publishes, closes, panics or closes from a handler
is not assumed, and the two progress properties except the handler that closes.
On a connection, handlers and the loop go on (weak); the select of the loop and
the wait for a scope lock are strongly fair (random choice among ready cases;
channels serve waiters in order); and the client answers the questions it has
got, which is an assumption about the client.

### Disagreements with the documentation

* `RunAbortCause ... aborts only the targeted run attempt` (`commands.go`):
  `applyAbortRun` checks the run on one read and takes the lease token from a
  later one, and can fail the next run of the task.
* A canceled scheduler requeues its running task and gives the attempt back
  (`scheduler_test.go`): on a store that honours its context, a renewal that
  ticks after the cancellation fails, and the task is failed for good.
* `TaskFailedEvent is published when a task reaches failed` (`events.go`): a
  claim on the sqlite store that meets a completed task without attempts left
  records and publishes a failure, and `GetRun` then reports the completed run
  as failed.

### What the properties except

Properties that would be false in full name their exceptions. The exceptions
are what a maintainer should know:

* Commands. `ListPendingCommandsForWorker` filters on the stored address, a claim
  on the recomputed one, so a listed command may be refused.
* Tasks. A task in a cycle of dependencies, or behind a failed one, stays pending
  for ever; `TasksSettle` is about tasks that are not blocked. A renewal that
  fails after the runner has succeeded turns its result into a failure.
* History. A claim may take over a task whose lease has expired and has not been
  recovered. It records `task_claimed` and nothing of the run it displaces, so
  the history has no end of that run, and `ActiveRuns` counts it among the active
  runs of its worker from then on. `events.go` says of `LeaseReleasedEvent` that
  it is published when a lease is "released or reclaimed", and the store tests
  call such a claim a reclaim. `ActiveRunsAccountedFor` excepts these runs
  (`Reclaimed`) and those whose task was deleted under them (`Dropped`).
* Scheduler. With two slots a claim that is registered late can hide a newer run
  of the same task from the table of active runs; `RegistryIsExact` is stated
  for one slot.
* Teams. A shutdown request that arrives before `SpawnTeammate` has set
  `tm.cancel` cancels nothing. A run whose task was deleted or lost its lease
  ends without being settled; its teammate looks busy and ignores requests until
  it has run another task. A task created or retried for a teammate that has
  already let go of its tasks stays assigned to the name. A task deleted in the
  middle of `releaseAssignedTasks` ends the search, and a teammate whose initial
  task cannot be created leaves without one. A teammate's scheduler stops when
  the task of a command it has claimed is deleted.
* Turns. `shutdownCLIAppServerRuntime` waits five seconds and then the store is
  closed: a run that takes longer leaves its turn running, with nobody to end
  it, until the daemon is started again. `RollbackThread` removes a retry turn
  together with its idempotency key, so the same request starts the model again.
* Reverts. The roll-back of an installation whose quarantine cannot be removed
  removes the file as it is then, somebody's edit included. Rolling back or
  deleting the thread while a revert is pending leaves the file in quarantine.
  The abort of a revert looks only at the file; an edit that sits in the
  quarantine of that key stays there. `RevertIsAllOrNothing` is about crashes;
  once an operation of the file system has failed, only `EditsSurvive` holds.
* Connections. A full queue loses its oldest question, whose asker waits until
  its context ends. When the input ends while a request waits for an answer,
  `ServeJSONLines` waits with it.

## Proofs

`StoreProofs` proves, for any set of workers, any bounds, any lease durations
and any attempt limits (assumption `StoreConstants`):

* `StoreSafe`: `StoreInv`, the conjunction of the seven invariants, is inductive.
  The parts need one another. `LeaseFencesRun` (an accepted token belongs to the
  task's current run) needs `TypeOK` (tokens and runs come from counters) and
  `RunningIffLeased`; `BlockersStayCompleted` and `OutcomesFromCompletingRun`
  need the record of claims that `LeaseFencesRun` ties to the tasks. One lemma
  for each method shows that it preserves the conjunction. Of the dependencies
  the methods only need that the lists of a task name tasks that exist: `CoreInv`
  is `StoreInv` with that in place of `DependenciesMirrored`, inductive by itself.
* One theorem for each invariant, by projection.
* `StoreCompletedIsFinal` and `StoreLostLeaseStaysLost`: the two action
  properties, from the same invariant.
* `StoreImplementsLifecycle`: the store implements `TaskLifecycle`. The mapping
  reads a task's life off its status and whether its id was issued, and its owner
  off its run. The initial states map to the initial state, and each method has a
  lemma that it is one step of the contract or a stutter. A claim that gives up
  exhausted tasks on its way to the one it takes is a single step of the contract
  that moves several tasks. `LifeInv` adds to `StoreInv` that runs and tokens are
  issued together.

The commands build on it. `CommandInv` adds to `StoreInv` the types of
commands and the fact that a task's run was given out as a claim
(`RunsWereClaimed`), which is what pins an abort to a claim of its run. A step of
the task store keeps the command invariants because claims are never taken back
(`StoreStepClaims`); each command method has a lemma of its own. `CommandsSafe`,
`ClaimantSafe`, `AbortSafe` and `CancelSafe` follow.

`SqliteStoreProofs` proves, for any workers, tasks, claims, commands, clocks and
any length of the history (assumptions `StoreConstants`, `CommandConstants`):

* `SqliteSafe`: `SqliteInv` is inductive. It has three parts. `CommandCore` is the
  core of the invariants of the in-memory store; the full ones do not hold here,
  because a task that names itself is linked on one side only. `RunsKnown` ties
  the run and the attempt of a task to the one claim that was granted for it.
  `HistoryInv` says what the records tell: each is filed under a run that was
  started and, where it names a worker or an attempt, names those of its claim;
  each claim has a record of its start; the last record about the status of a
  task, of a command, and of the run a task names agrees with the tables, with
  the exception that `HistoryTellsStatus` names.
* The argument is the same for every transaction: what it appends tells all that
  it changes (`StepTold`). There is one step of proof for each transaction under
  `TaskTxTold` and `CommandTxTold`, and `HistoryGrows` shows that records which
  tell a step preserve `HistoryInv`.
* `SqliteHistoryTells` and `SqliteRunsTold`: what a reader concludes from the
  history, `HistoryTellsStatus` and `RunHistoryAgrees`. The summary of a run is a
  fold over the records. That it is what the invariant says after every prefix is
  shown by looking at the first prefix where it would not be (`WellOrdered`).
* `SqliteFencing` and `SqliteClaimant`: what the in-memory store promises about
  leases and commands holds of the durable one.
* `SqliteSubscribersFollow`: the invariant `SubscribersFollow`. `FollowInv` says
  that the last event of the outbox about a task or a command, or without one what
  the subscriber has been told before, agrees with the tables. A transaction
  establishes it because its records tell the step and it publishes the same
  records (`Committed`): in the same order, or, in a recovery, in another one, but
  then no two of them tell the status of one task (`OneWordEach`).

`SchedulerStepProofs` and `SchedulerProofs` prove, for any number of workers,
slots, tasks, commands, claims, instants and faults, for both sorts of store and
with or without a run controller (assumptions `SchedulerConstants`,
`CommandConstants`, `StoreConstants`):

* `WorkersSafe`: `WorkersInv` is inductive. The four invariants of the scheduler
  need to know what a loop has read and not yet used (`LoopOK`: the command in its
  hands is one it claimed, the lease it read was given out for the command's
  task, the claim it is about to start is its own), that a goroutine works on a
  claim of its worker and renews only once registered (`RunOK`), and that a claim
  about to be started has no goroutine yet (`StartsFresh`). From the store they
  need that every lease was handed out with a claim and that no token was issued
  twice (`StoreFacts`). Most steps leave slots and table alone and make no lease
  live; `SteadyKeeps` deals with these at once. Taking and giving back a slot,
  starting a run, registering, leaving and crashing have proofs of their own,
  which count goroutines.
* `SchedulerUsesStore`: every step of the scheduler is one call that the
  specification of the store allows, or leaves the store alone. So what is proved
  of the store holds under the scheduler. It needs `WorkersInv`: a call is allowed
  because its token was given out.
* `SlotsAreAccountedFor`, `RegistryStaysExact`, `LiveLeasesAreWorkedOn`,
  `ClaimedCommandsAreWorkedOn`: the four invariants, by projection.
* `ShutdownGivesBack`: the action property `ShutdownRequeues`, for a store that
  ignores its context. With one that does not, it fails
  (`shutdown_context_store`). The proof needs `FailedRenewalsLost`: a goroutine
  whose renewal failed has lost its lease, and since nobody else renews it and
  the clock does not go back, lost it for good. So a run whose lease is good has
  no error that would keep it from handing the task back.

`TeamProofs` proves, for any names, teammates, tasks and faults (assumption
`TeamConstants`):

* `TeamIsConsistent`: `TeamInv` is inductive. It says of each teammate how its
  goroutine, its scheduler and the run in its table fit together (`MateOK`), that
  the names taken are those of teammates not yet removed, that a running task is
  leased to a teammate that is at it, and that a pending task with an assignee
  waits for a teammate that will still look for its tasks, or became pending too
  late for that (`WaitsForSomebody`). A retry is a step like any other: whether
  somebody will look is asked again.
* `IdleTeammatesAreFree`, `RequestsAreHeeded`, `ShutdownIsComplete` and
  `NoTaskWaitsForTheGone` follow.

`EventBusProofs` proves, for any clients, event types and bounds (assumption
`BusConstants`):

* `QueueSafe`: `QueueInv` is inductive. `DeliveredInOrder` and `NothingSkipped`
  look only at the log; to be preserved they need to know that the queue is
  the end of `accepted` and the current event the one before it (`QueueIsRest`),
  that no call was logged ahead of the goroutine (`LogIsBehind`), and that the
  current event has been handed out as far as `next` says (`CurrentIsCalled`).
* `OrderSafe`, `SkipSafe`, and `DrainSafe` (with `ExitsEmpty`: the goroutine
  leaves only a closed bus with an empty queue).
* `AudienceSafe`: `AudienceInv` says that a subscription in a list is there once,
  under its type, and has not ended, that one in no list has ended or has not
  begun, and that the entries of the queue and of the `PublishAsync` calls under
  way carry exactly their audience. `ExactAudience` follows: what was copied stays
  exact because a subscription that ends later does not change who was subscribed
  at the time (`ExactStays`).

`AppServerProofs` proves, for any connections, turns, keys, edits, failing
operations and crashes (assumptions `ServerConstants`, `RevertConstants`):

* `TurnsSafe`: `TurnInv` ties a start under way to the lease and to its turn, a
  run to a running turn, and the reservation to the absence of all of them.
  `ExclusionSafe` and `OwnershipSafe` follow.
* `FilesSafe`: `FileInv` says for each program counter of `RevertFile` where the
  file, the quarantine and the replacement are, and `RecordInv` how that fits
  the durable record. `AllOrNothingSafe` follows, and `EditsSafe` step by step.

`TransportProofs` proves, for any limits, scopes and requests (assumption
`TransportConstants`), `SchedulerSafe` and `QuestionsSafe`. The first needs the
finite set of requests under way and its cardinality; the second needs where the
question of each request is between the pending table, the queue and the client.

Model-checked only:

* Everything about progress (`TasksSettle`, `CommandsGetHandled`,
  `ShutdownCompletes`, `EventsGetDelivered`, `CloseCompletes`,
  `RequestsGetAnswered`, `ServeReturns`), since fairness is out of the prover's
  reach.
* `ActiveRunsAccountedFor`. It equates two cardinalities, and which runs count as
  cut short depends on the place of their first record in the history; the
  invariant above says which records are last and nothing of their places.

## Not modelled

The table above names the parts; what is left, in the order in which it would be
taken up:

1. App server: terminals and their owners, steering, the questions of turns.
2. Model wrappers: the retry loop and its deadline. The token bucket of the rate
   limiter counts in floating point, which TLC does not have.
3. Agent loop: turns, tool calls with retries, usage limits, steering; graphs.
4. MCP and AG-UI: request matching, session log and replay.

Providers, coding tools, user interfaces and command line are encoding and I/O
with little state between calls; a model of them would restate library calls.
