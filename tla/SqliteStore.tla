---------------------------- MODULE SqliteStore ----------------------------
(***************************************************************************)
(* The durable store (ext/orchestrator/sqlite/store.go, history.go) and    *)
(* what readers make of its history (ext/orchestrator/history.go).         *)
(*                                                                         *)
(* A method takes the store's mutex, changes tasks, leases, artifacts and  *)
(* commands and appends event records in one transaction (withTx), and     *)
(* when the transaction has committed publishes the same events on the bus *)
(* of its process, unless the process dies in between.  A transaction that *)
(* fails changes nothing and is no step.                                   *)
(*                                                                         *)
(* The methods change the store as those of the memory store do, and the   *)
(* actions of CommandStore are used for that.  They differ in three        *)
(* places, which are modelled from the sqlite code: a claim reports every  *)
(* task it meets that is out of attempts, a task linked to itself keeps    *)
(* only its own side of the link, and a command claim that finds nothing   *)
(* rolls the readdressing back.                                            *)
(***************************************************************************)
EXTENDS CommandStore, Sequences, Functions, FiniteSetsExt

CONSTANT
    MaxEvents       \* bound: event records ever written, those that leave the
                    \*   status of tasks alone counted twice

ASSUME HistoryConstants == MaxEvents \in Nat

VARIABLES
    events,     \* the event table: the i-th record has sequence number i
    outbox,     \* events of the last transaction, to be published before the
                \*   mutex is released
    told        \* what a subscriber of the process's bus takes the status of every
                \*   task and command to be; no code reads it

historyVars == <<events, outbox, told>>
sqliteVars == <<allVars, historyVars>>

SqliteInit ==
    /\ Init
    /\ events = <<>>
    /\ outbox = <<>>
    /\ told = [tasks |-> [t \in TaskId |-> "absent"],
               commands |-> [k \in CommandId |-> "absent"]]

-----------------------------------------------------------------------------
(* Event records: the ids they are filed under and the part of the payload *)
(* that the projections read. *)

Record(kind, t, run, attempt, w, k) ==
    [kind |-> kind, task |-> t, run |-> run, attempt |-> attempt, worker |-> w,
     command |-> k]

TaskRecord(kind, t) == Record(kind, t, 0, 0, NoWorker, 0)

\* taskCompletedRecord, taskFailedRecord, taskCanceledRecord and
\* taskRequeuedRecord: the run and the attempt the task had before the step.
RunRecord(kind, t) ==
    Record(kind, t, tasks[t].run.id, tasks[t].attempt, NoWorker, 0)

\* leaseRenewedRecord and leaseReleasedRecord.
LeaseRecord(kind, t) ==
    Record(kind, t, tasks[t].run.id, 0, leases[t].worker, 0)

ClaimedRecord(t, w) ==
    Record("task_claimed", t, nextRun + 1, tasks[t].attempt + 1, w, 0)

CommandRecord(kind, k, command) ==
    Record(kind, command.task, command.run, 0, NoWorker, k)

\* The sequences in which each element of a finite set occurs once.
Listings(S) == UNION {Bijection(1..n, S) : n \in 0..Cardinality(S)}

InOrder(records, Before(_, _)) ==
    \A i, j \in 1..Len(records) : i < j => Before(records[i], records[j])

\* The order in which tasks were created.
Older(d, e) == d.task < e.task

AsideKinds == {"task_updated", "lease_renewed", "artifact_created",
               "command_created", "command_claimed", "command_released",
               "command_handled"}

Weight(records) ==
    Len(records) + Len(SelectSeq(records, LAMBDA e : e.kind \in AsideKinds))

\* Variant: the history is written outside the transaction and lost.
CommitUnrecorded(records, published) ==
    /\ Weight(events \o records) <= MaxEvents
    /\ outbox' = published
    /\ UNCHANGED <<events, told>>

\* Variant: of the events of a transaction only the first is published.
CommitPublishFirst(records, published) ==
    /\ Weight(events \o records) <= MaxEvents
    /\ events' = events \o records
    /\ outbox' = SubSeq(published, 1, 1)
    /\ UNCHANGED told

\* withTx and what follows it: the transaction wrote `records', and the method
\* goes on to publish `published'.
Commit(records, published) ==
    /\ Weight(events \o records) <= MaxEvents
    /\ events' = events \o records
    /\ outbox' = published
    /\ UNCHANGED told

CommitAndPublish(records) == Commit(records, records)

\* The status a record leaves its task or command in.
StatusAfter ==
    [task_created |-> "pending", task_requeued |-> "pending", task_claimed |-> "running",
     task_completed |-> "completed", task_failed |-> "failed",
     task_canceled |-> "canceled", task_deleted |-> "absent",
     command_created |-> "pending", command_released |-> "pending",
     command_claimed |-> "claimed", command_handled |-> "handled"]

\* What a subscriber makes of status s when it hears the events of the outbox
\* that are about task t, or about command k.
Heard(s, t, k) ==
    LET news == {i \in 1..Len(outbox) : /\ outbox[i].command = k /\ (k = 0 => outbox[i].task = t)
                                        /\ outbox[i].kind \in DOMAIN StatusAfter}
    IN  IF news = {} THEN s ELSE StatusAfter[outbox[Max(news)].kind]

\* The events go to the bus, in this order, while the mutex is held.
Publish ==
    /\ told' = [tasks |-> [t \in TaskId |-> Heard(told.tasks[t], t, 0)],
                commands |-> [k \in CommandId |-> Heard(told.commands[k], 0, k)]]
    /\ outbox' = <<>>
    /\ UNCHANGED <<allVars, events>>

\* The process dies before it has published them.  The next one to open the
\* database finds it as the transaction left it, and so do its subscribers.
Crash ==
    /\ told' = [tasks |-> [t \in TaskId |-> tasks[t].status],
                commands |-> [k \in CommandId |-> commands[k].status]]
    /\ outbox' = <<>>
    /\ UNCHANGED <<allVars, events>>

-----------------------------------------------------------------------------
(* Tasks. *)

\* linkTaskDependenciesTx and the save of the task itself that follows it: the
\* peers get the matching entry, the task what the caller made of it.
LinkedTx(ts, t, blocks, blockedBy) ==
    [Linked(ts, t, blocks, blockedBy) EXCEPT
        ![t] = [@ EXCEPT !.blocks = blocks, !.blockedBy = blockedBy]]

\* The peers it saved: those whose own list grew.
PeersLinked(t, blocks, blockedBy) ==
    {x \in TaskId : \/ x \in blocks /\ t \notin tasks[x].blockedBy
                    \/ x \in blockedBy /\ t \notin tasks[x].blocks}

\* One record for each peer.  The code lists them in no particular order.
PeerRecords(peers) == Listings({TaskRecord("task_updated", x) : x \in peers})

CreateTaskTx(blocks, blockedBy, limit) ==
    /\ CreateTask(blocks, blockedBy, limit)
    /\ \E updated \in PeerRecords(blocks \cup blockedBy) :
          CommitAndPublish(<<TaskRecord("task_created", nextTask + 1)>> \o updated)

UpdateTaskTx(t, addBlocks, addBlockedBy) ==
    LET blocks == tasks[t].blocks \cup addBlocks
        blockedBy == tasks[t].blockedBy \cup addBlockedBy
    IN  /\ Exists(t)
        /\ KnownTasks(addBlocks \cup addBlockedBy)
        /\ tasks' = LinkedTx(tasks, t, blocks, blockedBy)
        /\ UNCHANGED <<leases, artifacts, nextTask, nextRun, nextLease, claims>>
        /\ \E updated \in PeerRecords(PeersLinked(t, blocks, blockedBy)) :
              CommitAndPublish(<<TaskRecord("task_updated", t)>> \o updated)

DeleteTaskTx(t) ==
    /\ DeleteTask(t)
    /\ \E updated \in PeerRecords({x \in TaskId \ {t} :
                                      t \in tasks[x].blocks \cup tasks[x].blockedBy}) :
          CommitAndPublish(<<TaskRecord("task_deleted", t)>> \o updated)

-----------------------------------------------------------------------------
(* Claims. *)

\* claimTaskTx returns the task as exhausted, whatever its status.
ReportedExhausted(t, skip, now) ==
    Exists(t) /\ ~PassedOver(t, skip, now) /\ Exhausted(t)

\* One record for each, in the order in which the claim met them.
FailedRecords(reported) ==
    {failed \in Listings({RunRecord("task_failed", t) : t \in reported}) : InOrder(failed, Older)}

\* A claim that grants nothing: `spent' fails, `reported' is recorded.
RejectTx(spent, reported) ==
    /\ reported # {}
    /\ tasks' = TasksGivenUp(spent)
    /\ leases' = LeasesGivenUp(spent)
    /\ UNCHANGED <<artifacts, nextTask, nextRun, nextLease, claims>>
    /\ \E failed \in FailedRecords(reported) : CommitAndPublish(failed)

GrantTx(t, w, ttl, now, spent, reported) ==
    /\ Grant(t, w, ttl, now, spent)
    /\ \E failed \in FailedRecords(reported) :
          CommitAndPublish(failed \o <<ClaimedRecord(t, w)>>)

ClaimTaskTx(t, w, ttl, now, skip) ==
    \/ Claimable(t, skip, now) /\ GrantTx(t, w, ttl, now, {}, {})
    \/ /\ ReportedExhausted(t, skip, now)
       /\ RejectTx(IF GivenUp(t, skip, now) THEN {t} ELSE {}, {t})

ClaimReadyTaskTx(w, ttl, now, skip) ==
    LET ready == {t \in TaskId : Claimable(t, skip, now)}
        spent == {t \in TaskId : GivenUp(t, skip, now)}
        reported == {t \in TaskId : ReportedExhausted(t, skip, now)}
    IN  \/ \E t \in ready :
              /\ \A u \in ready : t <= u
              /\ GrantTx(t, w, ttl, now, {u \in spent : u < t}, {u \in reported : u < t})
        \/ ready = {} /\ RejectTx(spent, reported)

-----------------------------------------------------------------------------
(* Ending a run. *)

CompleteTaskTx(t, token, emits, now) ==
    /\ CompleteTask(t, token, emits, now)
    /\ CommitAndPublish(<<RunRecord("task_completed", t)>>
          \o (IF emits THEN <<RunRecord("artifact_created", t)>> ELSE <<>>))

FailTaskTx(t, token, retryable, now) ==
    /\ FailTask(t, token, retryable, now)
    /\ CommitAndPublish(<<RunRecord(IF retryable /\ ~Exhausted(t) THEN "task_requeued"
                                                                   ELSE "task_failed", t)>>)

CancelTaskTx(t, token, now) ==
    /\ CancelTask(t, token, now)
    /\ CommitAndPublish(<<RunRecord("task_canceled", t)>>)

RetryTaskTx(t) ==
    /\ RetryTask(t)
    /\ CommitAndPublish(<<RunRecord("task_requeued", t)>>)

RenewLeaseTx(t, token, ttl, now) ==
    /\ RenewLease(t, token, ttl, now)
    /\ CommitAndPublish(<<LeaseRecord("lease_renewed", t)>>)

\* Variant: the release is recorded after the requeue has forgotten the run.
ReleaseLeaseLate(t, token) ==
    /\ ReleaseLease(t, token)
    /\ CommitAndPublish(<<Record("lease_released", t, 0, 0, leases[t].worker, 0),
                          Record("task_requeued", t, 0, 0, NoWorker, 0)>>)

\* A leased task is running (RunningIffLeased), so a release requeues it.
ReleaseLeaseTx(t, token) ==
    /\ ReleaseLease(t, token)
    /\ CommitAndPublish(<<LeaseRecord("lease_released", t)>>
          \o (IF tasks[t].status = "running" THEN <<RunRecord("task_requeued", t)>> ELSE <<>>))

\* The records are written task by task, the events published kind by kind.  The
\* query compares expiries, with now and with each other, as text: RFC3339Nano
\* drops trailing zeros of the fraction, so two times within one second may
\* compare the other way round.  Time here is in whole seconds.
RecoverLeasesTx(S, now) ==
    LET lost == {t \in S : LeaseExpired(t, now)}
        records == {LeaseRecord("lease_released", t) : t \in lost}
                   \cup {RunRecord(IF Exhausted(t) THEN "task_failed" ELSE "task_requeued", t) :
                            t \in {u \in lost : tasks[u].status = "running"}}
        Sooner(d, e) ==
            \/ leases[d.task].expiresAt < leases[e.task].expiresAt
            \/ leases[d.task].expiresAt = leases[e.task].expiresAt /\ d.task < e.task
        ByTask(d, e) == Sooner(d, e) \/ (d.task = e.task /\ d.kind = "lease_released")
        Rank(e) == CASE e.kind = "lease_released" -> 1
                     [] e.kind = "task_failed" -> 2
                     [] e.kind = "task_requeued" -> 3
        ByKind(d, e) == Rank(d) < Rank(e) \/ (Rank(d) = Rank(e) /\ Sooner(d, e))
    IN  /\ lost # {}
        /\ RecoverLeases(S, now)
        /\ \E written, published \in Listings(records) :
              /\ InOrder(written, ByTask) /\ InOrder(published, ByKind)
              /\ Commit(written, published)

CreateArtifactTx(t) ==
    /\ CreateArtifact(t)
    /\ CommitAndPublish(<<TaskRecord("artifact_created", t)>>)

-----------------------------------------------------------------------------
(* Commands. *)

CreateCommandTx(kind, t, run) ==
    /\ CreateCommand(kind, t, run)
    /\ CommitAndPublish(<<CommandRecord("command_created", nextCommand + 1,
                                        commands'[nextCommand + 1])>>)

\* A claim that grants command k; without one the transaction is rolled back.
ClaimCommandTx(k, w, now, seen) ==
    /\ ClaimSeen(k, w, now, seen)
    /\ CommitAndPublish(<<CommandRecord("command_claimed", k, Refreshed(k))>>)

ClaimPendingCommandTx(w, now) ==
    LET pending == {k \in CommandId : Pending(k)}
        mine == {k \in pending : ForWorker(k, w)}
    IN  \E k \in mine :
            /\ \A j \in mine : k <= j
            /\ ClaimCommandTx(k, w, now, {j \in pending : j < k})

HandleCommandTx(k, token, w) ==
    /\ HandleCommand(k, token, w)
    /\ CommitAndPublish(<<CommandRecord("command_handled", k, commands[k])>>)

ReleaseCommandTx(k, token) ==
    /\ ReleaseCommand(k, token)
    /\ CommitAndPublish(<<CommandRecord("command_released", k, commands[k])>>)

RecoverCommandsTx(S, before) ==
    LET stale == {k \in S : commands[k].status = "claimed" /\ commands[k].claimedAt <= before}
        records == {CommandRecord("command_released", k, commands[k]) : k \in stale}
        Lower(d, e) == d.command < e.command
    IN  /\ stale # {}
        /\ RecoverCommands(S, before)
        /\ \E released \in Listings(records) :
              InOrder(released, Lower) /\ CommitAndPublish(released)

-----------------------------------------------------------------------------

\* The dependencies one call adds: at most one.
Links == {[blocks |-> {}, blockedBy |-> {}]}
         \cup {[blocks |-> {t}, blockedBy |-> {}] : t \in TaskId}
         \cup {[blocks |-> {}, blockedBy |-> {t}] : t \in TaskId}

TaskTx ==
    \/ \E link \in Links :
          \/ \E limit \in AttemptLimits : CreateTaskTx(link.blocks, link.blockedBy, limit)
          \/ \E t \in TaskId : UpdateTaskTx(t, link.blocks, link.blockedBy)
    \/ \E t \in TaskId : DeleteTaskTx(t) \/ RetryTaskTx(t) \/ CreateArtifactTx(t)
    \/ \E w \in Worker, ttl \in TTLs, now \in Time, skip \in SUBSET TaskId :
          \/ ClaimReadyTaskTx(w, ttl, now, skip)
          \/ \E t \in TaskId : ClaimTaskTx(t, w, ttl, now, skip)
    \/ \E c \in claims, now \in Time :
          \/ \E emits \in BOOLEAN : CompleteTaskTx(c.task, c.token, emits, now)
          \/ \E retryable \in BOOLEAN : FailTaskTx(c.task, c.token, retryable, now)
          \/ \E ttl \in TTLs : RenewLeaseTx(c.task, c.token, ttl, now)
          \/ CancelTaskTx(c.task, c.token, now)
    \/ \E c \in claims : ReleaseLeaseTx(c.task, c.token)
    \/ \E t \in TaskId, now \in Time : CancelTaskTx(t, 0, now)
    \/ \E now \in Time, S \in {TaskId} \cup {{t} : t \in TaskId} : RecoverLeasesTx(S, now)

CommandTx ==
    \/ \E kind \in Kind, t \in TaskId, run \in 0..nextRun : CreateCommandTx(kind, t, run)
    \/ \E w \in Worker, now \in Time :
          \/ ClaimPendingCommandTx(w, now)
          \/ \E k \in CommandId :
                Pending(k) /\ ForWorker(k, w) /\ ClaimCommandTx(k, w, now, {})
    \/ \E cc \in commandClaims :
          \/ HandleCommandTx(cc.command, cc.token, cc.worker)
          \/ ReleaseCommandTx(cc.command, cc.token)
    \/ \E before \in Time, S \in {CommandId} \cup {{k} : k \in CommandId} :
          RecoverCommandsTx(S, before)

\* The mutex is free: the last method has published its events.
Unlocked == outbox = <<>> /\ Weight(events) < MaxEvents

SqliteNext ==
    \/ Unlocked /\ TaskTx /\ UNCHANGED commandVars
    \/ Unlocked /\ CommandTx
    \/ Publish \/ Crash

SqliteSpec == SqliteInit /\ [][SqliteNext]_sqliteVars

-----------------------------------------------------------------------------
(* What readers make of the history (orchestrator/history.go). *)

\* runStatusFromEvent, for the kinds that end a run.
RunStatusFromEvent ==
    [task_completed |-> "completed", task_failed |-> "failed",
     task_canceled |-> "canceled", task_requeued |-> "requeued",
     lease_released |-> "released"]

NewTimeline == [worker |-> NoWorker, attempt |-> 0, status |-> "running"]

\* Variant: the first event that ends a run is taken for its end.
ApplyFirstEnd(timeline, e) ==
    [worker |-> IF timeline.worker = NoWorker THEN e.worker ELSE timeline.worker,
     attempt |-> IF e.attempt > 0 THEN e.attempt ELSE timeline.attempt,
     status |-> IF e.kind \in DOMAIN RunStatusFromEvent /\ timeline.status = "running"
                THEN RunStatusFromEvent[e.kind] ELSE timeline.status]

\* applyRunProjection.  Records whose payload has no worker or no attempt have
\* NoWorker or 0 there.
ApplyRunProjection(timeline, e) ==
    [worker |-> IF timeline.worker = NoWorker THEN e.worker ELSE timeline.worker,
     attempt |-> IF e.attempt > 0 THEN e.attempt ELSE timeline.attempt,
     status |-> IF e.kind \in DOMAIN RunStatusFromEvent
                THEN RunStatusFromEvent[e.kind] ELSE timeline.status]

\* GetRun: the summary of run r, from the records filed under it.
GetRun(r) ==
    LET after[n \in 0..Len(events)] ==
            IF n = 0 THEN NewTimeline
            ELSE IF events[n].run = r THEN ApplyRunProjection(after[n - 1], events[n])
            ELSE after[n - 1]
    IN  after[Len(events)]

\* GetWorker: the runs of worker w that have not ended.
ActiveRuns(w) ==
    Cardinality({r \in 1..nextRun : GetRun(r).worker = w /\ GetRun(r).status = "running"})

-----------------------------------------------------------------------------
(* Properties. *)

\* The run of claim c was still going when its task was deleted, or when its lease
\* had expired and claimTaskTx gave the task to another run.
Displaced(c, kind) ==
    LET started == CHOOSE i \in 1..Len(events) :
                       events[i].kind = "task_claimed" /\ events[i].run = c.run
    IN  \E i \in started + 1..Len(events) :
            /\ events[i].task = c.task /\ events[i].kind = kind
            /\ \A j \in started + 1..i : events[j].run = c.run =>
                    events[j].kind \notin DOMAIN RunStatusFromEvent
Dropped(c) == Displaced(c, "task_deleted")
Reclaimed(c) == Displaced(c, "task_claimed")

\* The summary of a run agrees with what the store knows: it names the worker
\* and the attempt that were claimed, and for the run a task names the task's
\* status.  The exception is a completed task without attempts left, of which
\* a later claim may have recorded a failure.
RunHistoryAgrees ==
    \A c \in claims :
        LET run == GetRun(c.run)
            task == tasks[c.task]
        IN  /\ run.worker = c.worker /\ run.attempt = c.attempt
            /\ task.run.id = c.run =>
                  \/ run.status = task.status
                  \/ task.status = "completed" /\ Exhausted(c.task) /\ run.status = "failed"

\* The active runs of a worker, counted from the history alone, are the tasks it
\* is running and the runs it lost without a record of their end.  There are two
\* kinds of these: the task was deleted, or its expired lease was reclaimed.  Of a
\* reclaimed lease events.go says that a LeaseReleasedEvent is published
\* ("released or reclaimed"); a claim records task_claimed alone, and the run
\* it displaces is counted as active for good.
ActiveRunsAccountedFor ==
    \A w \in Worker :
        ActiveRuns(w) = Cardinality({t \in TaskId : /\ tasks[t].status = "running"
                                                    /\ tasks[t].run.worker = w})
                        + Cardinality({c \in claims : /\ c.worker = w
                                                      /\ Dropped(c) \/ Reclaimed(c)})

\* The records that tell the status of a task, and of a command.
TaskWords(t) ==
    {i \in 1..Len(events) : /\ events[i].task = t /\ events[i].command = 0
                            /\ events[i].kind \in DOMAIN StatusAfter}
CommandWords(k) ==
    {i \in 1..Len(events) : events[i].command = k /\ events[i].kind \in DOMAIN StatusAfter}

\* The last of the records in `words' leaves its task or command in status s.
LastWordIs(words, s) ==
    \/ words = {} /\ s = "absent"
    \/ \E i \in words : (\A j \in words : j <= i) /\ StatusAfter[events[i].kind] = s

\* The history alone tells where every task and every command stands, whoever
\* crashed when: a change of status and its record are one transaction.  The
\* exception is again the completed task without attempts left.
HistoryTellsStatus ==
    /\ \A t \in TaskId :
          \/ LastWordIs(TaskWords(t), tasks[t].status)
          \/ /\ tasks[t].status = "completed" /\ Exhausted(t)
             /\ LastWordIs(TaskWords(t), "failed")
    /\ \A k \in CommandId : LastWordIs(CommandWords(k), commands[k].status)

\* Whoever follows the bus knows where every task and every command stands
\* whenever the mutex is free: a method publishes all of what it did, in an order
\* that ends with what came last.  The exception is the same.
SubscribersFollow ==
    outbox = <<>> =>
        /\ \A t \in TaskId :
              \/ told.tasks[t] = tasks[t].status
              \/ told.tasks[t] = "failed" /\ tasks[t].status = "completed" /\ Exhausted(t)
        /\ \A k \in CommandId : told.commands[k] = commands[k].status

\* "TaskFailedEvent is published when a task reaches failed" (events.go): a
\* failure is recorded, and then published, of a task that failed.
FailureEventsAreFailures ==
    [][\A i \in Len(events) + 1..Len(events') :
          events'[i].kind = "task_failed" => tasks'[events'[i].task].status = "failed"]_sqliteVars
=============================================================================
