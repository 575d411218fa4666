----------------------------- MODULE TaskStore -----------------------------
(***************************************************************************)
(* The task and lease half of the orchestrator's store                     *)
(* (ext/orchestrator/memory/store.go and artifacts.go).  Every method runs *)
(* under one mutex, so every method is one action.                         *)
(*                                                                         *)
(* What callers know is part of the state: a successful claim hands its    *)
(* caller a ClaimedTask (task, lease token, run), and the caller presents  *)
(* that token later, at any time, any number of times.  `claims' is the    *)
(* set of all ClaimedTask values handed out, and the methods that take a   *)
(* token are offered every token ever issued, so late, duplicated and      *)
(* reordered calls are all behaviours of this module.  The methods take    *)
(* the time as an argument; `now' is any instant, so callers may disagree  *)
(* about the time in any way.                                              *)
(*                                                                         *)
(* Abstractions.  A Go map entry that is missing is a record with status   *)
(* "absent" (tasks) or token 0 (leases).  Ids are the counters they are    *)
(* printed from ("task-3" is 3), so taskOrder, to which each new id is     *)
(* appended, is the ascending order of the ids.  Blocks and BlockedBy are  *)
(* duplicate-free lists used as sets.  The two filters of a claim request, *)
(* ExcludeTaskIDs and Kinds, reject a task at the same place and are one   *)
(* set `skip'.  Subjects, inputs, metadata, errors and timestamps other    *)
(* than a lease's expiry decide nothing and are left out.                  *)
(***************************************************************************)
EXTENDS Integers, FiniteSets

CONSTANTS
    Worker,         \* worker ids
    NoWorker,       \* the empty worker id
    MaxTasks,       \* bound: tasks ever created
    MaxClaims,      \* bound: claims ever granted
    MaxTime,        \* bound: the latest instant a caller names
    TTLs,           \* lease durations callers ask for
    AttemptLimits   \* values of MaxAttempts; 0 is "no limit"

ASSUME StoreConstants ==
    /\ NoWorker \notin Worker
    /\ MaxTasks \in Nat
    /\ MaxClaims \in Nat
    /\ MaxTime \in Nat
    /\ TTLs \subseteq Nat \ {0}
    /\ AttemptLimits \subseteq Nat

TaskId == 1..MaxTasks
Time == 1..MaxTime

VARIABLES
    tasks,      \* [TaskId -> Task]
    leases,     \* [TaskId -> Lease]
    artifacts,  \* the artifacts kept, by task and run
    nextTask,   \* the last task id issued
    nextRun,    \* the last run id issued
    nextLease,  \* the last lease token issued
    claims      \* every ClaimedTask a caller has received

storeVars == <<tasks, leases, artifacts, nextTask, nextRun, nextLease, claims>>

Status == {"absent", "pending", "running", "completed", "failed", "canceled"}
RunRef == [id: Nat, worker: Worker \cup {NoWorker}, attempt: Nat]
Task == [status: Status, attempt: Nat, maxAttempts: Nat,
         blocks: SUBSET TaskId, blockedBy: SUBSET TaskId, run: RunRef]
Lease == [token: Nat, worker: Worker \cup {NoWorker}, expiresAt: Nat]
Artifact == [task: TaskId, run: Nat, origin: {"outcome", "caller"}]
Claim == [task: TaskId, token: Nat, run: Nat, attempt: Nat, worker: Worker,
          blockedBy: SUBSET TaskId]

NoRun == [id |-> 0, worker |-> NoWorker, attempt |-> 0]
NoTask == [status |-> "absent", attempt |-> 0, maxAttempts |-> 0,
           blocks |-> {}, blockedBy |-> {}, run |-> NoRun]
NoLease == [token |-> 0, worker |-> NoWorker, expiresAt |-> 0]

StoreInit ==
    /\ tasks = [t \in TaskId |-> NoTask]
    /\ leases = [t \in TaskId |-> NoLease]
    /\ artifacts = {}
    /\ nextTask = 0
    /\ nextRun = 0
    /\ nextLease = 0
    /\ claims = {}

-----------------------------------------------------------------------------
(* Conditions the methods test. *)

Exists(t) == tasks[t].status # "absent"
HasLease(t) == leases[t].token # 0
LeaseLive(t, now) == HasLease(t) /\ leases[t].expiresAt > now
LeaseExpired(t, now) == HasLease(t) /\ leases[t].expiresAt <= now

Blocked(t) ==
    \E b \in tasks[t].blockedBy : Exists(b) /\ tasks[b].status # "completed"

\* Variant: an off-by-one in the limit.
ExhaustedLate(t) ==
    tasks[t].maxAttempts > 0 /\ tasks[t].attempt > tasks[t].maxAttempts

Exhausted(t) ==
    tasks[t].maxAttempts > 0 /\ tasks[t].attempt >= tasks[t].maxAttempts

\* The checks of claimTaskLocked that reject a task and leave it alone.
PassedOver(t, skip, now) == t \in skip \/ Blocked(t) \/ LeaseLive(t, now)

\* claimTaskLocked rejects the task and marks it failed.
GivenUp(t, skip, now) ==
    /\ ~PassedOver(t, skip, now)
    /\ Exhausted(t)
    /\ tasks[t].status \notin {"absent", "completed", "failed"}

\* claimTaskLocked grants the task.
Claimable(t, skip, now) ==
    /\ ~PassedOver(t, skip, now)
    /\ ~Exhausted(t)
    /\ tasks[t].status \in {"pending", "running"}

\* validateLeaseLocked accepts a token for a task.
LeaseValid(t, token, now) ==
    /\ Exists(t)
    /\ leases[t].token = token
    /\ LeaseLive(t, now)

-----------------------------------------------------------------------------
(* Effects shared by several methods. *)

SetStatus(t, s) == [tasks EXCEPT ![t].status = s]
DropLease(t) == [leases EXCEPT ![t] = NoLease]

\* Variant: the requeue keeps the run.
RequeuedKeepingRun(task, rollback) ==
    [task EXCEPT !.status = "pending",
                 !.attempt = IF rollback /\ @ > 0 THEN @ - 1 ELSE @]

\* requeueTaskLocked: back to pending, the run forgotten, the attempt given
\* back when the lease was handed in rather than lost.
Requeued(task, rollback) ==
    [task EXCEPT !.status = "pending",
                 !.run = NoRun,
                 !.attempt = IF rollback /\ @ > 0 THEN @ - 1 ELSE @]

Requeue(t, rollback) ==
    /\ tasks' = [tasks EXCEPT ![t] = Requeued(@, rollback)]
    /\ leases' = DropLease(t)

\* The tasks in `given' exhausted their attempts: they fail and lose any lease.
TasksGivenUp(given) ==
    [x \in TaskId |-> IF x \in given THEN [tasks[x] EXCEPT !.status = "failed"]
                                     ELSE tasks[x]]
LeasesGivenUp(given) ==
    [x \in TaskId |-> IF x \in given THEN NoLease ELSE leases[x]]

\* Variant: the token is built from the attempt number.
GrantTokenByAttempt(t, w, ttl, now, given) ==
    LET run == [id |-> nextRun + 1, worker |-> w, attempt |-> tasks[t].attempt + 1]
    IN  /\ nextLease < MaxClaims
        /\ nextRun' = nextRun + 1
        /\ nextLease' = nextLease + 1
        /\ tasks' = [TasksGivenUp(given) EXCEPT
                        ![t] = [tasks[t] EXCEPT !.status = "running",
                                                !.attempt = @ + 1,
                                                !.run = run]]
        /\ leases' = [LeasesGivenUp(given) EXCEPT
                        ![t] = [token |-> tasks[t].attempt + 1, worker |-> w,
                                expiresAt |-> now + ttl]]
        /\ claims' = claims \cup
              {[task |-> t, token |-> tasks[t].attempt + 1, run |-> nextRun + 1,
                attempt |-> tasks[t].attempt + 1, worker |-> w,
                blockedBy |-> tasks[t].blockedBy]}
        /\ UNCHANGED <<artifacts, nextTask>>

\* The granting half of claimTaskLocked, for task t and worker w.
Grant(t, w, ttl, now, given) ==
    LET run == [id |-> nextRun + 1, worker |-> w, attempt |-> tasks[t].attempt + 1]
    IN  /\ nextLease < MaxClaims
        /\ nextRun' = nextRun + 1
        /\ nextLease' = nextLease + 1
        /\ tasks' = [TasksGivenUp(given) EXCEPT
                        ![t] = [tasks[t] EXCEPT !.status = "running",
                                                !.attempt = @ + 1,
                                                !.run = run]]
        /\ leases' = [LeasesGivenUp(given) EXCEPT
                        ![t] = [token |-> nextLease + 1, worker |-> w,
                                expiresAt |-> now + ttl]]
        /\ claims' = claims \cup
              {[task |-> t, token |-> nextLease + 1, run |-> nextRun + 1,
                attempt |-> tasks[t].attempt + 1, worker |-> w,
                blockedBy |-> tasks[t].blockedBy]}
        /\ UNCHANGED <<artifacts, nextTask>>

\* A claim that grants nothing may still have given tasks up.
GiveUp(given) ==
    /\ given # {}
    /\ tasks' = TasksGivenUp(given)
    /\ leases' = LeasesGivenUp(given)
    /\ UNCHANGED <<artifacts, nextTask, nextRun, nextLease, claims>>

-----------------------------------------------------------------------------
(* Creating, linking and deleting tasks. *)

\* linkTaskDependencies, for task t whose own lists became `blocks' and
\* `blockedBy': each peer gets the matching entry.
Linked(ts, t, blocks, blockedBy) ==
    [x \in TaskId |->
        IF ts[x].status = "absent" THEN ts[x]
        ELSE [ts[x] EXCEPT
                !.blocks = (IF x = t THEN blocks ELSE @)
                           \cup (IF x \in blockedBy THEN {t} ELSE {}),
                !.blockedBy = (IF x = t THEN blockedBy ELSE @)
                              \cup (IF x \in blocks THEN {t} ELSE {})]]

\* validateTaskDependencies
KnownTasks(S) == \A x \in S : Exists(x)

CreateTask(blocks, blockedBy, limit) ==
    LET t == nextTask + 1
    IN  /\ nextTask < MaxTasks
        /\ KnownTasks(blocks \cup blockedBy)
        /\ nextTask' = t
        /\ tasks' = Linked([tasks EXCEPT ![t] = [NoTask EXCEPT
                                !.status = "pending", !.maxAttempts = limit]],
                           t, blocks, blockedBy)
        /\ UNCHANGED <<leases, artifacts, nextRun, nextLease, claims>>

UpdateTask(t, addBlocks, addBlockedBy) ==
    /\ Exists(t)
    /\ KnownTasks(addBlocks \cup addBlockedBy)
    /\ tasks' = Linked(tasks, t, tasks[t].blocks \cup addBlocks,
                                 tasks[t].blockedBy \cup addBlockedBy)
    /\ UNCHANGED <<leases, artifacts, nextTask, nextRun, nextLease, claims>>

\* Variant: deletion forgets the back references of the peers.
DeleteTaskOneSided(t) ==
    /\ Exists(t)
    /\ tasks' = [x \in TaskId |->
                    IF x = t THEN NoTask ELSE [tasks[x] EXCEPT !.blocks = @ \ {t}]]
    /\ leases' = DropLease(t)
    /\ artifacts' = {a \in artifacts : a.task # t}
    /\ UNCHANGED <<nextTask, nextRun, nextLease, claims>>

\* Variant: deletion leaves the artifacts behind.
DeleteTaskOnly(t) ==
    /\ Exists(t)
    /\ tasks' = [x \in TaskId |->
                    IF x = t THEN NoTask
                    ELSE [tasks[x] EXCEPT !.blocks = @ \ {t},
                                          !.blockedBy = @ \ {t}]]
    /\ leases' = DropLease(t)
    /\ UNCHANGED <<artifacts, nextTask, nextRun, nextLease, claims>>

DeleteTask(t) ==
    /\ Exists(t)
    /\ tasks' = [x \in TaskId |->
                    IF x = t THEN NoTask
                    ELSE [tasks[x] EXCEPT !.blocks = @ \ {t},
                                          !.blockedBy = @ \ {t}]]
    /\ leases' = DropLease(t)
    /\ artifacts' = {a \in artifacts : a.task # t}
    /\ UNCHANGED <<nextTask, nextRun, nextLease, claims>>

-----------------------------------------------------------------------------
(* Claiming. *)

ClaimTask(t, w, ttl, now, skip) ==
    \/ Claimable(t, skip, now) /\ Grant(t, w, ttl, now, {})
    \/ GivenUp(t, skip, now) /\ GiveUp({t})

\* The first task in creation order that can be granted; the exhausted tasks
\* the loop meets before it are given up on the way.
ClaimReadyTask(w, ttl, now, skip) ==
    LET ready == {t \in TaskId : Claimable(t, skip, now)}
        spent == {t \in TaskId : GivenUp(t, skip, now)}
    IN  \/ \E t \in ready :
              /\ \A u \in ready : t <= u
              /\ Grant(t, w, ttl, now, {u \in spent : u < t})
        \/ /\ ready = {}
           /\ GiveUp(spent)

-----------------------------------------------------------------------------
(* Ending a run. *)

CompleteTask(t, token, emits, now) ==
    /\ LeaseValid(t, token, now)
    /\ tasks' = SetStatus(t, "completed")
    /\ leases' = DropLease(t)
    /\ artifacts' = IF emits
                    THEN artifacts \cup {[task |-> t, run |-> tasks[t].run.id,
                                          origin |-> "outcome"]}
                    ELSE artifacts
    /\ UNCHANGED <<nextTask, nextRun, nextLease, claims>>

FailTask(t, token, retryable, now) ==
    /\ LeaseValid(t, token, now)
    /\ IF retryable /\ ~Exhausted(t)
       THEN Requeue(t, FALSE)
       ELSE /\ tasks' = SetStatus(t, "failed")
            /\ leases' = DropLease(t)
    /\ UNCHANGED <<artifacts, nextTask, nextRun, nextLease, claims>>

\* A pending task is canceled without a token, a running one with the token of
\* its live lease.
CancelTask(t, token, now) ==
    /\ \/ tasks[t].status = "pending" /\ token = 0
       \/ /\ tasks[t].status = "running"
          /\ LeaseLive(t, now)
          /\ leases[t].token = token
    /\ tasks' = SetStatus(t, "canceled")
    /\ leases' = DropLease(t)
    /\ UNCHANGED <<artifacts, nextTask, nextRun, nextLease, claims>>

\* Variant: any finished task may be retried.
RetryFinishedTask(t) ==
    /\ tasks[t].status \in {"failed", "canceled", "completed"}
    /\ tasks' = [tasks EXCEPT ![t].status = "pending",
                              ![t].run = NoRun,
                              ![t].attempt = 0]
    /\ leases' = DropLease(t)
    /\ UNCHANGED <<artifacts, nextTask, nextRun, nextLease, claims>>

RetryTask(t) ==
    /\ tasks[t].status \in {"failed", "canceled"}
    /\ tasks' = [tasks EXCEPT ![t].status = "pending",
                              ![t].run = NoRun,
                              ![t].attempt = 0]
    /\ leases' = DropLease(t)
    /\ UNCHANGED <<artifacts, nextTask, nextRun, nextLease, claims>>

-----------------------------------------------------------------------------
(* Leases. *)

RenewLease(t, token, ttl, now) ==
    /\ leases[t].token = token
    /\ LeaseLive(t, now)
    /\ leases' = [leases EXCEPT ![t].expiresAt = now + ttl]
    /\ UNCHANGED <<tasks, artifacts, nextTask, nextRun, nextLease, claims>>

\* Handing a lease in asks for the token, not for the lease to be unexpired.
ReleaseLease(t, token) ==
    /\ HasLease(t)
    /\ leases[t].token = token
    /\ IF tasks[t].status = "running"
       THEN Requeue(t, TRUE)
       ELSE leases' = DropLease(t) /\ UNCHANGED tasks
    /\ UNCHANGED <<artifacts, nextTask, nextRun, nextLease, claims>>

\* recoverExpiredLeaseLocked, for every task of S whose lease has expired.
RecoverLeases(S, now) ==
    LET lost == {t \in S : LeaseExpired(t, now)}
        Recovered(t) ==
            CASE tasks[t].status # "running" -> tasks[t]
              [] Exhausted(t) -> [tasks[t] EXCEPT !.status = "failed"]
              [] OTHER -> Requeued(tasks[t], FALSE)
    IN  /\ tasks' = [t \in TaskId |-> IF t \in lost THEN Recovered(t) ELSE tasks[t]]
        /\ leases' = [t \in TaskId |-> IF t \in lost THEN NoLease ELSE leases[t]]
        /\ UNCHANGED <<artifacts, nextTask, nextRun, nextLease, claims>>

RecoverExpiredLeases(now) == RecoverLeases(TaskId, now)
RecoverExpiredLease(t, now) == RecoverLeases({t}, now)

-----------------------------------------------------------------------------

\* CreateArtifact on behalf of a caller.  The run the caller names is not
\* checked and not used; it is left out.
CreateArtifact(t) ==
    /\ Exists(t)
    /\ artifacts' = artifacts \cup {[task |-> t, run |-> 0, origin |-> "caller"]}
    /\ UNCHANGED <<tasks, leases, nextTask, nextRun, nextLease, claims>>

StoreNext ==
    \/ \E B, D \in SUBSET TaskId, limit \in AttemptLimits : CreateTask(B, D, limit)
    \/ \E t \in TaskId, B, D \in SUBSET TaskId : UpdateTask(t, B, D)
    \/ \E t \in TaskId : DeleteTask(t)
    \/ \E w \in Worker, ttl \in TTLs, now \in Time, skip \in SUBSET TaskId :
          \/ ClaimReadyTask(w, ttl, now, skip)
          \/ \E t \in TaskId : ClaimTask(t, w, ttl, now, skip)
    \/ \E c \in claims, now \in Time :
          \/ \E emits \in BOOLEAN : CompleteTask(c.task, c.token, emits, now)
          \/ \E retryable \in BOOLEAN : FailTask(c.task, c.token, retryable, now)
          \/ \E ttl \in TTLs : RenewLease(c.task, c.token, ttl, now)
          \/ CancelTask(c.task, c.token, now)
    \/ \E c \in claims : ReleaseLease(c.task, c.token)
    \/ \E t \in TaskId, now \in Time : CancelTask(t, 0, now)
    \/ \E t \in TaskId : RetryTask(t)
    \/ \E now \in Time : RecoverExpiredLeases(now)
    \/ \E t \in TaskId, now \in Time : RecoverExpiredLease(t, now)
    \/ \E t \in TaskId : CreateArtifact(t)

StoreSpec == StoreInit /\ [][StoreNext]_storeVars

-----------------------------------------------------------------------------
(* Properties. *)

\* Every field has its type; every task id, run id and lease token in the
\* store or in a caller's hands was issued by the store's counters; and
\* nothing is left of a task that is not there.
TypeOK ==
    /\ tasks \in [TaskId -> Task]
    /\ leases \in [TaskId -> Lease]
    /\ artifacts \subseteq Artifact
    /\ nextTask \in 0..MaxTasks
    /\ nextRun \in Nat
    /\ nextLease \in Nat
    /\ claims \subseteq Claim
    /\ \A t \in TaskId :
          /\ tasks[t].run.id <= nextRun
          /\ leases[t].token <= nextLease
          /\ ~Exists(t) => tasks[t] = NoTask
          /\ t > nextTask => ~Exists(t)
    /\ \A c \in claims :
          /\ c.token \in 1..nextLease
          /\ c.run \in 1..nextRun
          /\ {c.task} \cup c.blockedBy \subseteq 1..nextTask

\* A task is running exactly while it has a lease, and the lease and the run
\* name the same worker: no method may leave a running task nobody can end or
\* recover, nor a lease behind a task that has stopped.
RunningIffLeased ==
    \A t \in TaskId :
        /\ HasLease(t) <=> tasks[t].status = "running"
        /\ leases[t].worker = (IF HasLease(t) THEN tasks[t].run.worker ELSE NoWorker)

\* A caller whose token the store still accepts holds the very run the claim
\* gave them: a token never fences a later run of the task, however the calls
\* of old and new claimants interleave.
LeaseFencesRun ==
    \A c \in claims :
        leases[c.task].token = c.token =>
            /\ tasks[c.task].status = "running"
            /\ tasks[c.task].run = [id |-> c.run, worker |-> c.worker, attempt |-> c.attempt]

\* MaxAttempts bounds the attempts, through requeues, releases that give an
\* attempt back, expiries and retries; and a pending task always has an
\* attempt left, so requeueing never parks a task that can only be given up.
AttemptsInBudget ==
    \A t \in TaskId :
        /\ tasks[t].status = "running" =>
              tasks[t].attempt >= 1 /\ tasks[t].run.attempt = tasks[t].attempt
        /\ tasks[t].maxAttempts > 0 =>
              /\ tasks[t].attempt <= tasks[t].maxAttempts
              /\ tasks[t].status = "pending" => tasks[t].attempt < tasks[t].maxAttempts

\* Blocks and BlockedBy mirror each other and name only tasks that exist,
\* whatever is created, linked or deleted.
DependenciesMirrored ==
    \A t, u \in TaskId :
        /\ u \in tasks[t].blocks <=> t \in tasks[u].blockedBy
        /\ u \in tasks[t].blocks => Exists(t) /\ Exists(u)

\* What a run was started on stays true: each blocker its task had when it was
\* claimed is completed for as long as it exists, even after the run is over.
BlockersStayCompleted ==
    \A c \in claims : \A b \in c.blockedBy :
        Exists(b) => tasks[b].status = "completed"

\* The artifacts of an outcome exist only with the completion that produced
\* them: the task is completed, by the run the artifact names.
OutcomesFromCompletingRun ==
    \A a \in artifacts :
        a.origin = "outcome" =>
            tasks[a.task].status = "completed" /\ tasks[a.task].run.id = a.run

\* Nothing but deletion ends a completion, and the completing run stays the
\* task's run: no late failure, cancel, retry, expiry or claim touches it.
CompletedIsFinal ==
    [][\A t \in TaskId :
          tasks[t].status = "completed" =>
              \/ tasks'[t].status = "absent"
              \/ tasks'[t].status = "completed" /\ tasks'[t].run = tasks[t].run]_storeVars

\* A caller who lost the lease never gets it back under the old token.
LostLeaseStaysLost ==
    [][\A c \in claims :
          leases[c.task].token # c.token => leases'[c.task].token # c.token]_storeVars

-----------------------------------------------------------------------------
(* The store implements the lifecycle contract. *)

life ==
    [t \in TaskId |-> CASE Exists(t) -> tasks[t].status
                       [] ~Exists(t) /\ t <= nextTask -> "gone"
                       [] OTHER -> "unborn"]

Lifecycle == INSTANCE TaskLifecycle WITH
    Task <- TaskId,
    Run <- 1..MaxClaims,
    NoOwner <- 0,
    owner <- [t \in TaskId |-> tasks[t].run.id],
    started <- {c.run : c \in claims}

\* With leases, tokens and clocks hidden, every step of the store is a step of
\* the contract: runs start once, one run owns a task at a time, only the
\* owner completes it, and completed and deleted tasks never move again.
ImplementsLifecycle == Lifecycle!Spec
=============================================================================
