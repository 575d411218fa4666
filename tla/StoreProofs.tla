---------------------------- MODULE StoreProofs ----------------------------
(***************************************************************************)
(* The safety properties of TaskStore and CommandStore, and that TaskStore *)
(* implements TaskLifecycle, for any number of workers, tasks, commands,   *)
(* claims and instants.                                                    *)
(***************************************************************************)
EXTENDS CommandStore, TLAPS

\* The inductive invariant: the seven invariants are inductive together.
StoreInv ==
    /\ TypeOK
    /\ RunningIffLeased
    /\ LeaseFencesRun
    /\ AttemptsInBudget
    /\ DependenciesMirrored
    /\ BlockersStayCompleted
    /\ OutcomesFromCompletingRun

\* The lists of a task name only tasks that exist.
LinksExist ==
    \A t \in TaskId : \A u \in tasks[t].blocks \cup tasks[t].blockedBy : Exists(u)

\* The part of it that asks of the lists of a task only that they name tasks
\* that exist.  It is inductive by itself, and all that the methods rely on.
CoreInv ==
    /\ TypeOK
    /\ RunningIffLeased
    /\ LeaseFencesRun
    /\ AttemptsInBudget
    /\ LinksExist
    /\ BlockersStayCompleted
    /\ OutcomesFromCompletingRun

\* Lists that mirror each other name only tasks that exist.
LEMMA CoreOfStore == StoreInv => CoreInv
  <1> SUFFICES ASSUME StoreInv PROVE CoreInv
    OBVIOUS
  <1>1. \A t \in TaskId : tasks[t].blocks \cup tasks[t].blockedBy \subseteq TaskId
    BY Zenon DEF StoreInv, TypeOK, Task
  <1>2. LinksExist
    BY <1>1, Zenon DEF StoreInv, DependenciesMirrored, LinksExist
  <1> QED
    BY <1>2, Zenon DEF StoreInv, CoreInv

\* A new store satisfies the invariant.
LEMMA InitInv == StoreInit => StoreInv
  <1> SUFFICES ASSUME StoreInit PROVE StoreInv
    OBVIOUS
  <1> USE StoreConstants DEF StoreInit, NoTask, NoLease, NoRun
  <1>1. TypeOK
    BY DEF TypeOK, Task, RunRef, Lease, Status, Artifact, Claim, Exists, TaskId
  <1>2. RunningIffLeased
    BY Zenon DEF RunningIffLeased, HasLease
  <1>3. LeaseFencesRun /\ BlockersStayCompleted /\ OutcomesFromCompletingRun
    BY Zenon DEF LeaseFencesRun, BlockersStayCompleted, OutcomesFromCompletingRun
  <1>4. AttemptsInBudget /\ DependenciesMirrored
    BY DEF AttemptsInBudget, DependenciesMirrored
  <1> QED
    BY <1>1, <1>2, <1>3, <1>4, Zenon DEF StoreInv

-----------------------------------------------------------------------------
(* The methods that end runs: complete, fail, cancel, retry, release,      *)
(* recover and give up all do the same thing to the tasks they touch.      *)

\* The step leaves task t and its lease alone.
Stays(t) == tasks'[t] = tasks[t] /\ leases'[t] = leases[t]

\* The step takes task t, which is not over, to a state without a lease; the
\* attempt does not grow, and a task put back in the queue has one left.
Stops(t) ==
    /\ tasks[t].status \notin {"absent", "completed"}
    /\ leases'[t] = NoLease
    /\ \E s \in {"pending", "completed", "failed", "canceled"},
          n \in 0..tasks[t].attempt, r \in {tasks[t].run, NoRun} :
          /\ tasks'[t] = [tasks[t] EXCEPT !.status = s, !.attempt = n, !.run = r]
          /\ s = "pending" /\ tasks[t].maxAttempts > 0 => n < tasks[t].maxAttempts
          /\ s = "completed" => r = tasks[t].run

\* A new artifact of a stopping step is the outcome of a task it completes.
OutcomeOf(a) ==
    /\ a \in Artifact
    /\ a.origin = "outcome" =>
          tasks'[a.task].status = "completed" /\ tasks'[a.task].run.id = a.run

StopStep ==
    /\ tasks' = [t \in TaskId |-> tasks'[t]]
    /\ leases' = [t \in TaskId |-> leases'[t]]
    /\ \A t \in TaskId : Stays(t) \/ Stops(t)
    /\ \A a \in artifacts' : a \in artifacts \/ OutcomeOf(a)
    /\ UNCHANGED <<nextTask, nextRun, nextLease, claims>>

\* What a stopping step leaves in a task it touches.
LEMMA StopsFields ==
  ASSUME NEW t \in TaskId, TypeOK, Stops(t)
  PROVE  /\ tasks'[t] \in Task
         /\ tasks'[t].status \in {"pending", "completed", "failed", "canceled"}
         /\ tasks'[t].attempt <= tasks[t].attempt
         /\ tasks'[t].maxAttempts = tasks[t].maxAttempts
         /\ tasks'[t].blocks = tasks[t].blocks
         /\ tasks'[t].blockedBy = tasks[t].blockedBy
         /\ tasks'[t].run \in {tasks[t].run, NoRun}
         /\ tasks'[t].status = "pending" /\ tasks[t].maxAttempts > 0
               => tasks'[t].attempt < tasks[t].maxAttempts
         /\ tasks[t].status \notin {"absent", "completed"}
         /\ leases'[t] = NoLease
  <1>1. tasks[t] \in Task /\ NoRun \in RunRef
    BY Zenon DEF TypeOK, NoRun, RunRef
  <1>2. PICK s \in {"pending", "completed", "failed", "canceled"},
             n \in 0..tasks[t].attempt, r \in {tasks[t].run, NoRun} :
             /\ tasks'[t] = [tasks[t] EXCEPT !.status = s, !.attempt = n, !.run = r]
             /\ s = "pending" /\ tasks[t].maxAttempts > 0 => n < tasks[t].maxAttempts
    BY Zenon DEF Stops
  <1>3. n \in Nat /\ n <= tasks[t].attempt /\ r \in RunRef /\ s \in Status
    BY <1>1 DEF Task, Status
  <1> QED
    BY <1>1, <1>2, <1>3, Zenon DEF Stops, Task

\* A stopping step preserves the invariant.
LEMMA StopStepInv ==
  ASSUME CoreInv, StopStep
  PROVE  CoreInv' /\ (DependenciesMirrored => DependenciesMirrored')
  <1> USE DEF CoreInv, StopStep
  <1>1. \A t \in TaskId : Stays(t) \/ Stops(t)
    OBVIOUS
  <1>2. \A t \in TaskId : tasks[t] \in Task /\ leases[t] \in Lease
    BY Zenon DEF TypeOK
  <1>3. TypeOK'
    <2>1. NoLease \in Lease /\ NoRun.id = 0 /\ NoLease.token = 0
      BY Zenon DEF NoLease, Lease, NoRun
    <2>2. \A t \in TaskId : tasks'[t] \in Task /\ leases'[t] \in Lease
      BY <1>1, <1>2, <2>1, StopsFields, Zenon DEF Stays
    <2>3. \A t \in TaskId :
             /\ tasks'[t].run.id <= nextRun
             /\ leases'[t].token <= nextLease
             /\ tasks'[t].status = "absent" => tasks'[t] = NoTask
             /\ t > nextTask => tasks'[t].status = "absent"
      BY <1>1, <2>1, StopsFields DEF Stays, TypeOK, Exists
    <2>4. artifacts' \subseteq Artifact
      BY Zenon DEF TypeOK, OutcomeOf
    <2> QED
      BY <2>2, <2>3, <2>4, Zenon DEF TypeOK, Exists
  <1>4. RunningIffLeased'
    BY <1>1, StopsFields DEF RunningIffLeased, HasLease, Stays, NoLease
  <1>5. LeaseFencesRun'
    <2> SUFFICES ASSUME NEW c \in claims, leases'[c.task].token = c.token
                 PROVE  /\ tasks'[c.task].status = "running"
                        /\ tasks'[c.task].run = [id |-> c.run, worker |-> c.worker,
                                                 attempt |-> c.attempt]
      BY Zenon DEF LeaseFencesRun
    <2>1. c.task \in TaskId /\ c.token # 0
      BY DEF TypeOK, Claim
    <2> QED
      BY <1>1, <2>1, StopsFields DEF LeaseFencesRun, Stays, NoLease
  <1>6. AttemptsInBudget'
    <2> SUFFICES ASSUME NEW t \in TaskId
                 PROVE  /\ tasks'[t].status = "running" =>
                             tasks'[t].attempt >= 1 /\ tasks'[t].run.attempt = tasks'[t].attempt
                        /\ tasks'[t].maxAttempts > 0 =>
                             /\ tasks'[t].attempt <= tasks'[t].maxAttempts
                             /\ tasks'[t].status = "pending" =>
                                    tasks'[t].attempt < tasks'[t].maxAttempts
      BY Zenon DEF AttemptsInBudget
    <2>1. CASE Stays(t)
      BY <2>1, Zenon DEF Stays, AttemptsInBudget
    <2>2. CASE Stops(t)
      BY <1>2, <2>2, StopsFields DEF AttemptsInBudget, Task
    <2> QED
      BY <1>1, <2>1, <2>2, Zenon
  <1>7. LinksExist' /\ (DependenciesMirrored => DependenciesMirrored')
    <2>1. \A t \in TaskId :
             /\ tasks'[t].blocks = tasks[t].blocks
             /\ tasks'[t].blockedBy = tasks[t].blockedBy
             /\ tasks[t].status # "absent" => tasks'[t].status # "absent"
      BY <1>1, StopsFields, Zenon DEF Stays
    <2> QED
      BY <1>2, <2>1, Zenon DEF LinksExist, DependenciesMirrored, Exists, Task
  <1>8. BlockersStayCompleted'
    <2> SUFFICES ASSUME NEW c \in claims, NEW b \in c.blockedBy,
                        tasks'[b].status # "absent"
                 PROVE  tasks'[b].status = "completed"
      BY Zenon DEF BlockersStayCompleted, Exists
    <2>1. b \in TaskId
      BY Zenon DEF TypeOK, Claim
    <2>2. tasks[b].status \in {"absent", "completed"}
      BY Zenon DEF BlockersStayCompleted, Exists
    <2> QED
      BY <1>1, <2>1, <2>2, Zenon DEF Stays, Stops
  <1>9. OutcomesFromCompletingRun'
    <2> SUFFICES ASSUME NEW a \in artifacts', a.origin = "outcome"
                 PROVE  tasks'[a.task].status = "completed" /\ tasks'[a.task].run.id = a.run
      BY Zenon DEF OutcomesFromCompletingRun
    <2>1. CASE OutcomeOf(a)
      BY <2>1, Zenon DEF OutcomeOf
    <2>2. CASE a \in artifacts
      <3>1. a.task \in TaskId
        BY <2>2, Zenon DEF TypeOK, Artifact
      <3>2. tasks[a.task].status = "completed" /\ tasks[a.task].run.id = a.run
        BY <2>2, Zenon DEF OutcomesFromCompletingRun
      <3> QED
        BY <1>1, <3>1, <3>2, Zenon DEF Stays, Stops
    <2> QED
      BY <2>1, <2>2, Zenon
  <1> QED
    BY <1>3, <1>4, <1>5, <1>6, <1>7, <1>8, <1>9, Zenon

\* A task whose lease a token opens is running.
LEMMA ValidMeansRunning ==
  ASSUME NEW t \in TaskId, RunningIffLeased, HasLease(t)
  PROVE  tasks[t].status = "running"
  BY Zenon DEF RunningIffLeased

\* Requeueing a running task that has an attempt to spare stops it.
LEMMA RequeueStops ==
  ASSUME NEW t \in TaskId, NEW rollback \in BOOLEAN, CoreInv,
         tasks[t].status = "running", rollback \/ ~Exhausted(t),
         tasks'[t] = Requeued(tasks[t], rollback), leases'[t] = NoLease
  PROVE  Stops(t)
  <1> DEFINE n == IF rollback /\ tasks[t].attempt > 0
                  THEN tasks[t].attempt - 1 ELSE tasks[t].attempt
  <1>1. /\ tasks[t].attempt \in Nat
        /\ tasks[t].maxAttempts \in Nat
        /\ tasks[t].attempt >= 1
        /\ tasks[t].maxAttempts > 0 => tasks[t].attempt <= tasks[t].maxAttempts
    BY Zenon DEF CoreInv, TypeOK, Task, AttemptsInBudget
  <1>2. n \in 0..tasks[t].attempt
    BY <1>1
  <1>3. tasks[t].maxAttempts > 0 => n < tasks[t].maxAttempts
    BY <1>1 DEF Exhausted
  <1>4. tasks'[t] = [tasks[t] EXCEPT !.status = "pending", !.attempt = n, !.run = NoRun]
    BY Zenon DEF CoreInv, TypeOK, Task, Requeued
  <1> QED
    BY <1>2, <1>3, <1>4, Zenon DEF Stops

\* Moving a task that is not over to a final status stops it.
LEMMA StatusStops ==
  ASSUME NEW t \in TaskId, NEW s \in {"completed", "failed", "canceled"}, TypeOK,
         tasks[t].status \notin {"absent", "completed"},
         tasks'[t] = [tasks[t] EXCEPT !.status = s], leases'[t] = NoLease
  PROVE  Stops(t)
  <1>1. tasks[t].attempt \in 0..tasks[t].attempt
    BY DEF TypeOK, Task
  <1>2. tasks'[t] = [tasks[t] EXCEPT !.status = s, !.attempt = tasks[t].attempt,
                                     !.run = tasks[t].run]
    BY Zenon DEF TypeOK, Task
  <1> QED
    BY <1>1, <1>2, Zenon DEF Stops

\* CompleteTask is a stopping step.
LEMMA CompleteTaskStops ==
  ASSUME NEW t \in TaskId, NEW token, NEW emits \in BOOLEAN, NEW now \in Time,
         CoreInv, CompleteTask(t, token, emits, now)
  PROVE  StopStep
  <1> USE DEF CoreInv, CompleteTask
  <1>1. tasks[t].status = "running" /\ tasks[t] \in Task
    BY ValidMeansRunning, Zenon DEF LeaseValid, LeaseLive, TypeOK
  <1>2. /\ tasks' = [tasks EXCEPT ![t] = [tasks[t] EXCEPT !.status = "completed"]]
        /\ leases' = [leases EXCEPT ![t] = NoLease]
        /\ tasks \in [TaskId -> Task] /\ leases \in [TaskId -> Lease]
    BY Zenon DEF SetStatus, DropLease, TypeOK
  <1>3. Stops(t)
    BY <1>1, <1>2, StatusStops, Zenon
  <1>4. \A u \in TaskId \ {t} : Stays(u)
    BY <1>2, Zenon DEF Stays
  <1>5. \A a \in artifacts' : a \in artifacts \/ OutcomeOf(a)
    <2>1. tasks'[t].status = "completed" /\ tasks'[t].run = tasks[t].run /\ tasks[t].run.id \in Nat
      BY <1>1, <1>2 DEF Task, RunRef
    <2> QED
      BY <2>1 DEF OutcomeOf, Artifact
  <1> QED
    BY <1>2, <1>3, <1>4, <1>5, Zenon DEF StopStep

\* FailTask is a stopping step, whether it requeues or fails the task.
LEMMA FailTaskStops ==
  ASSUME NEW t \in TaskId, NEW token, NEW retryable \in BOOLEAN, NEW now \in Time,
         CoreInv, FailTask(t, token, retryable, now)
  PROVE  StopStep
  <1> USE DEF CoreInv, FailTask
  <1>1. tasks[t].status = "running"
    BY ValidMeansRunning, Zenon DEF LeaseValid, LeaseLive
  <1>2. /\ tasks \in [TaskId -> Task] /\ leases \in [TaskId -> Lease]
        /\ leases' = [leases EXCEPT ![t] = NoLease]
    BY Zenon DEF TypeOK, Requeue, DropLease
  <1>3. CASE retryable /\ ~Exhausted(t)
    <2>1. tasks' = [tasks EXCEPT ![t] = Requeued(tasks[t], FALSE)]
      BY <1>3, Zenon DEF Requeue
    <2>2. Stops(t)
      BY <1>1, <1>2, <1>3, <2>1, RequeueStops, Zenon
    <2> QED
      BY <1>2, <2>1, <2>2, Zenon DEF StopStep, Stays
  <1>4. CASE ~(retryable /\ ~Exhausted(t))
    <2>1. tasks' = [tasks EXCEPT ![t] = [tasks[t] EXCEPT !.status = "failed"]]
      BY <1>2, <1>4, Zenon DEF SetStatus
    <2>2. Stops(t)
      BY <1>1, <1>2, <2>1, StatusStops, Zenon
    <2> QED
      BY <1>2, <2>1, <2>2, Zenon DEF StopStep, Stays
  <1> QED
    BY <1>3, <1>4, Zenon

\* CancelTask is a stopping step.
LEMMA CancelTaskStops ==
  ASSUME NEW t \in TaskId, NEW token, NEW now \in Time,
         CoreInv, CancelTask(t, token, now)
  PROVE  StopStep
  <1> USE DEF CoreInv, CancelTask
  <1>1. /\ tasks \in [TaskId -> Task] /\ leases \in [TaskId -> Lease]
        /\ leases' = [leases EXCEPT ![t] = NoLease]
        /\ tasks' = [tasks EXCEPT ![t] = [tasks[t] EXCEPT !.status = "canceled"]]
    BY Zenon DEF TypeOK, DropLease, SetStatus
  <1>2. Stops(t)
    BY <1>1, StatusStops, Zenon
  <1> QED
    BY <1>1, <1>2, Zenon DEF StopStep, Stays

\* RetryTask is a stopping step.
LEMMA RetryTaskStops ==
  ASSUME NEW t \in TaskId, CoreInv, RetryTask(t)
  PROVE  StopStep
  <1> USE DEF CoreInv, RetryTask
  <1>1. /\ tasks \in [TaskId -> Task] /\ leases \in [TaskId -> Lease]
        /\ leases' = [leases EXCEPT ![t] = NoLease]
        /\ tasks' = [tasks EXCEPT ![t] = [tasks[t] EXCEPT !.status = "pending",
                                            !.attempt = 0, !.run = NoRun]]
    BY Zenon DEF TypeOK, DropLease, Task
  <1>2. Stops(t)
    <2>1. 0 \in 0..tasks[t].attempt /\ leases'[t] = NoLease
      BY <1>1 DEF Task
    <2>2. tasks'[t] = [tasks[t] EXCEPT !.status = "pending", !.attempt = 0, !.run = NoRun]
      BY <1>1, Zenon
    <2> QED
      BY <2>1, <2>2, Zenon DEF Stops
  <1> QED
    BY <1>1, <1>2, Zenon DEF StopStep, Stays

\* ReleaseLease is a stopping step.
LEMMA ReleaseLeaseStops ==
  ASSUME NEW t \in TaskId, NEW token, CoreInv, ReleaseLease(t, token)
  PROVE  StopStep
  <1> USE DEF CoreInv, ReleaseLease
  <1>1. tasks[t].status = "running"
    BY ValidMeansRunning, Zenon
  <1>2. /\ tasks \in [TaskId -> Task] /\ leases \in [TaskId -> Lease]
        /\ leases' = [leases EXCEPT ![t] = NoLease]
        /\ tasks' = [tasks EXCEPT ![t] = Requeued(tasks[t], TRUE)]
    BY <1>1, Zenon DEF TypeOK, Requeue, DropLease
  <1>3. Stops(t)
    BY <1>1, <1>2, RequeueStops, Zenon
  <1> QED
    BY <1>2, <1>3, Zenon DEF StopStep, Stays

\* Recovering expired leases is a stopping step.
LEMMA RecoverLeasesStops ==
  ASSUME NEW S \in SUBSET TaskId, NEW now \in Time, CoreInv, RecoverLeases(S, now)
  PROVE  StopStep
  <1> DEFINE lost == {t \in S : LeaseExpired(t, now)}
  <1> USE DEF CoreInv
  <1>1. /\ tasks' = [t \in TaskId |-> tasks'[t]]
        /\ leases' = [t \in TaskId |-> leases'[t]]
        /\ UNCHANGED <<artifacts, nextTask, nextRun, nextLease, claims>>
    BY DEF RecoverLeases
  <1>2. \A t \in TaskId \ lost : Stays(t)
    BY Zenon DEF RecoverLeases, Stays
  <1>3. ASSUME NEW t \in lost PROVE Stops(t)
    <2>1. tasks[t].status = "running"
      BY ValidMeansRunning, Zenon DEF LeaseExpired
    <2>2. leases'[t] = NoLease
      BY Zenon DEF RecoverLeases
    <2>3. CASE Exhausted(t)
      <3>1. tasks'[t] = [tasks[t] EXCEPT !.status = "failed"]
        BY <2>1, <2>3, Zenon DEF RecoverLeases
      <3> QED
        BY <2>1, <2>2, <3>1, StatusStops, Zenon
    <2>4. CASE ~Exhausted(t)
      <3>1. tasks'[t] = Requeued(tasks[t], FALSE)
        BY <2>1, <2>4, Zenon DEF RecoverLeases
      <3> QED
        BY <2>1, <2>2, <2>4, <3>1, RequeueStops, Zenon
    <2> QED
      BY <2>3, <2>4, Zenon
  <1> QED
    BY <1>1, <1>2, <1>3, Zenon DEF StopStep

\* Giving tasks up is a stopping step.
LEMMA GiveUpStops ==
  ASSUME NEW given \in SUBSET TaskId, CoreInv, GiveUp(given),
         \A t \in given : tasks[t].status \notin {"absent", "completed"}
  PROVE  StopStep
  <1> USE DEF CoreInv, GiveUp, TasksGivenUp, LeasesGivenUp
  <1>1. \A t \in TaskId \ given : Stays(t)
    BY Zenon DEF Stays
  <1>2. ASSUME NEW t \in given PROVE Stops(t)
    <2>1. tasks'[t] = [tasks[t] EXCEPT !.status = "failed"] /\ leases'[t] = NoLease
      OBVIOUS
    <2> QED
      BY <2>1, StatusStops, Zenon
  <1> QED
    BY <1>1, <1>2, Zenon DEF StopStep

-----------------------------------------------------------------------------
(* Granting a claim. *)

\* Granting a task that is neither blocked nor exhausted, while giving others
\* up, preserves the invariant.
LEMMA GrantInv ==
  ASSUME NEW t \in TaskId, NEW w \in Worker, NEW ttl \in TTLs, NEW now \in Time,
         NEW given \in SUBSET TaskId, CoreInv, Grant(t, w, ttl, now, given),
         tasks[t].status \in {"pending", "running"}, ~Exhausted(t), ~Blocked(t),
         t \notin given,
         \A u \in given : tasks[u].status \notin {"absent", "completed"}
  PROVE  CoreInv' /\ (DependenciesMirrored => DependenciesMirrored')
  <1> DEFINE run == [id |-> nextRun + 1, worker |-> w, attempt |-> tasks[t].attempt + 1]
             lease == [token |-> nextLease + 1, worker |-> w, expiresAt |-> now + ttl]
             claim == [task |-> t, token |-> nextLease + 1, run |-> nextRun + 1,
                       attempt |-> tasks[t].attempt + 1, worker |-> w,
                       blockedBy |-> tasks[t].blockedBy]
  <1> USE DEF CoreInv
  <1>1. /\ tasks \in [TaskId -> Task] /\ leases \in [TaskId -> Lease]
        /\ nextRun \in Nat /\ nextLease \in Nat /\ now + ttl \in Nat
    BY StoreConstants DEF TypeOK, Time
  <1>2. /\ nextRun' = nextRun + 1 /\ nextLease' = nextLease + 1
        /\ claims' = claims \cup {claim}
        /\ UNCHANGED <<artifacts, nextTask>>
    BY Zenon DEF Grant
  <1>3. /\ tasks' = [u \in TaskId |-> tasks'[u]]
        /\ leases' = [u \in TaskId |-> leases'[u]]
    BY Zenon DEF Grant, TasksGivenUp, LeasesGivenUp
  <1>4. /\ tasks'[t] = [tasks[t] EXCEPT !.status = "running",
                                         !.attempt = tasks[t].attempt + 1, !.run = run]
        /\ leases'[t] = lease
    <2>1. TasksGivenUp(given)[t] = tasks[t]
      BY Zenon DEF TasksGivenUp
    <2>2. tasks' = [TasksGivenUp(given) EXCEPT
                      ![t] = [tasks[t] EXCEPT !.status = "running",
                                 !.attempt = tasks[t].attempt + 1, !.run = run]]
      BY <2>1, Zenon DEF Grant
    <2>3. t \in DOMAIN TasksGivenUp(given) /\ t \in DOMAIN LeasesGivenUp(given)
      BY Zenon DEF TasksGivenUp, LeasesGivenUp
    <2> QED
      BY <2>2, <2>3, Zenon DEF Grant
  <1>5. \A u \in given : /\ tasks'[u] = [tasks[u] EXCEPT !.status = "failed"]
                         /\ leases'[u] = NoLease
    BY Zenon DEF Grant, TasksGivenUp, LeasesGivenUp
  <1>6. \A u \in TaskId \ (given \cup {t}) : Stays(u)
    BY Zenon DEF Grant, TasksGivenUp, LeasesGivenUp, Stays
  <1>7. \A u \in given : Stops(u)
    BY <1>5, StatusStops, Zenon
  <1>8. /\ run \in RunRef /\ lease \in Lease /\ claim \in Claim
        /\ tasks'[t].status = "running" /\ tasks'[t].run = run
        /\ tasks'[t].attempt = tasks[t].attempt + 1
        /\ tasks'[t].maxAttempts = tasks[t].maxAttempts
        /\ tasks'[t].blocks = tasks[t].blocks
        /\ tasks'[t].blockedBy = tasks[t].blockedBy
        /\ tasks'[t] \in Task
    <2>1. tasks[t] \in Task /\ tasks[t].attempt + 1 \in Nat /\ tasks[t].blockedBy \in SUBSET TaskId
      BY <1>1 DEF Task
    <2>2. run \in RunRef
      BY <1>1, <2>1 DEF RunRef
    <2>3. lease \in Lease /\ claim \in Claim
      BY <1>1, <2>1 DEF Lease, Claim
    <2> HIDE DEF run
    <2> QED
      BY <1>4, <2>1, <2>2, <2>3, Zenon DEF Task, Status
  <1>9. \A u \in TaskId \ {t} : Stays(u) \/ Stops(u)
    BY <1>6, <1>7, Zenon
  <1>10. TypeOK'
    <2>1. \A u \in TaskId : tasks'[u] \in Task /\ leases'[u] \in Lease
      <3>1. NoLease \in Lease
        BY Zenon DEF NoLease, Lease
      <3> QED
        BY <1>1, <1>4, <1>8, <1>9, <3>1, StopsFields DEF Stays
    <2>2. \A u \in TaskId :
             /\ tasks'[u].run.id <= nextRun + 1
             /\ leases'[u].token <= nextLease + 1
             /\ tasks'[u].status = "absent" => tasks'[u] = NoTask
             /\ u > nextTask => tasks'[u].status = "absent"
      <3>1. /\ tasks'[t].run.id = nextRun + 1 /\ leases'[t].token = nextLease + 1
            /\ tasks[t].status # "absent" /\ tasks'[t].status # "absent"
        BY <1>4, <1>8
      <3>2. ~(t > nextTask)
        BY <3>1, Zenon DEF TypeOK, Exists
      <3>3. ASSUME NEW u \in TaskId \ {t}
            PROVE  /\ tasks'[u].run.id <= nextRun
                   /\ leases'[u].token <= nextLease
                   /\ tasks'[u].status = "absent" => tasks'[u] = NoTask
                   /\ u > nextTask => tasks'[u].status = "absent"
        BY <1>1, <1>9, StopsFields DEF Stays, TypeOK, Exists, NoRun, NoLease
      <3>4. \A u \in TaskId : tasks'[u].run.id \in Nat /\ leases'[u].token \in Nat
        BY <2>1, Zenon DEF Task, RunRef, Lease
      <3> QED
        BY <1>1, <3>1, <3>2, <3>3, <3>4
    <2>3. \A c \in claims' :
             /\ c \in Claim
             /\ c.token \in 1..(nextLease + 1)
             /\ c.run \in 1..(nextRun + 1)
             /\ {c.task} \cup c.blockedBy \subseteq 1..nextTask
      <3>1. \A u \in TaskId : Exists(u) => u \in 1..nextTask
        BY DEF TypeOK, TaskId
      <3>2. {t} \cup tasks[t].blockedBy \subseteq 1..nextTask
        BY <1>1, <3>1, Zenon DEF LinksExist, Exists, Task
      <3> QED
        BY <1>1, <1>2, <1>8, <3>2 DEF TypeOK
    <2> QED
      BY <1>1, <1>2, <1>3, <2>1, <2>2, <2>3 DEF TypeOK, Exists
  <1>11. RunningIffLeased'
    <2>1. \A u \in TaskId \ {t} :
             /\ leases'[u].token # 0 <=> tasks'[u].status = "running"
             /\ leases'[u].worker = IF leases'[u].token # 0 THEN tasks'[u].run.worker
                                                            ELSE NoWorker
      BY <1>9, StopsFields DEF RunningIffLeased, HasLease, Stays, NoLease
    <2>2. leases'[t].token # 0 /\ leases'[t].worker = w /\ tasks'[t].run.worker = w
      BY <1>1, <1>4, <1>8
    <2> QED
      BY <1>8, <2>1, <2>2, Zenon DEF RunningIffLeased, HasLease
  <1>12. LeaseFencesRun'
    <2> SUFFICES ASSUME NEW c \in claims', leases'[c.task].token = c.token
                 PROVE  /\ tasks'[c.task].status = "running"
                        /\ tasks'[c.task].run = [id |-> c.run, worker |-> c.worker,
                                                 attempt |-> c.attempt]
      BY Zenon DEF LeaseFencesRun
    <2>1. CASE c = claim
      BY <1>8, <2>1, Zenon
    <2>2. CASE c \in claims
      <3>1. c.task \in TaskId /\ c.token \in 1..nextLease
        BY <2>2, Zenon DEF TypeOK, Claim
      <3>2. c.task # t
        BY <1>1, <1>4, <3>1
      <3> QED
        BY <1>9, <2>2, <3>1, <3>2, StopsFields DEF LeaseFencesRun, Stays, NoLease
    <2> QED
      BY <1>2, <2>1, <2>2, Zenon
  <1>13. AttemptsInBudget'
    <2> SUFFICES ASSUME NEW u \in TaskId
                 PROVE  /\ tasks'[u].status = "running" =>
                             tasks'[u].attempt >= 1 /\ tasks'[u].run.attempt = tasks'[u].attempt
                        /\ tasks'[u].maxAttempts > 0 =>
                             /\ tasks'[u].attempt <= tasks'[u].maxAttempts
                             /\ tasks'[u].status = "pending" =>
                                    tasks'[u].attempt < tasks'[u].maxAttempts
      BY Zenon DEF AttemptsInBudget
    <2>1. tasks[u] \in Task
      BY <1>1, Zenon
    <2>2. CASE u = t
      BY <1>8, <2>1, <2>2 DEF Exhausted, Task
    <2>3. CASE Stays(u)
      BY <2>3, Zenon DEF Stays, AttemptsInBudget
    <2>4. CASE Stops(u)
      BY <2>1, <2>4, StopsFields DEF AttemptsInBudget, Task
    <2> QED
      BY <1>9, <2>2, <2>3, <2>4, Zenon
  <1>14. LinksExist' /\ (DependenciesMirrored => DependenciesMirrored')
    <2>1. \A u \in TaskId :
             /\ tasks'[u].blocks = tasks[u].blocks
             /\ tasks'[u].blockedBy = tasks[u].blockedBy
             /\ tasks[u].status # "absent" => tasks'[u].status # "absent"
      BY <1>8, <1>9, StopsFields, Zenon DEF Stays
    <2> QED
      BY <1>1, <2>1, Zenon DEF LinksExist, DependenciesMirrored, Exists, Task
  <1>15. BlockersStayCompleted'
    <2> SUFFICES ASSUME NEW c \in claims', NEW b \in c.blockedBy,
                        tasks'[b].status # "absent"
                 PROVE  tasks'[b].status = "completed"
      BY Zenon DEF BlockersStayCompleted, Exists
    <2>1. b \in TaskId /\ tasks[b].status \in {"absent", "completed"}
      <3>1. CASE c \in claims
        BY <3>1, Zenon DEF TypeOK, Claim, BlockersStayCompleted, Exists
      <3>2. CASE c = claim
        BY <1>1, <3>2, Zenon DEF Blocked, Exists, Task
      <3> QED
        BY <1>2, <3>1, <3>2, Zenon
    <2> QED
      BY <1>9, <2>1, Zenon DEF Stays, Stops
  <1>16. OutcomesFromCompletingRun'
    <2> SUFFICES ASSUME NEW a \in artifacts, a.origin = "outcome"
                 PROVE  tasks'[a.task].status = "completed" /\ tasks'[a.task].run.id = a.run
      BY <1>2, Zenon DEF OutcomesFromCompletingRun
    <2>1. /\ a.task \in TaskId
          /\ tasks[a.task].status = "completed" /\ tasks[a.task].run.id = a.run
      BY Zenon DEF TypeOK, Artifact, OutcomesFromCompletingRun
    <2> QED
      BY <1>9, <2>1, Zenon DEF Stays, Stops
  <1> QED
    BY <1>10, <1>11, <1>12, <1>13, <1>14, <1>15, <1>16, Zenon

-----------------------------------------------------------------------------
(* Creating, linking and deleting tasks. *)

\* DependenciesMirrored, of any table of tasks.
Mirrored(ts) ==
    \A t, u \in TaskId :
        /\ u \in ts[t].blocks <=> t \in ts[u].blockedBy
        /\ u \in ts[t].blocks => ts[t].status # "absent" /\ ts[u].status # "absent"

\* L is table ts after linkTaskDependencies for task t with lists B and D.
LinkOf(L, ts, t, B, D) ==
    /\ L = [x \in TaskId |-> L[x]]
    /\ \A x \in TaskId :
         /\ L[x] \in Task
         /\ L[x].status = ts[x].status
         /\ L[x].attempt = ts[x].attempt
         /\ L[x].maxAttempts = ts[x].maxAttempts
         /\ L[x].run = ts[x].run
         /\ ts[x].status = "absent" => L[x] = ts[x]
         /\ ts[x].status # "absent" =>
              /\ L[x].blocks =
                   (IF x = t THEN B ELSE ts[x].blocks) \cup (IF x \in D THEN {t} ELSE {})
              /\ L[x].blockedBy =
                   (IF x = t THEN D ELSE ts[x].blockedBy) \cup (IF x \in B THEN {t} ELSE {})

\* linkTaskDependencies touches nothing but the two lists.
LEMMA LinkedFields ==
  ASSUME NEW ts \in [TaskId -> Task], NEW t \in TaskId,
         NEW B \in SUBSET TaskId, NEW D \in SUBSET TaskId
  PROVE  LinkOf(Linked(ts, t, B, D), ts, t, B, D)
  <1> DEFINE L == Linked(ts, t, B, D)
             bl(x) == (IF x = t THEN B ELSE ts[x].blocks) \cup (IF x \in D THEN {t} ELSE {})
             bb(x) == (IF x = t THEN D ELSE ts[x].blockedBy) \cup (IF x \in B THEN {t} ELSE {})
  <1>1. L = [x \in TaskId |-> L[x]]
    BY Zenon DEF Linked
  <1>2. ASSUME NEW x \in TaskId
        PROVE  /\ L[x] \in Task
               /\ L[x].status = ts[x].status
               /\ L[x].attempt = ts[x].attempt
               /\ L[x].maxAttempts = ts[x].maxAttempts
               /\ L[x].run = ts[x].run
               /\ ts[x].status = "absent" => L[x] = ts[x]
               /\ ts[x].status # "absent" => L[x].blocks = bl(x) /\ L[x].blockedBy = bb(x)
    <2>1. ts[x] \in Task
      OBVIOUS
    <2>2. L[x] = IF ts[x].status = "absent" THEN ts[x]
                 ELSE [ts[x] EXCEPT !.blocks = bl(x), !.blockedBy = bb(x)]
      BY Zenon DEF Linked
    <2>3. bl(x) \in SUBSET TaskId /\ bb(x) \in SUBSET TaskId
      BY <2>1, Zenon DEF Task
    <2> HIDE DEF bl, bb, L
    <2> QED
      BY <2>1, <2>2, <2>3, Zenon DEF Task
  <1> HIDE DEF L
  <1>3. LinkOf(L, ts, t, B, D)
    BY <1>1, <1>2, Zenon DEF LinkOf
  <1> QED
    BY <1>3, Zenon DEF L

\* Linking turns a table whose lists mirror each other into another one.
LEMMA LinkedMirrors ==
  ASSUME NEW ts \in [TaskId -> Task], NEW t \in TaskId, Mirrored(ts),
         NEW B \in SUBSET TaskId, NEW D \in SUBSET TaskId,
         ts[t].status # "absent", ts[t].blocks \subseteq B, ts[t].blockedBy \subseteq D,
         \A x \in B \cup D : ts[x].status # "absent"
  PROVE  Mirrored(Linked(ts, t, B, D))
  <1> DEFINE L == Linked(ts, t, B, D)
  <1> SUFFICES ASSUME NEW u \in TaskId, NEW v \in TaskId
               PROVE  /\ v \in L[u].blocks <=> u \in L[v].blockedBy
                      /\ v \in L[u].blocks => L[u].status # "absent" /\ L[v].status # "absent"
    BY Zenon DEF Mirrored
  <1>1. /\ L[u].status = ts[u].status /\ L[v].status = ts[v].status
        /\ ts[u].status = "absent" => L[u] = ts[u]
        /\ ts[v].status = "absent" => L[v] = ts[v]
        /\ ts[u].status # "absent" => L[u].blocks =
              (IF u = t THEN B ELSE ts[u].blocks) \cup (IF u \in D THEN {t} ELSE {})
        /\ ts[v].status # "absent" => L[v].blockedBy =
              (IF v = t THEN D ELSE ts[v].blockedBy) \cup (IF v \in B THEN {t} ELSE {})
    <2>1. LinkOf(L, ts, t, B, D)
      BY LinkedFields, Zenon
    <2> HIDE DEF L
    <2> QED
      BY <2>1, Zenon DEF LinkOf
  <1> HIDE DEF L
  <1>2. /\ v \in ts[u].blocks <=> u \in ts[v].blockedBy
        /\ v \in ts[u].blocks => ts[u].status # "absent" /\ ts[v].status # "absent"
    BY Zenon DEF Mirrored
  <1>3. CASE ts[u].status # "absent" /\ ts[v].status # "absent"
    BY <1>1, <1>2, <1>3, Zenon
  <1>4. CASE ts[v].status = "absent"
    <2>1. v \notin B \cup D /\ v # t /\ v \notin ts[u].blocks /\ u \notin ts[v].blockedBy
      BY <1>2, <1>4, Zenon
    <2>2. v \notin L[u].blocks
      BY <1>1, <2>1, Zenon
    <2> QED
      BY <1>1, <1>4, <2>1, <2>2, Zenon
  <1>5. CASE ts[u].status = "absent"
    <2>1. u \notin B \cup D /\ u # t /\ v \notin ts[u].blocks /\ u \notin ts[v].blockedBy
      BY <1>2, <1>5, Zenon
    <2>2. u \notin L[v].blockedBy
      BY <1>1, <2>1, Zenon
    <2> QED
      BY <1>1, <1>5, <2>1, <2>2, Zenon
  <1> QED
    BY <1>3, <1>4, <1>5, Zenon

\* Linking tasks that exist leaves lists that name tasks that exist.
LEMMA LinkedExist ==
  ASSUME NEW ts \in [TaskId -> Task], NEW t \in TaskId,
         NEW B \in SUBSET TaskId, NEW D \in SUBSET TaskId,
         ts[t].status # "absent", \A x \in B \cup D : ts[x].status # "absent",
         \A x \in TaskId : \A u \in ts[x].blocks \cup ts[x].blockedBy : ts[u].status # "absent"
  PROVE  \A x \in TaskId :
            \A u \in Linked(ts, t, B, D)[x].blocks \cup Linked(ts, t, B, D)[x].blockedBy :
                Linked(ts, t, B, D)[u].status # "absent"
  <1> DEFINE L == Linked(ts, t, B, D)
  <1>1. LinkOf(L, ts, t, B, D)
    BY LinkedFields, Zenon
  <1> HIDE DEF L
  <1>2. ASSUME NEW x \in TaskId, NEW u \in L[x].blocks \cup L[x].blockedBy
        PROVE  L[u].status # "absent"
    <2>1. u \in TaskId /\ L[u].status = ts[u].status
      BY <1>1, Zenon DEF LinkOf, Task
    <2>2. u \in ts[x].blocks \cup ts[x].blockedBy \cup B \cup D \cup {t}
      <3>1. CASE ts[x].status = "absent"
        BY <1>1, <3>1, Zenon DEF LinkOf
      <3>2. CASE ts[x].status # "absent"
        <4>1. /\ L[x].blocks \subseteq ts[x].blocks \cup B \cup {t}
              /\ L[x].blockedBy \subseteq ts[x].blockedBy \cup D \cup {t}
          BY <1>1, <3>2 DEF LinkOf
        <4> QED
          BY <4>1, Zenon
      <3> QED
        BY <3>1, <3>2, Zenon
    <2> QED
      BY <2>1, <2>2, Zenon
  <1> QED
    BY <1>2, Zenon DEF L

\* Creating a task preserves the invariant.
LEMMA CreateTaskInv ==
  ASSUME NEW B \in SUBSET TaskId, NEW D \in SUBSET TaskId, NEW limit \in AttemptLimits,
         CoreInv, CreateTask(B, D, limit)
  PROVE  CoreInv' /\ (DependenciesMirrored => DependenciesMirrored')
  <1> DEFINE n == nextTask + 1
             new == [NoTask EXCEPT !.status = "pending", !.maxAttempts = limit]
             ts == [tasks EXCEPT ![n] = new]
  <1> USE DEF CoreInv
  <1>1. /\ n \in TaskId /\ limit \in Nat /\ nextTask \in Nat /\ n \in 0..MaxTasks
        /\ tasks \in [TaskId -> Task]
        /\ n > nextTask
    BY StoreConstants DEF TaskId, CreateTask, TypeOK
  <1>2. tasks[n] = NoTask /\ ~HasLease(n) /\ tasks[n].status = "absent"
    BY <1>1, Zenon DEF TypeOK, Exists, RunningIffLeased
  <1>3. /\ new \in Task /\ new.status = "pending" /\ new.attempt = 0
        /\ new.maxAttempts = limit /\ new.run = NoRun
        /\ new.blocks = {} /\ new.blockedBy = {}
    BY <1>1, Zenon DEF NoTask, Task, Status, NoRun, RunRef
  <1>4. /\ tasks' = Linked(ts, n, B, D) /\ nextTask' = n
        /\ UNCHANGED <<leases, artifacts, nextRun, nextLease, claims>>
        /\ \A x \in B \cup D : tasks[x].status # "absent"
    BY Zenon DEF CreateTask, KnownTasks, Exists
  <1> HIDE DEF new
  <1>5. ts \in [TaskId -> Task] /\ ts[n] = new /\ \A x \in TaskId \ {n} : ts[x] = tasks[x]
    BY <1>1, <1>3, Zenon
  <1> HIDE DEF ts, n
  <1>6. /\ \A x \in TaskId :
             /\ tasks'[x] \in Task
             /\ tasks'[x].status = ts[x].status /\ tasks'[x].attempt = ts[x].attempt
             /\ tasks'[x].maxAttempts = ts[x].maxAttempts /\ tasks'[x].run = ts[x].run
             /\ ts[x].status = "absent" => tasks'[x] = ts[x]
        /\ tasks' = [x \in TaskId |-> tasks'[x]]
    <2>1. LinkOf(tasks', ts, n, B, D)
      BY <1>1, <1>4, <1>5, LinkedFields, Zenon
    <2> QED
      BY <2>1, Zenon DEF LinkOf
  <1>a. \A x \in B \cup D : ts[x].status # "absent"
    BY <1>2, <1>4, <1>5, Zenon
  <1>7. ASSUME DependenciesMirrored PROVE DependenciesMirrored'
    <2>1. Mirrored(ts)
      BY <1>2, <1>3, <1>5, <1>7 DEF DependenciesMirrored, Mirrored, NoTask, Exists
    <2>3. Mirrored(tasks')
      BY <1>1, <1>3, <1>4, <1>5, <1>a, <2>1, LinkedMirrors, Zenon
    <2> QED
      BY <2>3, Zenon DEF DependenciesMirrored, Mirrored, Exists
  <1>b. LinksExist'
    <2>1. \A x \in TaskId : \A u \in ts[x].blocks \cup ts[x].blockedBy : ts[u].status # "absent"
      BY <1>1, <1>2, <1>3, <1>5 DEF LinksExist, Exists, Task
    <2>2. ts[n].status # "absent"
      BY <1>3, <1>5, Zenon
    <2>3. \A x \in TaskId :
             \A u \in Linked(ts, n, B, D)[x].blocks \cup Linked(ts, n, B, D)[x].blockedBy :
                 Linked(ts, n, B, D)[u].status # "absent"
      BY <1>1, <1>5, <1>a, <2>1, <2>2, LinkedExist, Zenon
    <2> QED
      BY <1>4, <2>3, Zenon DEF LinksExist, Exists
  <1>8. TypeOK'
    <2>1. \A x \in TaskId : /\ tasks'[x].run.id <= nextRun
                            /\ tasks'[x].status = "absent" => tasks'[x] = NoTask
                            /\ x > n => tasks'[x].status = "absent"
      BY <1>1, <1>3, <1>5, <1>6 DEF TypeOK, Exists, NoRun, n, TaskId
    <2>2. 1..nextTask \subseteq 1..n
      BY <1>1 DEF n
    <2>3. \A c \in claims : /\ c.token \in 1..nextLease
                            /\ c.run \in 1..nextRun
                            /\ {c.task} \cup c.blockedBy \subseteq 1..n
      BY <2>2, Zenon DEF TypeOK
    <2> QED
      BY <1>1, <1>4, <1>6, <2>1, <2>3, Zenon DEF TypeOK, Exists
  <1>9. RunningIffLeased'
    BY <1>1, <1>2, <1>3, <1>4, <1>5, <1>6 DEF RunningIffLeased, HasLease
  <1>10. \A c \in claims : c.task \in TaskId \ {n} /\ c.blockedBy \subseteq TaskId \ {n}
    <2>1. \A c \in claims : {c.task} \cup c.blockedBy \subseteq 1..nextTask
      BY Zenon DEF TypeOK
    <2>2. \A i \in 1..nextTask : i \in TaskId /\ i # n
      <3>1. n = nextTask + 1 /\ MaxTasks \in Nat
        BY StoreConstants, Zenon DEF n
      <3> HIDE DEF CoreInv
      <3> QED
        BY <1>1, <3>1 DEF TaskId
    <2> QED
      BY <2>1, <2>2, Zenon
  <1>11. LeaseFencesRun' /\ BlockersStayCompleted'
    BY <1>4, <1>5, <1>6, <1>10 DEF LeaseFencesRun, BlockersStayCompleted, Exists
  <1>12. AttemptsInBudget'
    BY <1>1, <1>3, <1>5, <1>6 DEF AttemptsInBudget
  <1>13. OutcomesFromCompletingRun'
    <2>1. \A a \in artifacts : a.task \in TaskId
      BY Zenon DEF TypeOK, Artifact
    <2> QED
      BY <1>2, <1>4, <1>5, <1>6, <2>1 DEF OutcomesFromCompletingRun
  <1> QED
    BY <1>7, <1>b, <1>8, <1>9, <1>11, <1>12, <1>13, Zenon

\* Linking an existing task preserves the invariant.
LEMMA UpdateTaskInv ==
  ASSUME NEW t \in TaskId, NEW B \in SUBSET TaskId, NEW D \in SUBSET TaskId,
         CoreInv, UpdateTask(t, B, D)
  PROVE  CoreInv' /\ (DependenciesMirrored => DependenciesMirrored')
  <1> DEFINE bl == tasks[t].blocks \cup B
             bb == tasks[t].blockedBy \cup D
  <1> USE DEF CoreInv
  <1>1. /\ tasks \in [TaskId -> Task] /\ tasks[t].status # "absent"
        /\ tasks' = Linked(tasks, t, bl, bb)
        /\ UNCHANGED <<leases, artifacts, nextTask, nextRun, nextLease, claims>>
        /\ bl \in SUBSET TaskId /\ bb \in SUBSET TaskId
    BY Zenon DEF TypeOK, UpdateTask, Task, Exists
  <1>2. \A x \in bl \cup bb : tasks[x].status # "absent"
    BY <1>1, Zenon DEF UpdateTask, KnownTasks, LinksExist, Exists
  <1>3. tasks[t].blocks \subseteq bl /\ tasks[t].blockedBy \subseteq bb
    OBVIOUS
  <1> HIDE DEF bl, bb
  <1>4. LinkOf(tasks', tasks, t, bl, bb)
    BY <1>1, LinkedFields, Zenon
  <1>5. /\ tasks' = [x \in TaskId |-> tasks'[x]]
        /\ \A x \in TaskId :
             /\ tasks'[x] \in Task
             /\ tasks'[x].status = tasks[x].status /\ tasks'[x].attempt = tasks[x].attempt
             /\ tasks'[x].maxAttempts = tasks[x].maxAttempts /\ tasks'[x].run = tasks[x].run
             /\ tasks[x].status = "absent" => tasks'[x] = tasks[x]
    BY <1>4, Zenon DEF LinkOf
  <1>a. LinksExist'
    <2>1. \A x \in TaskId :
             \A u \in Linked(tasks, t, bl, bb)[x].blocks \cup Linked(tasks, t, bl, bb)[x].blockedBy :
                 Linked(tasks, t, bl, bb)[u].status # "absent"
      BY <1>1, <1>2, LinkedExist, Zenon DEF LinksExist, Exists
    <2> QED
      BY <1>1, <2>1, Zenon DEF LinksExist, Exists
  <1>6. ASSUME DependenciesMirrored PROVE DependenciesMirrored'
    <2>1. Mirrored(tasks)
      BY <1>6, Zenon DEF DependenciesMirrored, Mirrored, Exists
    <2>2. Mirrored(tasks')
      BY <1>1, <1>2, <1>3, <2>1, LinkedMirrors, Zenon
    <2> QED
      BY <2>2, Zenon DEF DependenciesMirrored, Mirrored, Exists
  <1>7. TypeOK'
    BY <1>1, <1>5 DEF TypeOK, Exists
  <1>8. RunningIffLeased' /\ AttemptsInBudget'
    BY <1>1, <1>5 DEF RunningIffLeased, HasLease, AttemptsInBudget
  <1>9. LeaseFencesRun' /\ BlockersStayCompleted'
    <2>1. \A c \in claims : c.task \in TaskId /\ c.blockedBy \subseteq TaskId
      BY Zenon DEF TypeOK, Claim
    <2> QED
      BY <1>1, <1>5, <2>1 DEF LeaseFencesRun, BlockersStayCompleted, Exists
  <1>10. OutcomesFromCompletingRun'
    <2>1. \A a \in artifacts : a.task \in TaskId
      BY Zenon DEF TypeOK, Artifact
    <2> QED
      BY <1>1, <1>5, <2>1 DEF OutcomesFromCompletingRun
  <1> QED
    BY <1>a, <1>6, <1>7, <1>8, <1>9, <1>10, Zenon

\* Deleting a task, its lease, its artifacts and its links preserves the
\* invariant.
LEMMA DeleteTaskInv ==
  ASSUME NEW t \in TaskId, CoreInv, DeleteTask(t)
  PROVE  CoreInv' /\ (DependenciesMirrored => DependenciesMirrored')
  <1> USE DEF CoreInv
  <1>1. /\ tasks \in [TaskId -> Task] /\ leases \in [TaskId -> Lease]
        /\ leases' = [leases EXCEPT ![t] = NoLease]
        /\ artifacts' = {a \in artifacts : a.task # t}
        /\ UNCHANGED <<nextTask, nextRun, nextLease, claims>>
        /\ tasks' = [x \in TaskId |-> tasks'[x]]
        /\ tasks'[t] = NoTask /\ leases'[t] = NoLease
    BY Zenon DEF TypeOK, DeleteTask, DropLease
  <1>2. NoTask \in Task /\ NoLease \in Lease
    BY Zenon DEF NoTask, Task, Status, NoRun, RunRef, NoLease, Lease
  <1>3. ASSUME NEW x \in TaskId \ {t}
        PROVE  /\ tasks'[x] \in Task
               /\ tasks'[x].status = tasks[x].status /\ tasks'[x].attempt = tasks[x].attempt
               /\ tasks'[x].maxAttempts = tasks[x].maxAttempts /\ tasks'[x].run = tasks[x].run
               /\ tasks'[x].blocks = tasks[x].blocks \ {t}
               /\ tasks'[x].blockedBy = tasks[x].blockedBy \ {t}
               /\ leases'[x] = leases[x]
    <2>1. /\ tasks'[x] = [tasks[x] EXCEPT !.blocks = tasks[x].blocks \ {t},
                                           !.blockedBy = tasks[x].blockedBy \ {t}]
          /\ tasks[x] \in Task
      BY <1>1, Zenon DEF DeleteTask
    <2> QED
      BY <1>1, <2>1, Zenon DEF Task
  <1>4. /\ NoTask.status = "absent" /\ NoTask.blocks = {} /\ NoTask.blockedBy = {}
        /\ NoTask.run.id = 0 /\ NoTask.maxAttempts = 0
        /\ NoLease.token = 0 /\ NoLease.worker = NoWorker
    BY Zenon DEF NoTask, NoLease, NoRun
  <1>6. TypeOK'
    <2>1. \A x \in TaskId :
             /\ tasks'[x] \in Task /\ leases'[x] \in Lease
             /\ tasks'[x].run.id <= nextRun /\ leases'[x].token <= nextLease
      BY <1>1, <1>2, <1>3, <1>4 DEF TypeOK
    <2>2. ASSUME NEW x \in TaskId, tasks'[x].status = "absent"
          PROVE  tasks'[x] = NoTask
      <3>1. CASE x = t
        BY <1>1, <3>1, Zenon
      <3>2. CASE x # t
        <4>1. tasks[x] = NoTask
          BY <1>3, <2>2, <3>2, Zenon DEF TypeOK, Exists
        <4>2. tasks[x].blocks \ {t} = {} /\ tasks[x].blockedBy \ {t} = {}
          BY <1>4, <4>1, Zenon
        <4>3. tasks'[x] = [tasks[x] EXCEPT !.blocks = {}, !.blockedBy = {}]
          BY <3>2, <4>2, Zenon DEF DeleteTask
        <4>4. [NoTask EXCEPT !.blocks = {}, !.blockedBy = {}] = NoTask
          BY <1>2, <1>4, Zenon DEF Task
        <4> QED
          BY <4>1, <4>3, <4>4, Zenon
      <3> QED
        BY <3>1, <3>2, Zenon
    <2>3. \A x \in TaskId : x > nextTask => tasks'[x].status = "absent"
      BY <1>1, <1>3, <1>4, Zenon DEF TypeOK, Exists
    <2> QED
      BY <1>1, <2>1, <2>2, <2>3, Zenon DEF TypeOK, Exists
  <1>7. RunningIffLeased' /\ AttemptsInBudget'
    BY <1>1, <1>3, <1>4 DEF RunningIffLeased, HasLease, AttemptsInBudget
  <1>8. LinksExist' /\ (DependenciesMirrored => DependenciesMirrored')
    <2>1. LinksExist'
      <3>1. ASSUME NEW x \in TaskId, NEW u \in tasks'[x].blocks \cup tasks'[x].blockedBy
            PROVE  tasks'[u].status # "absent"
        <4>1. x # t
          BY <1>1, <1>4, <3>1, Zenon
        <4>2. u \in tasks[x].blocks \cup tasks[x].blockedBy /\ u # t
          <5>1. /\ tasks'[x].blocks = tasks[x].blocks \ {t}
                /\ tasks'[x].blockedBy = tasks[x].blockedBy \ {t}
            BY <1>3, <4>1, Zenon
          <5> QED
            BY <3>1, <5>1, Zenon
        <4>3. u \in TaskId
          BY <1>1, <4>2, Zenon DEF Task
        <4> QED
          BY <1>3, <4>2, <4>3, Zenon DEF LinksExist, Exists
      <3> QED
        BY <3>1, Zenon DEF LinksExist, Exists
    <2>2. ASSUME DependenciesMirrored PROVE DependenciesMirrored'
      BY <1>1, <1>3, <1>4, <2>2 DEF DependenciesMirrored, Exists
    <2> QED
      BY <2>1, <2>2, Zenon
  <1>9. LeaseFencesRun' /\ BlockersStayCompleted'
    <2>1. \A c \in claims : c.task \in TaskId /\ c.blockedBy \subseteq TaskId /\ c.token # 0
      BY DEF TypeOK, Claim
    <2>2. LeaseFencesRun'
      BY <1>1, <1>3, <1>4, <2>1 DEF LeaseFencesRun
    <2>3. BlockersStayCompleted'
      BY <1>1, <1>3, <1>4, <2>1 DEF BlockersStayCompleted, Exists
    <2> QED
      BY <2>2, <2>3, Zenon
  <1>10. OutcomesFromCompletingRun'
    <2>1. \A a \in artifacts : a.task \in TaskId
      BY Zenon DEF TypeOK, Artifact
    <2> QED
      BY <1>1, <1>3, <2>1 DEF OutcomesFromCompletingRun
  <1> QED
    BY <1>6, <1>7, <1>8, <1>9, <1>10, Zenon

-----------------------------------------------------------------------------
(* Renewing a lease and adding an artifact. *)

\* RenewLease preserves the invariant.
LEMMA RenewLeaseInv ==
  ASSUME NEW t \in TaskId, NEW token, NEW ttl \in TTLs, NEW now \in Time,
         CoreInv, RenewLease(t, token, ttl, now)
  PROVE  CoreInv' /\ (DependenciesMirrored => DependenciesMirrored')
  <1> USE DEF CoreInv
  <1>1. /\ leases \in [TaskId -> Lease] /\ now + ttl \in Nat
        /\ leases' = [leases EXCEPT ![t] = [leases[t] EXCEPT !.expiresAt = now + ttl]]
        /\ UNCHANGED <<tasks, artifacts, nextTask, nextRun, nextLease, claims>>
    BY StoreConstants DEF TypeOK, RenewLease, Time
  <1>2. /\ leases' \in [TaskId -> Lease]
        /\ \A x \in TaskId : leases'[x].token = leases[x].token
                             /\ leases'[x].worker = leases[x].worker
    BY <1>1, Zenon DEF Lease
  <1>3. TypeOK'
    BY <1>1, <1>2, Zenon DEF TypeOK, Exists
  <1>4. RunningIffLeased'
    BY <1>1, <1>2, Zenon DEF RunningIffLeased, HasLease
  <1>5. LeaseFencesRun'
    <2>1. \A c \in claims : c.task \in TaskId
      BY Zenon DEF TypeOK, Claim
    <2> QED
      BY <1>1, <1>2, <2>1 DEF LeaseFencesRun
  <1>6. /\ AttemptsInBudget' /\ LinksExist' /\ (DependenciesMirrored => DependenciesMirrored')
        /\ BlockersStayCompleted' /\ OutcomesFromCompletingRun'
    BY <1>1, Zenon DEF AttemptsInBudget, LinksExist, DependenciesMirrored, BlockersStayCompleted,
                OutcomesFromCompletingRun, Exists
  <1> QED
    BY <1>3, <1>4, <1>5, <1>6, Zenon

\* CreateArtifact preserves the invariant.
LEMMA CreateArtifactInv ==
  ASSUME NEW t \in TaskId, CoreInv, CreateArtifact(t)
  PROVE  CoreInv' /\ (DependenciesMirrored => DependenciesMirrored')
  <1> USE DEF CoreInv, CreateArtifact
  <1>1. TypeOK'
    BY DEF TypeOK, Artifact, Exists
  <1>2. OutcomesFromCompletingRun'
    BY DEF OutcomesFromCompletingRun
  <1>3. RunningIffLeased' /\ LeaseFencesRun' /\ AttemptsInBudget' /\ BlockersStayCompleted'
    BY Zenon DEF RunningIffLeased, LeaseFencesRun, AttemptsInBudget, BlockersStayCompleted,
           HasLease, Exists
  <1>4. LinksExist' /\ (DependenciesMirrored => DependenciesMirrored')
    BY Zenon DEF LinksExist, DependenciesMirrored, Exists
  <1> QED
    BY <1>1, <1>2, <1>3, <1>4, Zenon

-----------------------------------------------------------------------------
(* The invariant is inductive. *)

\* A step that grants a task that may be claimed.
GrantStep ==
    \E t \in TaskId, w \in Worker, ttl \in TTLs, now \in Time, given \in SUBSET TaskId :
        /\ Grant(t, w, ttl, now, given)
        /\ tasks[t].status \in {"pending", "running"} /\ ~Exhausted(t) /\ ~Blocked(t)
        /\ t \notin given
        /\ \A u \in given : tasks[u].status \notin {"absent", "completed"}

\* A step that creates, links or deletes tasks, renews a lease or adds an
\* artifact.
EditStep ==
    \/ \E B, D \in SUBSET TaskId, limit \in AttemptLimits : CreateTask(B, D, limit)
    \/ \E t \in TaskId, B, D \in SUBSET TaskId : UpdateTask(t, B, D)
    \/ \E t \in TaskId : DeleteTask(t)
    \/ \E t \in TaskId, token \in Nat, ttl \in TTLs, now \in Time : RenewLease(t, token, ttl, now)
    \/ \E t \in TaskId : CreateArtifact(t)

\* ClaimTask grants or stops.
LEMMA ClaimTaskKind ==
  ASSUME NEW t \in TaskId, NEW w \in Worker, NEW ttl \in TTLs, NEW now \in Time,
         NEW skip \in SUBSET TaskId, CoreInv, ClaimTask(t, w, ttl, now, skip)
  PROVE  GrantStep \/ StopStep
  <1>1. CASE Claimable(t, skip, now) /\ Grant(t, w, ttl, now, {})
    BY <1>1 DEF Claimable, PassedOver, GrantStep
  <1>2. CASE GivenUp(t, skip, now) /\ GiveUp({t})
    BY <1>2, GiveUpStops, Zenon DEF GivenUp
  <1> QED
    BY <1>1, <1>2, Zenon DEF ClaimTask

\* ClaimReadyTask, whatever it gives up on the way, grants or stops.
LEMMA ClaimReadyTaskKind ==
  ASSUME NEW w \in Worker, NEW ttl \in TTLs, NEW now \in Time,
         NEW skip \in SUBSET TaskId, CoreInv, ClaimReadyTask(w, ttl, now, skip)
  PROVE  GrantStep \/ StopStep
  <1> DEFINE ready == {t \in TaskId : Claimable(t, skip, now)}
             spent == {t \in TaskId : GivenUp(t, skip, now)}
  <1>1. \A u \in spent : tasks[u].status \notin {"absent", "completed"}
    BY Zenon DEF GivenUp
  <1>2. ASSUME NEW t \in ready, Grant(t, w, ttl, now, {u \in spent : u < t})
        PROVE  GrantStep
    <2>1. t \notin {u \in spent : u < t} /\ {u \in spent : u < t} \in SUBSET TaskId
      BY Zenon DEF Claimable, GivenUp
    <2>2. tasks[t].status \in {"pending", "running"} /\ ~Exhausted(t) /\ ~Blocked(t)
      BY Zenon DEF Claimable, PassedOver
    <2> QED
      BY <1>1, <1>2, <2>1, <2>2 DEF GrantStep
  <1>3. CASE GiveUp(spent)
    BY <1>1, <1>3, GiveUpStops, Zenon
  <1> QED
    BY <1>2, <1>3, Zenon DEF ClaimReadyTask

\* Every step of the store stops runs, grants a claim or edits.
LEMMA NextKinds ==
  ASSUME StoreInv, StoreNext
  PROVE  StopStep \/ GrantStep \/ EditStep
  <1>0. CoreInv
    BY CoreOfStore, Zenon
  <1>1. \A c \in claims : c.task \in TaskId /\ c.token \in Nat
    BY Zenon DEF StoreInv, TypeOK, Claim
  <1>2. ASSUME NEW w \in Worker, NEW ttl \in TTLs, NEW now \in Time, NEW skip \in SUBSET TaskId,
               \/ ClaimReadyTask(w, ttl, now, skip)
               \/ \E t \in TaskId : ClaimTask(t, w, ttl, now, skip)
        PROVE  GrantStep \/ StopStep
    BY <1>0, <1>2, ClaimReadyTaskKind, ClaimTaskKind, Zenon
  <1>3. ASSUME NEW c \in claims, NEW now \in Time, NEW emits \in BOOLEAN,
               CompleteTask(c.task, c.token, emits, now)
        PROVE  StopStep
    BY <1>0, <1>1, <1>3, CompleteTaskStops, Zenon
  <1>4. ASSUME NEW c \in claims, NEW now \in Time, NEW retryable \in BOOLEAN,
               FailTask(c.task, c.token, retryable, now)
        PROVE  StopStep
    BY <1>0, <1>1, <1>4, FailTaskStops
  <1>5. ASSUME NEW t \in TaskId, NEW token, NEW now \in Time, CancelTask(t, token, now)
         PROVE  StopStep
    BY <1>0, <1>5, CancelTaskStops, Zenon
  <1>6. ASSUME NEW c \in claims, ReleaseLease(c.task, c.token) PROVE StopStep
    BY <1>0, <1>1, <1>6, ReleaseLeaseStops, Zenon
  <1>7. ASSUME NEW t \in TaskId, RetryTask(t) PROVE StopStep
    BY <1>0, <1>7, RetryTaskStops, Zenon
  <1>8. ASSUME NEW S \in SUBSET TaskId, NEW now \in Time, RecoverLeases(S, now)
         PROVE  StopStep
    BY <1>0, <1>8, RecoverLeasesStops, Zenon
  <1> QED
    BY <1>1, <1>2, <1>3, <1>4, <1>5, <1>6, <1>7, <1>8, Zenon
       DEF StoreNext, EditStep, RecoverExpiredLeases, RecoverExpiredLease

\* A step that leaves the store alone preserves the core.
LEMMA CoreStays ==
  ASSUME CoreInv, UNCHANGED storeVars
  PROVE  CoreInv'
  <1>1. TypeOK' /\ RunningIffLeased' /\ LeaseFencesRun'
    BY Zenon DEF storeVars, CoreInv, TypeOK, RunningIffLeased, LeaseFencesRun, HasLease, Exists
  <1>2. /\ AttemptsInBudget' /\ LinksExist'
        /\ BlockersStayCompleted' /\ OutcomesFromCompletingRun'
    BY Zenon DEF storeVars, CoreInv, AttemptsInBudget, LinksExist, BlockersStayCompleted,
                 OutcomesFromCompletingRun, Exists
  <1> QED
    BY <1>1, <1>2, Zenon DEF CoreInv

\* Every step preserves the core.
LEMMA CoreStep ==
  ASSUME CoreInv, StopStep \/ GrantStep \/ EditStep
  PROVE  CoreInv' /\ (DependenciesMirrored => DependenciesMirrored')
  <1>1. CASE StopStep
    BY <1>1, StopStepInv, Zenon
  <1>2. CASE GrantStep
    BY <1>2, GrantInv, Zenon DEF GrantStep
  <1>3. CASE EditStep
    BY <1>3, CreateTaskInv, UpdateTaskInv, DeleteTaskInv, RenewLeaseInv, CreateArtifactInv, Zenon
       DEF EditStep
  <1> QED
    BY <1>1, <1>2, <1>3, Zenon

\* Every step preserves the invariant.
LEMMA NextInv == StoreInv /\ [StoreNext]_storeVars => StoreInv'
  <1> SUFFICES ASSUME StoreInv, [StoreNext]_storeVars PROVE StoreInv'
    OBVIOUS
  <1>1. CASE UNCHANGED storeVars
    BY <1>1, Zenon DEF storeVars, StoreInv, TypeOK, RunningIffLeased, LeaseFencesRun, AttemptsInBudget,
                DependenciesMirrored, BlockersStayCompleted, OutcomesFromCompletingRun,
                HasLease, Exists
  <1>a. CoreInv /\ DependenciesMirrored
    BY CoreOfStore, Zenon DEF StoreInv
  <1>b. CoreInv' /\ DependenciesMirrored' => StoreInv'
    BY Zenon DEF CoreInv, StoreInv
  <1>2. CASE StoreNext
    BY <1>2, <1>a, <1>b, NextKinds, CoreStep, Zenon
  <1> QED
    BY <1>1, <1>2, Zenon

\* The store's invariant holds in every reachable state.
THEOREM StoreSafe == StoreSpec => []StoreInv
  BY InitInv, NextInv, PTL DEF StoreSpec

\* Types and counters: every id, run and token in use was issued.
THEOREM StoreTypeOK == StoreSpec => []TypeOK
  BY StoreSafe, PTL DEF StoreInv

\* A task is running exactly while it has a lease of its run's worker.
THEOREM StoreRunningIffLeased == StoreSpec => []RunningIffLeased
  BY StoreSafe, PTL DEF StoreInv

\* A lease token opens the run it was issued with and no other.
THEOREM StoreFencing == StoreSpec => []LeaseFencesRun
  BY StoreSafe, PTL DEF StoreInv

\* MaxAttempts is never exceeded and a pending task has an attempt left.
THEOREM StoreAttempts == StoreSpec => []AttemptsInBudget
  BY StoreSafe, PTL DEF StoreInv

\* Blocks and BlockedBy mirror each other.
THEOREM StoreDependencies == StoreSpec => []DependenciesMirrored
  BY StoreSafe, PTL DEF StoreInv

\* The blockers a run was started behind stay completed.
THEOREM StoreBlockers == StoreSpec => []BlockersStayCompleted
  BY StoreSafe, PTL DEF StoreInv

\* Outcome artifacts belong to the run that completed their task.
THEOREM StoreOutcomes == StoreSpec => []OutcomesFromCompletingRun
  BY StoreSafe, PTL DEF StoreInv

-----------------------------------------------------------------------------
(* What no step may do. *)

\* What an editing step does to statuses, runs and leases: nothing, except to
\* the task it creates or deletes.
LEMMA EditKeeps ==
  ASSUME CoreInv, EditStep
  PROVE  /\ \A t \in TaskId :
              /\ \/ tasks'[t].status = "absent"
                 \/ tasks[t].status = "absent" /\ tasks'[t].status = "pending"
                 \/ tasks'[t].status = tasks[t].status /\ tasks'[t].run = tasks[t].run
              /\ leases'[t].token \in {leases[t].token, 0}
         /\ claims' = claims
  <1> USE DEF CoreInv
  <1>1. tasks \in [TaskId -> Task] /\ leases \in [TaskId -> Lease]
    BY Zenon DEF TypeOK
  <1>2. ASSUME NEW B \in SUBSET TaskId, NEW D \in SUBSET TaskId, NEW limit \in AttemptLimits,
               CreateTask(B, D, limit), NEW t \in TaskId
        PROVE  /\ \/ tasks[t].status = "absent" /\ tasks'[t].status = "pending"
                  \/ tasks'[t].status = tasks[t].status /\ tasks'[t].run = tasks[t].run
               /\ leases'[t] = leases[t]
    <2> DEFINE n == nextTask + 1
               new == [NoTask EXCEPT !.status = "pending", !.maxAttempts = limit]
               ts == [tasks EXCEPT ![n] = new]
    <2>1. n \in TaskId /\ n > nextTask /\ limit \in Nat
      BY <1>2, StoreConstants DEF TaskId, CreateTask, TypeOK
    <2>0. new \in Task
      BY <2>1, Zenon DEF NoTask, NoRun, RunRef, Task, Status
    <2>2. tasks[n].status = "absent"
      BY <2>1, Zenon DEF TypeOK, Exists
    <2>3. tasks' = Linked(ts, n, B, D) /\ leases' = leases
      BY <1>2, Zenon DEF CreateTask
    <2>6. new.status = "pending"
      BY Zenon DEF NoTask
    <2> HIDE DEF new
    <2>4. ts \in [TaskId -> Task] /\ (t # n => ts[t] = tasks[t]) /\ (t = n => ts[t] = new)
      BY <1>1, <2>0, <2>1, Zenon
    <2> HIDE DEF ts, n
    <2>5. LinkOf(tasks', ts, n, B, D)
      BY <2>1, <2>3, <2>4, LinkedFields, Zenon
    <2> QED
      BY <2>2, <2>3, <2>4, <2>5, <2>6 DEF LinkOf
  <1>3. ASSUME NEW x \in TaskId, NEW B \in SUBSET TaskId, NEW D \in SUBSET TaskId,
               UpdateTask(x, B, D), NEW t \in TaskId
        PROVE  /\ tasks'[t].status = tasks[t].status /\ tasks'[t].run = tasks[t].run
               /\ leases'[t] = leases[t]
    <2>1. /\ tasks[x].blocks \cup B \in SUBSET TaskId
          /\ tasks[x].blockedBy \cup D \in SUBSET TaskId
      BY <1>1, Zenon DEF Task
    <2>2. LinkOf(tasks', tasks, x, tasks[x].blocks \cup B, tasks[x].blockedBy \cup D)
      BY <1>1, <1>3, <2>1, LinkedFields, Zenon DEF UpdateTask
    <2> QED
      BY <1>3, <2>2, Zenon DEF LinkOf, UpdateTask
  <1>4. ASSUME NEW x \in TaskId, DeleteTask(x), NEW t \in TaskId
        PROVE  /\ \/ tasks'[t].status = "absent"
                  \/ tasks'[t].status = tasks[t].status /\ tasks'[t].run = tasks[t].run
               /\ leases'[t].token \in {leases[t].token, 0}
    <2>1. CASE t = x
      BY <1>1, <1>4, <2>1, Zenon DEF DeleteTask, DropLease, NoTask, NoLease
    <2>2. CASE t # x
      <3>1. /\ tasks'[t] = [tasks[t] EXCEPT !.blocks = tasks[t].blocks \ {x},
                                             !.blockedBy = tasks[t].blockedBy \ {x}]
            /\ tasks[t] \in Task /\ leases'[t] = leases[t]
        BY <1>1, <1>4, <2>2, Zenon DEF DeleteTask, DropLease
      <3> QED
        BY <3>1, Zenon DEF Task
    <2> QED
      BY <2>1, <2>2, Zenon
  <1>5. ASSUME NEW x \in TaskId, NEW token \in Nat, NEW ttl \in TTLs, NEW now \in Time,
               RenewLease(x, token, ttl, now), NEW t \in TaskId
        PROVE  tasks' = tasks /\ leases'[t].token = leases[t].token
    BY <1>1, <1>5, Zenon DEF RenewLease, Lease
  <1>6. ASSUME NEW x \in TaskId, CreateArtifact(x) PROVE tasks' = tasks /\ leases' = leases
    BY <1>6, Zenon DEF CreateArtifact
  <1>7. claims' = claims
    BY Zenon DEF EditStep, CreateTask, UpdateTask, DeleteTask, RenewLease, CreateArtifact
  <1> QED
    BY <1>2, <1>3, <1>4, <1>5, <1>6, <1>7, Zenon DEF EditStep

\* EditKeeps, under the full invariant.
LEMMA EditStepKeeps ==
  ASSUME StoreInv, EditStep
  PROVE  /\ \A t \in TaskId :
              /\ \/ tasks'[t].status = "absent"
                 \/ tasks[t].status = "absent" /\ tasks'[t].status = "pending"
                 \/ tasks'[t].status = tasks[t].status /\ tasks'[t].run = tasks[t].run
              /\ leases'[t].token \in {leases[t].token, 0}
         /\ claims' = claims
  BY CoreOfStore, EditKeeps, Zenon

\* What a grant does to the tasks that are over and to the tokens.
LEMMA GrantStepKeeps ==
  ASSUME GrantStep
  PROVE  \A t \in TaskId :
            /\ tasks[t].status = "completed" => tasks'[t] = tasks[t]
            /\ leases'[t].token \in {leases[t].token, 0, nextLease + 1}
  <1>1. PICK u \in TaskId, w \in Worker, ttl \in TTLs, now \in Time, given \in SUBSET TaskId :
          /\ Grant(u, w, ttl, now, given)
          /\ tasks[u].status \in {"pending", "running"}
          /\ \A v \in given : tasks[v].status \notin {"absent", "completed"}
    BY Zenon DEF GrantStep
  <1> QED
    BY <1>1, Zenon DEF Grant, TasksGivenUp, LeasesGivenUp, NoLease

\* No step moves a completed task, except its deletion.
LEMMA CompletedStays ==
  ASSUME CoreInv, StopStep \/ GrantStep \/ EditStep
  PROVE  \A t \in TaskId :
            tasks[t].status = "completed" =>
                \/ tasks'[t].status = "absent"
                \/ tasks'[t].status = "completed" /\ tasks'[t].run = tasks[t].run
  <1>1. CASE StopStep
    BY <1>1, Zenon DEF StopStep, Stays, Stops
  <1>2. CASE GrantStep
    BY <1>2, GrantStepKeeps, Zenon
  <1>3. CASE EditStep
    BY <1>3, EditKeeps, Zenon
  <1> QED
    BY <1>1, <1>2, <1>3, Zenon

\* No step puts a token back that was lost.
LEMMA TokensStayLost ==
  ASSUME CoreInv, StopStep \/ GrantStep \/ EditStep
  PROVE  \A c \in claims :
            leases[c.task].token # c.token => leases'[c.task].token # c.token
  <1>1. \A c \in claims : c.task \in TaskId /\ c.token # 0 /\ c.token # nextLease + 1
    BY DEF CoreInv, TypeOK, Claim
  <1>2. CASE StopStep
    <2>1. \A t \in TaskId : leases'[t].token \in {leases[t].token, 0}
      BY <1>2, StopsFields DEF CoreInv, StopStep, Stays, NoLease
    <2> QED
      BY <1>1, <2>1, Zenon
  <1>3. CASE GrantStep
    BY <1>1, <1>3, GrantStepKeeps, Zenon
  <1>4. CASE EditStep
    BY <1>1, <1>4, EditKeeps, Zenon
  <1> QED
    BY <1>2, <1>3, <1>4, Zenon

\* No method, late or repeated, moves a completed task, except deletion.
THEOREM StoreCompletedIsFinal == StoreSpec => CompletedIsFinal
  <1> DEFINE A == \A t \in TaskId :
                    tasks[t].status = "completed" =>
                        \/ tasks'[t].status = "absent"
                        \/ tasks'[t].status = "completed" /\ tasks'[t].run = tasks[t].run
  <1>1. StoreInv /\ StoreNext => A
    BY CoreOfStore, NextKinds, CompletedStays, Zenon
  <1>2. StoreInv /\ [StoreNext]_storeVars => [A]_storeVars
    BY <1>1, Zenon
  <1> QED
    BY <1>2, StoreSafe, PTL DEF StoreSpec, CompletedIsFinal

\* A token that no longer opens a lease never opens it again.
THEOREM StoreLostLeaseStaysLost == StoreSpec => LostLeaseStaysLost
  <1> DEFINE A == \A c \in claims :
                    leases[c.task].token # c.token => leases'[c.task].token # c.token
  <1>1. StoreInv /\ StoreNext => A
    BY CoreOfStore, NextKinds, TokensStayLost, Zenon
  <1>2. StoreInv /\ [StoreNext]_storeVars => [A]_storeVars
    BY <1>1, Zenon
  <1> QED
    BY <1>2, StoreSafe, PTL DEF StoreSpec, LostLeaseStaysLost

-----------------------------------------------------------------------------
(***************************************************************************)
(* TaskStore implements TaskLifecycle: with leases, tokens, clocks and     *)
(* dependencies hidden, every method of the store is a step of the         *)
(* contract or changes nothing the contract speaks of.                     *)
(***************************************************************************)

\* Each claim takes the next run and the next token.
RunsAndTokens == nextRun = nextLease

\* What the mapping rests on.
LifeInv == StoreInv /\ RunsAndTokens

\* A new store is a new table of tasks.
LEMMA InitMaps == StoreInit => Lifecycle!Init
  <1> SUFFICES ASSUME StoreInit PROVE Lifecycle!Init
    OBVIOUS
  <1>1. TypeOK
    BY InitInv, Zenon DEF StoreInv
  <1>2. \A t \in TaskId : tasks[t].status = "absent" /\ tasks[t].run.id = 0
    BY Zenon DEF StoreInit, NoTask, NoRun
  <1>3. \A t \in TaskId : ~(t <= nextTask)
    BY DEF StoreInit, TaskId
  <1>4. life = [t \in TaskId |-> "unborn"]
    <2>1. \A t \in TaskId : life[t] = "unborn"
      BY <1>1, <1>2, <1>3, Zenon DEF life, Exists
    <2> QED
      BY <2>1, Zenon DEF life
  <1>5. [t \in TaskId |-> tasks[t].run.id] = [t \in TaskId |-> 0]
    BY <1>2, Zenon
  <1>6. {c.run : c \in claims} = {}
    BY Zenon DEF StoreInit
  <1> QED
    BY <1>4, <1>5, <1>6, Zenon DEF Lifecycle!Init

\* Runs and tokens are issued together.
LEMMA NextRunsAndTokens ==
    ASSUME LifeInv, [StoreNext]_storeVars PROVE RunsAndTokens'
  <1>1. StoreInv /\ nextRun = nextLease
    BY Zenon DEF LifeInv, RunsAndTokens
  <1>2. CASE StopStep
    BY <1>1, <1>2, Zenon DEF StopStep, RunsAndTokens
  <1>3. CASE GrantStep
    BY <1>1, <1>3, Zenon DEF GrantStep, Grant, RunsAndTokens
  <1>4. CASE EditStep
    BY <1>1, <1>4, Zenon DEF EditStep, CreateTask, UpdateTask, DeleteTask, RenewLease, CreateArtifact,
                      RunsAndTokens
  <1>5. CASE UNCHANGED storeVars
    BY <1>1, <1>5, Zenon DEF storeVars, RunsAndTokens
  <1> QED
    BY <1>1, <1>2, <1>3, <1>4, <1>5, NextKinds, Zenon

\* Every step of the store maps to a step of the contract or to no step.
LEMMA NextMaps ==
    ASSUME StoreInv, StoreInv', RunsAndTokens, [StoreNext]_storeVars
    PROVE  [Lifecycle!Next]_(Lifecycle!vars)
  \* The life of a task that is there is its status.
  <1>LifeOf.
      ASSUME NEW t \in TaskId
      PROVE  life[t] = IF tasks[t].status # "absent" THEN tasks[t].status
                       ELSE IF t <= nextTask THEN "gone" ELSE "unborn"
    BY Zenon DEF life, Exists

  \* The same in the next state.
  <1>LifeOfNext.
      ASSUME NEW t \in TaskId
      PROVE  life'[t] = IF tasks'[t].status # "absent" THEN tasks'[t].status
                        ELSE IF t <= nextTask' THEN "gone" ELSE "unborn"
    BY Zenon DEF life, Exists

  \* Steps that touch no status and no run are steps of nothing.
  <1>NothingMoves.
      ASSUME \A t \in TaskId : /\ tasks'[t].status = tasks[t].status
                               /\ tasks'[t].run = tasks[t].run,
             UNCHANGED <<nextTask, claims>>
      PROVE  UNCHANGED Lifecycle!vars
    <2> USE <1>NothingMoves
    <2>1. life' = life
      BY Zenon DEF life, Exists
    <2>2. [t \in TaskId |-> tasks[t].run.id]' = [t \in TaskId |-> tasks[t].run.id]
      OBVIOUS
    <2>3. {c.run : c \in claims}' = {c.run : c \in claims}
      OBVIOUS
    <2> QED
      BY <2>1, <2>2, <2>3, Zenon DEF Lifecycle!vars

  \* A step that moves task t alone.
  <1>OneMoves.
      ASSUME NEW t \in TaskId, NEW to, NEW own,
             life'[t] = to, tasks'[t].run.id = own,
             \A u \in TaskId \ {t} : life'[u] = life[u] /\ tasks'[u].run.id = tasks[u].run.id,
             claims' = claims
      PROVE  /\ life' = [life EXCEPT ![t] = to]
             /\ [u \in TaskId |-> tasks[u].run.id]' =
                    [[u \in TaskId |-> tasks[u].run.id] EXCEPT ![t] = own]
             /\ {c.run : c \in claims}' = {c.run : c \in claims}
    <2> USE <1>OneMoves
    <2>1. life' = [life EXCEPT ![t] = to]
      BY Zenon DEF life
    <2>2. [u \in TaskId |-> tasks[u].run.id]' = [[u \in TaskId |-> tasks[u].run.id] EXCEPT ![t] = own]
      OBVIOUS
    <2>3. {c.run : c \in claims}' = {c.run : c \in claims}
      OBVIOUS
    <2> QED
      BY <2>1, <2>2, <2>3, Zenon

  \* A step that sends the runs of some tasks back to the queue and fails others.
  <1>ManySettle.
      ASSUME NEW queued \in SUBSET TaskId, NEW failed \in SUBSET TaskId,
             queued \cap failed = {},
             \A u \in queued : tasks[u].status = "running",
             \A u \in failed : tasks[u].status \in {"running", "canceled"},
             \A u \in TaskId :
                /\ tasks'[u].status = IF u \in queued THEN "pending"
                                      ELSE IF u \in failed THEN "failed" ELSE tasks[u].status
                /\ tasks'[u].run.id = IF u \in queued THEN 0 ELSE tasks[u].run.id,
             UNCHANGED <<nextTask, claims>>
      PROVE  Lifecycle!Next
    <2> USE <1>ManySettle
    <2>1. ASSUME NEW u \in TaskId
          PROVE  life'[u] = IF u \in queued THEN "pending"
                            ELSE IF u \in failed THEN "failed" ELSE life[u]
      <3>1. TypeOK /\ TypeOK'
        BY Zenon DEF StoreInv
      <3> QED
        BY <3>1, <1>LifeOf, <1>LifeOfNext
    <2>2. life' = [u \in TaskId |-> IF u \in queued THEN "pending"
                                    ELSE IF u \in failed THEN "failed" ELSE life[u]]
      BY <2>1, Zenon DEF life
    <2>3. [u \in TaskId |-> tasks[u].run.id]' =
              [u \in TaskId |-> IF u \in queued THEN 0 ELSE [x \in TaskId |-> tasks[x].run.id][u]]
      OBVIOUS
    <2>4. {c.run : c \in claims}' = {c.run : c \in claims}
      OBVIOUS
    <2>5. Lifecycle!Settle(queued, failed)
      BY <2>2, <2>3, <2>4, Zenon DEF Lifecycle!Settle
    <2>6. queued \in SUBSET Lifecycle!Running /\ failed \in SUBSET Lifecycle!MayFail
      <3>1. \A u \in queued \cup failed : life[u] = tasks[u].status
        BY <1>LifeOf, Zenon DEF StoreInv
      <3> QED
        BY <3>1, Zenon DEF Lifecycle!Running, Lifecycle!MayFail
    <2> QED
      BY <2>5, <2>6, Zenon DEF Lifecycle!Next

  \* The same for one task, which was running and goes back to the queue.
  <1>OneQueued.
      ASSUME NEW t \in TaskId, tasks[t].status = "running",
             tasks'[t].status = "pending", tasks'[t].run.id = 0,
             \A u \in TaskId \ {t} : tasks'[u] = tasks[u],
             UNCHANGED <<nextTask, claims>>
      PROVE  Lifecycle!Next
    <2> USE <1>OneQueued
    <2> DEFINE Q == {t}
               F == {}
    <2>1. Q \in SUBSET TaskId /\ F \in SUBSET TaskId /\ Q \cap F = {}
      OBVIOUS
    <2>2. /\ \A u \in Q : tasks[u].status = "running"
          /\ \A u \in F : tasks[u].status \in {"running", "canceled"}
          /\ \A u \in TaskId :
                /\ tasks'[u].status = IF u \in Q THEN "pending"
                                      ELSE IF u \in F THEN "failed" ELSE tasks[u].status
                /\ tasks'[u].run.id = IF u \in Q THEN 0 ELSE tasks[u].run.id
      OBVIOUS
    <2> HIDE DEF Q, F
    <2> QED
      BY <2>1, <2>2, <1>ManySettle, Zenon

  \* The same for tasks that only fail.
  <1>SomeFail.
      ASSUME NEW failed \in SUBSET TaskId,
             \A u \in failed : tasks[u].status \in {"running", "canceled"},
             \A u \in TaskId :
                /\ tasks'[u].status = IF u \in failed THEN "failed" ELSE tasks[u].status
                /\ tasks'[u].run = tasks[u].run,
             UNCHANGED <<nextTask, claims>>
      PROVE  Lifecycle!Next
    <2> USE <1>SomeFail
    <2> DEFINE Q == {}
    <2>1. Q \in SUBSET TaskId /\ Q \cap failed = {}
      OBVIOUS
    <2>2. /\ \A u \in Q : tasks[u].status = "running"
          /\ \A u \in TaskId :
                /\ tasks'[u].status = IF u \in Q THEN "pending"
                                      ELSE IF u \in failed THEN "failed" ELSE tasks[u].status
                /\ tasks'[u].run.id = IF u \in Q THEN 0 ELSE tasks[u].run.id
      OBVIOUS
    <2> HIDE DEF Q
    <2> QED
      BY <2>1, <2>2, <1>ManySettle, Zenon

  \* A task whose lease the store accepts is running, and its fields are known.
  <1>HeldTask.
      ASSUME NEW t \in TaskId, HasLease(t)
      PROVE  tasks[t].status = "running" /\ life[t] = "running" /\ tasks[t] \in Task
    <2> USE <1>HeldTask
    <2>1. tasks[t].status = "running" /\ tasks[t] \in Task
      BY ValidMeansRunning, Zenon DEF StoreInv, TypeOK
    <2> QED
      BY <2>1, <1>LifeOf, Zenon DEF StoreInv

  \* Giving a task a status only.
  <1>StatusSet.
      ASSUME NEW t \in TaskId, NEW s, tasks' = SetStatus(t, s)
      PROVE  /\ tasks'[t].status = s /\ tasks'[t].run = tasks[t].run
             /\ \A u \in TaskId \ {t} : tasks'[u] = tasks[u]
    <2> USE <1>StatusSet
    <2>1. tasks \in [TaskId -> Task] /\ tasks[t] \in Task
      BY Zenon DEF StoreInv, TypeOK
    <2>2. tasks' = [tasks EXCEPT ![t] = [tasks[t] EXCEPT !.status = s]]
      BY <2>1, Zenon DEF SetStatus
    <2> QED
      BY <2>1, <2>2, Zenon DEF Task

  \* Requeueing forgets the run.
  <1>RequeuedFields.
      ASSUME NEW task \in Task, NEW rollback
      PROVE  Requeued(task, rollback).status = "pending" /\ Requeued(task, rollback).run.id = 0
    BY Zenon DEF Requeued, Task, NoRun

  \* The owner completes its task.
  <1>CompleteTaskMoves.
      ASSUME NEW t \in TaskId, NEW token, NEW emits, NEW now,
             CompleteTask(t, token, emits, now)
      PROVE  Lifecycle!Next
    <2> USE <1>CompleteTaskMoves
    <2>1. tasks' = SetStatus(t, "completed") /\ UNCHANGED <<nextTask, claims>> /\ HasLease(t)
      BY Zenon DEF CompleteTask, LeaseValid, LeaseLive
    <2>2. /\ tasks'[t].status = "completed" /\ tasks'[t].run = tasks[t].run
          /\ \A u \in TaskId \ {t} : tasks'[u] = tasks[u]
      BY <2>1, <1>StatusSet, Zenon
    <2>3. life'[t] = "completed" /\ \A u \in TaskId \ {t} : life'[u] = life[u]
      BY <2>1, <2>2, <1>LifeOf, <1>LifeOfNext DEF StoreInv
    <2>4. /\ life' = [life EXCEPT ![t] = "completed"]
          /\ [u \in TaskId |-> tasks[u].run.id]' =
                 [[u \in TaskId |-> tasks[u].run.id] EXCEPT ![t] = tasks[t].run.id]
          /\ {c.run : c \in claims}' = {c.run : c \in claims}
      BY <2>1, <2>2, <2>3, <1>OneMoves
    <2>5. Lifecycle!Complete(t)
      BY <2>1, <2>4, <1>HeldTask, Zenon DEF Lifecycle!Complete, Lifecycle!Move
    <2> QED
      BY <2>5, Zenon DEF Lifecycle!Next

  \* A run that fails goes back to the queue or fails its task.
  <1>FailTaskMoves.
      ASSUME NEW t \in TaskId, NEW token, NEW retryable, NEW now,
             FailTask(t, token, retryable, now)
      PROVE  Lifecycle!Next
    <2> USE <1>FailTaskMoves
    <2>1. HasLease(t) /\ UNCHANGED <<nextTask, claims>>
      BY Zenon DEF FailTask, LeaseValid, LeaseLive
    <2>2. tasks[t].status = "running" /\ tasks[t] \in Task /\ tasks \in [TaskId -> Task]
      BY <2>1, <1>HeldTask, Zenon DEF StoreInv, TypeOK
    <2>3. CASE retryable /\ ~Exhausted(t)
      <3>1. tasks' = [tasks EXCEPT ![t] = Requeued(tasks[t], FALSE)]
        BY <2>3, Zenon DEF FailTask, Requeue
      <3>2. tasks'[t].status = "pending" /\ tasks'[t].run.id = 0
            /\ \A u \in TaskId \ {t} : tasks'[u] = tasks[u]
        BY <2>2, <3>1, <1>RequeuedFields, Zenon
      <3> QED
        BY <2>1, <2>2, <3>2, <1>OneQueued, Zenon
    <2>4. CASE ~(retryable /\ ~Exhausted(t))
      <3>1. tasks' = SetStatus(t, "failed")
        BY <2>4, Zenon DEF FailTask
      <3>2. tasks'[t].status = "failed" /\ tasks'[t].run = tasks[t].run
            /\ \A u \in TaskId \ {t} : tasks'[u] = tasks[u]
        BY <3>1, <1>StatusSet, Zenon
      <3>3. {t} \in SUBSET TaskId
        OBVIOUS
      <3> QED
        BY <2>1, <2>2, <3>2, <3>3, <1>SomeFail, Zenon
    <2> QED
      BY <2>3, <2>4, Zenon

  \* Whoever cancels a task leaves it to its last owner.
  <1>CancelTaskMoves.
      ASSUME NEW t \in TaskId, NEW token, NEW now,
             CancelTask(t, token, now)
      PROVE  Lifecycle!Next
    <2> USE <1>CancelTaskMoves
    <2>1. /\ tasks' = SetStatus(t, "canceled") /\ UNCHANGED <<nextTask, claims>>
          /\ tasks[t].status \in {"pending", "running"}
      BY Zenon DEF CancelTask
    <2>2. /\ tasks'[t].status = "canceled" /\ tasks'[t].run = tasks[t].run
          /\ \A u \in TaskId \ {t} : tasks'[u] = tasks[u]
      BY <2>1, <1>StatusSet, Zenon
    <2>3. /\ life'[t] = "canceled" /\ life[t] \in {"pending", "running"}
          /\ \A u \in TaskId \ {t} : life'[u] = life[u]
      BY <2>1, <2>2, <1>LifeOf, <1>LifeOfNext DEF StoreInv
    <2>4. /\ life' = [life EXCEPT ![t] = "canceled"]
          /\ [u \in TaskId |-> tasks[u].run.id]' =
                 [[u \in TaskId |-> tasks[u].run.id] EXCEPT ![t] = tasks[t].run.id]
          /\ {c.run : c \in claims}' = {c.run : c \in claims}
      BY <2>1, <2>2, <2>3, <1>OneMoves, Zenon
    <2>5. Lifecycle!Cancel(t)
      BY <2>3, <2>4, Zenon DEF Lifecycle!Cancel, Lifecycle!Move
    <2> QED
      BY <2>5, Zenon DEF Lifecycle!Next

  \* A retry frees the task of its last owner.
  <1>RetryTaskMoves.
      ASSUME NEW t \in TaskId, RetryTask(t)
      PROVE  Lifecycle!Next
    <2> USE <1>RetryTaskMoves
    <2>0. tasks \in [TaskId -> Task] /\ tasks[t] \in Task
      BY Zenon DEF StoreInv, TypeOK
    <2>1. /\ tasks[t].status \in {"failed", "canceled"} /\ UNCHANGED <<nextTask, claims>>
          /\ tasks' = [tasks EXCEPT ![t] = [tasks[t] EXCEPT !.status = "pending",
                                              !.attempt = 0, !.run = NoRun]]
      BY <2>0, Zenon DEF RetryTask, Task
    <2>2. /\ tasks'[t].status = "pending" /\ tasks'[t].run.id = 0
          /\ \A u \in TaskId \ {t} : tasks'[u] = tasks[u]
      BY <2>0, <2>1, Zenon DEF Task, NoRun
    <2>3. /\ life'[t] = "pending" /\ life[t] \in {"failed", "canceled"}
          /\ \A u \in TaskId \ {t} : life'[u] = life[u]
      BY <2>1, <2>2, <1>LifeOf, <1>LifeOfNext DEF StoreInv
    <2>4. /\ life' = [life EXCEPT ![t] = "pending"]
          /\ [u \in TaskId |-> tasks[u].run.id]' =
                 [[u \in TaskId |-> tasks[u].run.id] EXCEPT ![t] = 0]
          /\ {c.run : c \in claims}' = {c.run : c \in claims}
      BY <2>1, <2>2, <2>3, <1>OneMoves
    <2>5. Lifecycle!Retry(t)
      BY <2>3, <2>4, Zenon DEF Lifecycle!Retry, Lifecycle!Move
    <2> QED
      BY <2>5, Zenon DEF Lifecycle!Next

  \* A lease handed in ends its run.
  <1>ReleaseLeaseMoves.
      ASSUME NEW t \in TaskId, NEW token, ReleaseLease(t, token)
      PROVE  Lifecycle!Next
    <2> USE <1>ReleaseLeaseMoves
    <2>1. HasLease(t) /\ UNCHANGED <<nextTask, claims>>
      BY Zenon DEF ReleaseLease
    <2>2. tasks[t].status = "running" /\ tasks[t] \in Task /\ tasks \in [TaskId -> Task]
      BY <2>1, <1>HeldTask, Zenon DEF StoreInv, TypeOK
    <2>3. tasks' = [tasks EXCEPT ![t] = Requeued(tasks[t], TRUE)]
      BY <2>2, Zenon DEF ReleaseLease, Requeue
    <2>4. tasks'[t].status = "pending" /\ tasks'[t].run.id = 0
          /\ \A u \in TaskId \ {t} : tasks'[u] = tasks[u]
      BY <2>2, <2>3, <1>RequeuedFields, Zenon
    <2> QED
      BY <2>1, <2>2, <2>4, <1>OneQueued, Zenon

  \* Recovery ends the runs whose leases have expired, many at a time.
  <1>RecoverLeasesMoves.
      ASSUME NEW S \in SUBSET TaskId, NEW now, RecoverLeases(S, now)
      PROVE  Lifecycle!Next
    <2> USE <1>RecoverLeasesMoves
    <2> DEFINE lost == {t \in S : LeaseExpired(t, now)}
               F == {t \in lost : Exhausted(t)}
               Q == lost \ F
    <2>1. UNCHANGED <<nextTask, claims>> /\ tasks \in [TaskId -> Task]
      BY Zenon DEF RecoverLeases, StoreInv, TypeOK
    <2>2. Q \in SUBSET TaskId /\ F \in SUBSET TaskId /\ Q \cap F = {}
      OBVIOUS
    <2>3. \A u \in lost : u \in TaskId /\ tasks[u].status = "running"
      BY <1>HeldTask, Zenon DEF LeaseExpired
    <2>4. ASSUME NEW u \in TaskId
          PROVE  /\ tasks'[u].status = IF u \in Q THEN "pending"
                                       ELSE IF u \in F THEN "failed" ELSE tasks[u].status
                 /\ tasks'[u].run.id = IF u \in Q THEN 0 ELSE tasks[u].run.id
      <3>1. CASE u \in F
        <4>1. tasks'[u] = [tasks[u] EXCEPT !.status = "failed"] /\ tasks[u] \in Task
          BY <2>1, <2>3, <3>1, Zenon DEF RecoverLeases
        <4> QED
          BY <3>1, <4>1, Zenon DEF Task
      <3>2. CASE u \in Q
        <4>1. tasks'[u] = Requeued(tasks[u], FALSE) /\ tasks[u] \in Task
          BY <2>1, <2>3, <3>2, Zenon DEF RecoverLeases
        <4> QED
          BY <3>2, <4>1, <1>RequeuedFields, Zenon
      <3>3. CASE u \notin lost
        <4>1. tasks'[u] = tasks[u]
          BY <3>3, Zenon DEF RecoverLeases
        <4> QED
          BY <3>3, <4>1, Zenon
      <3> QED
        BY <3>1, <3>2, <3>3, Zenon
    <2>5. /\ \A u \in Q : tasks[u].status = "running"
          /\ \A u \in F : tasks[u].status \in {"running", "canceled"}
      BY <2>3, Zenon
    <2> HIDE DEF Q, F
    <2> QED
      BY <2>1, <2>2, <2>4, <2>5, <1>ManySettle, Zenon

  \* A task that is given up was running or had been canceled: a pending task
  \* has an attempt left.
  <1>GivenUpStatus.
      ASSUME NEW t \in TaskId, NEW skip, NEW now, GivenUp(t, skip, now)
      PROVE  tasks[t].status \in {"running", "canceled"}
    <2> USE <1>GivenUpStatus
    <2>1. tasks[t] \in Task /\ tasks[t].status \notin {"absent", "completed", "failed"}
      BY Zenon DEF GivenUp, StoreInv, TypeOK
    <2>2. tasks[t].maxAttempts > 0 /\ tasks[t].attempt >= tasks[t].maxAttempts
      BY Zenon DEF GivenUp, Exhausted
    <2>3. tasks[t].status # "pending"
      BY <2>1, <2>2 DEF StoreInv, AttemptsInBudget, Task
    <2> QED
      BY <2>1, <2>3, Zenon DEF Task, Status

  \* What giving tasks up does to their fields.
  <1>GivenUpFields.
      ASSUME NEW given \in SUBSET TaskId, NEW u \in TaskId
      PROVE  /\ TasksGivenUp(given)[u].status = IF u \in given THEN "failed" ELSE tasks[u].status
             /\ TasksGivenUp(given)[u].run = tasks[u].run
    <2>1. tasks[u] \in Task
      BY Zenon DEF StoreInv, TypeOK
    <2>2. TasksGivenUp(given)[u] = IF u \in given THEN [tasks[u] EXCEPT !.status = "failed"]
                                   ELSE tasks[u]
      BY Zenon DEF TasksGivenUp
    <2> QED
      BY <2>1, <2>2, Zenon DEF Task

  \* A claim that grants nothing fails the tasks it gives up.
  <1>GiveUpMoves.
      ASSUME NEW given \in SUBSET TaskId, GiveUp(given),
             \A u \in given : tasks[u].status \in {"running", "canceled"}
      PROVE  Lifecycle!Next
    <2> USE <1>GiveUpMoves
    <2>1. tasks' = TasksGivenUp(given) /\ UNCHANGED <<nextTask, claims>>
      BY Zenon DEF GiveUp
    <2>2. \A u \in TaskId :
             /\ tasks'[u].status = IF u \in given THEN "failed" ELSE tasks[u].status
             /\ tasks'[u].run = tasks[u].run
      BY <2>1, <1>GivenUpFields
    <2> QED
      BY <2>1, <2>2, <1>SomeFail, Zenon

  \* Giving tasks up and granting one starts a run the store never started.
  <1>GrantMoves.
      ASSUME NEW t \in TaskId, NEW w, NEW ttl, NEW now,
             NEW given \in SUBSET TaskId, Grant(t, w, ttl, now, given),
             tasks[t].status \in {"pending", "running"}, t \notin given,
             \A u \in given : tasks[u].status \in {"running", "canceled"}
      PROVE  Lifecycle!Next
    <2> USE <1>GrantMoves
    <2> DEFINE r == nextRun + 1
               run == [id |-> r, worker |-> w, attempt |-> tasks[t].attempt + 1]
               G == TasksGivenUp(given)
    <2>1. StoreInv /\ TypeOK /\ TypeOK' /\ nextRun = nextLease /\ nextRun \in Nat
      BY Zenon DEF LifeInv, RunsAndTokens, StoreInv, TypeOK
    <2>2. nextLease < MaxClaims /\ nextTask' = nextTask
      BY Zenon DEF Grant
    <2>3. r \in 1..MaxClaims /\ r \notin {c.run : c \in claims}
      BY <2>1, <2>2, StoreConstants DEF TypeOK
    <2>4. PICK k : claims' = claims \cup {k} /\ k.run = r
      <3> DEFINE new == [task |-> t, token |-> nextLease + 1, run |-> r,
                         attempt |-> tasks[t].attempt + 1, worker |-> w,
                         blockedBy |-> tasks[t].blockedBy]
      <3>1. claims' = claims \cup {new} /\ new.run = r
        BY Zenon DEF Grant
      <3> QED
        BY <3>1, Zenon
    <2> HIDE DEF r
    <2>5. {c.run : c \in claims}' = {c.run : c \in claims} \cup {r}
      BY <2>4, Zenon
    <2> USE DEF r
    <2>6. tasks' = [G EXCEPT ![t] = [tasks[t] EXCEPT !.status = "running",
                                        !.attempt = tasks[t].attempt + 1, !.run = run]]
      BY Zenon DEF Grant, TasksGivenUp
    <2>7. t \in DOMAIN G /\ DOMAIN G = TaskId /\ tasks[t] \in Task
      BY <2>1, Zenon DEF TasksGivenUp, TypeOK
    <2>8. tasks'[t].status = "running" /\ tasks'[t].run.id = r
      <3>1. tasks'[t] = [tasks[t] EXCEPT !.status = "running",
                                         !.attempt = tasks[t].attempt + 1, !.run = run]
        BY <2>6, <2>7, Zenon
      <3>2. run.id = r
        OBVIOUS
      <3> HIDE DEF run
      <3> QED
        BY <2>7, <3>1, <3>2, Zenon DEF Task
    <2>9. \A u \in TaskId \ {t} :
             /\ tasks'[u].status = IF u \in given THEN "failed" ELSE tasks[u].status
             /\ tasks'[u].run = tasks[u].run
      <3>1. \A u \in TaskId \ {t} : tasks'[u] = G[u]
        BY <2>6, <2>7, Zenon
      <3> QED
        BY <2>1, <3>1, <1>GivenUpFields
    <2> HIDE DEF G, run, r
    <2>10. /\ life[t] \in {"pending", "running"} /\ life'[t] = "running"
           /\ \A u \in given : life[u] \in {"running", "canceled"}
           /\ \A u \in TaskId \ {t} : life'[u] = IF u \in given THEN "failed" ELSE life[u]
      BY <2>1, <2>2, <2>8, <2>9, <1>LifeOf, <1>LifeOfNext
    <2>11. life' = [u \in TaskId |-> IF u = t THEN "running"
                                     ELSE IF u \in given THEN "failed" ELSE life[u]]
      BY <2>10, Zenon DEF life
    <2>12. [u \in TaskId |-> tasks[u].run.id]' =
              [[u \in TaskId |-> tasks[u].run.id] EXCEPT ![t] = r]
      BY <2>8, <2>9, Zenon
    <2>13. Lifecycle!Start(t, r, given)
      BY <2>5, <2>10, <2>11, <2>12, Zenon DEF Lifecycle!Start
    <2>14. given \in SUBSET Lifecycle!MayFail
      BY <2>10, Zenon DEF Lifecycle!MayFail
    <2> QED
      BY <2>3, <2>13, <2>14, Zenon DEF Lifecycle!Next

  \* ClaimTask starts a run or fails an exhausted task.
  <1>ClaimTaskMoves.
      ASSUME NEW t \in TaskId, NEW w, NEW ttl, NEW now, NEW skip,
             ClaimTask(t, w, ttl, now, skip)
      PROVE  Lifecycle!Next
    <2> USE <1>ClaimTaskMoves
    <2>0. StoreInv
      BY Zenon DEF LifeInv
    <2>1. CASE Claimable(t, skip, now) /\ Grant(t, w, ttl, now, {})
      BY <2>1, <1>GrantMoves DEF Claimable
    <2>2. CASE GivenUp(t, skip, now) /\ GiveUp({t})
      BY <2>0, <2>2, <1>GivenUpStatus, <1>GiveUpMoves, Zenon
    <2> QED
      BY <2>1, <2>2, Zenon DEF ClaimTask

  \* ClaimReadyTask starts a run, failing the exhausted tasks it meets before.
  <1>ClaimReadyTaskMoves.
      ASSUME NEW w, NEW ttl, NEW now, NEW skip,
             ClaimReadyTask(w, ttl, now, skip)
      PROVE  Lifecycle!Next
    <2> USE <1>ClaimReadyTaskMoves
    <2> DEFINE ready == {t \in TaskId : Claimable(t, skip, now)}
               spent == {t \in TaskId : GivenUp(t, skip, now)}
    <2>0. StoreInv
      BY Zenon DEF LifeInv
    <2>1. \A u \in spent : tasks[u].status \in {"running", "canceled"}
      BY <2>0, <1>GivenUpStatus, Zenon
    <2>2. ASSUME NEW t \in ready, Grant(t, w, ttl, now, {u \in spent : u < t})
          PROVE  Lifecycle!Next
      <3>1. t \notin {u \in spent : u < t} /\ {u \in spent : u < t} \in SUBSET TaskId
        BY Zenon DEF Claimable, GivenUp
      <3>2. tasks[t].status \in {"pending", "running"}
        BY Zenon DEF Claimable
      <3> QED
        BY <2>1, <2>2, <3>1, <3>2, <1>GrantMoves, Zenon
    <2>3. CASE GiveUp(spent)
      BY <2>0, <2>1, <2>3, <1>GiveUpMoves, Zenon
    <2> QED
      BY <2>2, <2>3, Zenon DEF ClaimReadyTask

  \* A new task is one that was never there.
  <1>CreateTaskMoves.
      ASSUME NEW B \in SUBSET TaskId, NEW D \in SUBSET TaskId,
             NEW limit \in AttemptLimits, CreateTask(B, D, limit)
      PROVE  Lifecycle!Next
    <2> USE <1>CreateTaskMoves
    <2> DEFINE n == nextTask + 1
               new == [NoTask EXCEPT !.status = "pending", !.maxAttempts = limit]
               ts == [tasks EXCEPT ![n] = new]
    <2>0. TypeOK /\ TypeOK'
      BY Zenon DEF StoreInv
    <2>1. /\ n \in TaskId /\ limit \in Nat /\ nextTask \in Nat /\ n > nextTask
          /\ tasks \in [TaskId -> Task]
      BY <2>0, StoreConstants DEF TaskId, CreateTask, TypeOK
    <2>2. tasks[n].status = "absent"
      BY <2>0, <2>1, Zenon DEF TypeOK, Exists
    <2>3. new \in Task /\ new.status = "pending" /\ new.run.id = 0
      BY <2>1, Zenon DEF NoTask, Task, Status, NoRun, RunRef
    <2>4. tasks' = Linked(ts, n, B, D) /\ nextTask' = n /\ claims' = claims
      BY Zenon DEF CreateTask
    <2> HIDE DEF new
    <2>5. ts \in [TaskId -> Task] /\ ts[n] = new /\ \A x \in TaskId \ {n} : ts[x] = tasks[x]
      BY <2>1, <2>3, Zenon
    <2>6. \A x \in TaskId \ {n} : x <= n <=> x <= nextTask
      BY <2>1 DEF TaskId
    <2>7. ~(n <= nextTask)
      BY <2>1
    <2> HIDE DEF ts, n
    <2>8. LinkOf(tasks', ts, n, B, D)
      BY <2>1, <2>4, <2>5, LinkedFields, Zenon
    <2>9. /\ tasks'[n].status = "pending" /\ tasks'[n].run.id = 0
          /\ \A x \in TaskId \ {n} :
                tasks'[x].status = tasks[x].status /\ tasks'[x].run = tasks[x].run
      BY <2>1, <2>3, <2>5, <2>8, Zenon DEF LinkOf
    <2>10. /\ life[n] = "unborn" /\ life'[n] = "pending"
           /\ \A x \in TaskId \ {n} : life'[x] = life[x]
      BY <2>0, <2>1, <2>2, <2>4, <2>6, <2>7, <2>9, <1>LifeOf, <1>LifeOfNext
    <2>11. /\ life' = [life EXCEPT ![n] = "pending"]
           /\ [u \in TaskId |-> tasks[u].run.id]' =
                  [[u \in TaskId |-> tasks[u].run.id] EXCEPT ![n] = 0]
           /\ {c.run : c \in claims}' = {c.run : c \in claims}
      BY <2>1, <2>4, <2>9, <2>10, <1>OneMoves, Zenon
    <2>12. \E x \in TaskId : Lifecycle!Create(x)
      BY <2>1, <2>10, <2>11, Zenon DEF Lifecycle!Create, Lifecycle!Move
    <2> QED
      BY <2>12, Zenon DEF Lifecycle!Next

  \* A deleted task is gone, and nobody owns it.
  <1>DeleteTaskMoves.
      ASSUME NEW t \in TaskId, DeleteTask(t)
      PROVE  Lifecycle!Next
    <2> USE <1>DeleteTaskMoves
    <2>1. /\ tasks \in [TaskId -> Task] /\ TypeOK /\ TypeOK'
          /\ tasks[t].status # "absent" /\ UNCHANGED <<nextTask, claims>>
          /\ tasks'[t] = NoTask
      BY Zenon DEF StoreInv, TypeOK, DeleteTask, Exists
    <2>2. t <= nextTask
      BY <2>1 DEF TypeOK, Exists, TaskId
    <2>3. tasks'[t].status = "absent" /\ tasks'[t].run.id = 0
      BY <2>1 DEF NoTask, NoRun
    <2>4. ASSUME NEW x \in TaskId \ {t}
          PROVE  tasks'[x].status = tasks[x].status /\ tasks'[x].run = tasks[x].run
      <3>1. /\ tasks'[x] = [tasks[x] EXCEPT !.blocks = tasks[x].blocks \ {t},
                                            !.blockedBy = tasks[x].blockedBy \ {t}]
            /\ tasks[x] \in Task
        BY <2>1, Zenon DEF DeleteTask
      <3> QED
        BY <3>1, Zenon DEF Task
    <2>5. /\ life[t] = tasks[t].status /\ life'[t] = "gone"
          /\ \A x \in TaskId \ {t} : life'[x] = life[x]
      BY <2>1, <2>2, <2>3, <2>4, <1>LifeOf, <1>LifeOfNext
    <2>6. life[t] \notin {"unborn", "gone"}
      BY <2>1, <2>5, Zenon DEF Task, Status
    <2>7. /\ life' = [life EXCEPT ![t] = "gone"]
          /\ [u \in TaskId |-> tasks[u].run.id]' =
                 [[u \in TaskId |-> tasks[u].run.id] EXCEPT ![t] = 0]
          /\ {c.run : c \in claims}' = {c.run : c \in claims}
      BY <2>1, <2>3, <2>4, <2>5, <1>OneMoves, Zenon
    <2>8. Lifecycle!Delete(t)
      BY <2>6, <2>7, Zenon DEF Lifecycle!Delete, Lifecycle!Move
    <2> QED
      BY <2>8, Zenon DEF Lifecycle!Next

  \* Linking tasks is no step of the contract.
  <1>UpdateTaskStays.
      ASSUME NEW t \in TaskId, NEW B \in SUBSET TaskId,
             NEW D \in SUBSET TaskId, UpdateTask(t, B, D)
      PROVE  UNCHANGED Lifecycle!vars
    <2> USE <1>UpdateTaskStays
    <2>1. tasks \in [TaskId -> Task] /\ UNCHANGED <<nextTask, claims>>
      BY Zenon DEF StoreInv, TypeOK, UpdateTask
    <2>2. /\ tasks[t].blocks \cup B \in SUBSET TaskId
          /\ tasks[t].blockedBy \cup D \in SUBSET TaskId
      BY <2>1, Zenon DEF Task
    <2>3. LinkOf(tasks', tasks, t, tasks[t].blocks \cup B, tasks[t].blockedBy \cup D)
      BY <2>1, <2>2, LinkedFields, Zenon DEF UpdateTask
    <2>4. \A x \in TaskId : tasks'[x].status = tasks[x].status /\ tasks'[x].run = tasks[x].run
      BY <2>3, Zenon DEF LinkOf
    <2> QED
      BY <2>1, <2>4, <1>NothingMoves, Zenon

  <1>1. \A c \in claims : c.task \in TaskId
    BY Zenon DEF StoreInv, TypeOK, Claim
  <1>2. ASSUME NEW B \in SUBSET TaskId, NEW D \in SUBSET TaskId, NEW limit \in AttemptLimits,
               CreateTask(B, D, limit)
        PROVE  Lifecycle!Next
    BY <1>2, <1>CreateTaskMoves, Zenon
  <1>3. ASSUME NEW t \in TaskId, NEW B \in SUBSET TaskId, NEW D \in SUBSET TaskId,
               UpdateTask(t, B, D)
        PROVE  UNCHANGED Lifecycle!vars
    BY <1>3, <1>UpdateTaskStays, Zenon
  <1>4. ASSUME NEW t \in TaskId, DeleteTask(t) \/ RetryTask(t) PROVE Lifecycle!Next
    BY <1>4, <1>DeleteTaskMoves, <1>RetryTaskMoves, Zenon
  <1>5. ASSUME NEW w \in Worker, NEW ttl \in TTLs, NEW now \in Time, NEW skip \in SUBSET TaskId,
               \/ ClaimReadyTask(w, ttl, now, skip)
               \/ \E t \in TaskId : ClaimTask(t, w, ttl, now, skip)
        PROVE  Lifecycle!Next
    BY <1>5, <1>ClaimReadyTaskMoves, <1>ClaimTaskMoves, Zenon
  <1>6. ASSUME NEW t \in TaskId, NEW token, NEW now,
               \/ \E emits \in BOOLEAN : CompleteTask(t, token, emits, now)
               \/ \E retryable \in BOOLEAN : FailTask(t, token, retryable, now)
               \/ CancelTask(t, token, now)
        PROVE  Lifecycle!Next
    BY <1>6, <1>CompleteTaskMoves, <1>FailTaskMoves, <1>CancelTaskMoves, Zenon
  <1>7. ASSUME NEW t \in TaskId, NEW token, ReleaseLease(t, token) PROVE Lifecycle!Next
    BY <1>7, <1>ReleaseLeaseMoves, Zenon
  <1>8. ASSUME NEW t \in TaskId, NEW token, NEW ttl, NEW now,
               RenewLease(t, token, ttl, now) \/ CreateArtifact(t)
        PROVE  UNCHANGED Lifecycle!vars
    <2>1. UNCHANGED <<tasks, nextTask, claims>>
      BY <1>8, Zenon DEF RenewLease, CreateArtifact
    <2> QED
      BY <2>1, <1>NothingMoves, Zenon
  <1>9. ASSUME NEW S \in SUBSET TaskId, NEW now \in Time, RecoverLeases(S, now)
        PROVE  Lifecycle!Next
    BY <1>9, <1>RecoverLeasesMoves, Zenon
  <1>10. CASE UNCHANGED storeVars
    BY <1>10, <1>NothingMoves, Zenon DEF storeVars
  <1> QED
    BY <1>1, <1>2, <1>3, <1>4, <1>5, <1>6, <1>7, <1>8, <1>9, <1>10, Zenon
       DEF StoreNext, RecoverExpiredLeases, RecoverExpiredLease

\* The store implements the contract of a task's life: runs start once, a task
\* has one owner at a time, only the owner completes it, and completed and
\* deleted tasks never move again, whatever callers do with old tokens.
THEOREM StoreImplementsLifecycle == StoreSpec => ImplementsLifecycle
  <1>1. StoreInit => LifeInv
    BY InitInv, Zenon DEF LifeInv, StoreInit, RunsAndTokens
  <1>2. LifeInv /\ [StoreNext]_storeVars => LifeInv'
    BY NextInv, NextRunsAndTokens, Zenon DEF LifeInv
  <1>3. LifeInv /\ LifeInv' /\ [StoreNext]_storeVars => [Lifecycle!Next]_(Lifecycle!vars)
    <2> SUFFICES ASSUME LifeInv, LifeInv', [StoreNext]_storeVars
                 PROVE  [Lifecycle!Next]_(Lifecycle!vars)
      OBVIOUS
    <2> QED
      BY NextMaps, Zenon DEF LifeInv
  <1> QED
    BY <1>1, <1>2, <1>3, InitMaps, PTL DEF StoreSpec, ImplementsLifecycle, Lifecycle!Spec

-----------------------------------------------------------------------------
(* Commands. *)

\* Every field has its type, only the commands created exist, and they name a
\* task that was created; the tokens in workers' hands were issued.
CommandTypeOK ==
    /\ commands \in [CommandId -> Command]
    /\ nextCommand \in Nat
    /\ nanos \in Nat
    /\ commandClaims \subseteq CommandClaim
    /\ \A k \in CommandId :
          commands[k].status # "absent" => commands[k].task \in TaskId
    /\ \A cc \in commandClaims : cc.token \in 1..nanos

\* A running task is run by someone the store gave the run to.
RunsWereClaimed ==
    \A t \in TaskId :
        tasks[t].status = "running" =>
            \E c \in claims : /\ c.task = t
                              /\ c.run = tasks[t].run.id
                              /\ c.worker = tasks[t].run.worker

\* What the methods on commands rely on and preserve, with CoreInv in place of
\* StoreInv.
CommandCore ==
    /\ CoreInv
    /\ RunsWereClaimed
    /\ CommandTypeOK
    /\ OnlyClaimantHandles
    /\ AbortPinnedToItsRun

\* The inductive invariant.
CommandInv ==
    /\ StoreInv
    /\ RunsWereClaimed
    /\ CommandTypeOK
    /\ OnlyClaimantHandles
    /\ AbortPinnedToItsRun

-----------------------------------------------------------------------------
(* Steps of the task half. *)

\* Claims are never forgotten, and a task that runs after a step was running
\* the same run before it or was granted by it.
LEMMA StepClaims ==
  ASSUME CoreInv, RunsWereClaimed, StopStep \/ GrantStep \/ EditStep
  PROVE  claims \subseteq claims' /\ RunsWereClaimed'
  <1>1. CASE StopStep
    <2>1. claims' = claims
      BY <1>1, Zenon DEF StopStep
    <2>2. \A t \in TaskId : tasks'[t].status = "running" => tasks'[t] = tasks[t]
      BY <1>1, StopsFields, Zenon DEF StopStep, Stays, CoreInv
    <2> QED
      BY <2>1, <2>2 DEF RunsWereClaimed
  <1>2. CASE GrantStep
    <2>1. PICK u \in TaskId, w \in Worker, ttl \in TTLs, now \in Time, given \in SUBSET TaskId :
            Grant(u, w, ttl, now, given)
      BY <1>2, Zenon DEF GrantStep
    <2> DEFINE new == [task |-> u, token |-> nextLease + 1, run |-> nextRun + 1,
                       attempt |-> tasks[u].attempt + 1, worker |-> w,
                       blockedBy |-> tasks[u].blockedBy]
               ref == [id |-> nextRun + 1, worker |-> w, attempt |-> tasks[u].attempt + 1]
               task == [tasks[u] EXCEPT !.status = "running", !.attempt = @ + 1, !.run = ref]
    <2>2. tasks \in [TaskId -> Task]
      BY Zenon DEF CoreInv, TypeOK
    <2>3. claims' = claims \cup {new}
      BY <2>1, Zenon DEF Grant
    <2>4. tasks' = [TasksGivenUp(given) EXCEPT ![u] = task]
      BY <2>1, Zenon DEF Grant
    <2>5. task.run = ref
      BY <2>2 DEF Task
    <2> HIDE DEF task
    <2>6. tasks'[u] = task
      BY <2>4, Zenon DEF TasksGivenUp
    <2>7. ASSUME NEW t \in TaskId, t # u, tasks'[t].status = "running"
          PROVE  tasks'[t] = tasks[t]
      <3>1. tasks'[t] = IF t \in given THEN [tasks[t] EXCEPT !.status = "failed"] ELSE tasks[t]
        BY <2>4, <2>7, Zenon DEF TasksGivenUp
      <3> QED
        BY <2>2, <2>7, <3>1, Zenon DEF Task
    <2>8. new \in claims' /\ new.task = u /\ new.run = ref.id /\ new.worker = ref.worker
      BY <2>3, Zenon
    <2> HIDE DEF new, ref
    <2>9. claims \subseteq claims'
      BY <2>3, Zenon
    <2> QED
      BY <2>5, <2>6, <2>7, <2>8, <2>9 DEF RunsWereClaimed
  <1>3. CASE EditStep
    <2>1. claims' = claims
      BY <1>3, EditKeeps, Zenon
    <2>2. \A t \in TaskId : tasks'[t].status = "running" =>
            tasks[t].status = "running" /\ tasks'[t].run = tasks[t].run
      BY <1>3, EditKeeps, Zenon
    <2> QED
      BY <2>1, <2>2 DEF RunsWereClaimed
  <1> QED
    BY <1>1, <1>2, <1>3, Zenon

\* A step of the task half preserves the invariant.
LEMMA StoreStepKeeps ==
  ASSUME CommandInv, StoreNext, UNCHANGED commandVars
  PROVE  CommandInv'
  <1>1. StoreInv'
    BY NextInv, Zenon DEF CommandInv
  <1>2. claims \subseteq claims' /\ RunsWereClaimed'
    BY NextKinds, CoreOfStore, StepClaims, Zenon DEF CommandInv
  <1>3. CommandTypeOK' /\ OnlyClaimantHandles'
    BY Zenon DEF CommandInv, commandVars, CommandTypeOK, OnlyClaimantHandles, ClaimHeld
  <1>4. AbortPinnedToItsRun'
    BY <1>2, Zenon DEF CommandInv, commandVars, AbortPinnedToItsRun
  <1> QED
    BY <1>1, <1>2, <1>3, <1>4, Zenon DEF CommandInv

-----------------------------------------------------------------------------
(* Addressing. *)

\* Command c is for nobody, or names a run that its worker was given.
Pinned(c) ==
    c.kind = "abort" /\ c.target # NoWorker =>
        \E x \in claims : x.task = c.task /\ x.run = c.run /\ x.worker = c.target

\* Readdressing a pending command changes its target and run, and leaves an
\* abort pinned to its run.
LEMMA RefreshedCore ==
  ASSUME CommandCore, NEW k \in CommandId, Pending(k)
  PROVE  /\ Refreshed(k) \in Command
         /\ Refreshed(k).status = "pending"
         /\ Refreshed(k).kind = commands[k].kind
         /\ Refreshed(k).task = commands[k].task
         /\ Refreshed(k).token = commands[k].token
         /\ Refreshed(k).claimedBy = commands[k].claimedBy
         /\ Refreshed(k).handledBy = commands[k].handledBy
         /\ Pinned(Refreshed(k))
  <1> DEFINE c == commands[k]
             t == tasks[c.task]
  <1>1. c \in Command /\ c.task \in TaskId /\ c.status = "pending"
    BY Zenon DEF CommandCore, CommandTypeOK, Pending
  <1>2. t \in Task /\ t.run.id \in Nat /\ t.run.worker \in Worker \cup {NoWorker}
    BY <1>1, Zenon DEF CommandCore, CoreInv, TypeOK, Task, RunRef
  <1>3. t.status = "running" =>
          \E x \in claims : x.task = c.task /\ x.run = t.run.id /\ x.worker = t.run.worker
    BY <1>1, Zenon DEF CommandCore, RunsWereClaimed
  <1>4. Pinned(c)
    BY Zenon DEF CommandCore, AbortPinnedToItsRun, Pinned
  <1>5. ASSUME NEW w \in Worker \cup {NoWorker}, NEW r \in Nat
        PROVE  LET d == [c EXCEPT !.target = w, !.run = r]
               IN  /\ d \in Command /\ d.status = "pending" /\ d.kind = c.kind
                   /\ d.task = c.task /\ d.token = c.token
                   /\ d.claimedBy = c.claimedBy /\ d.handledBy = c.handledBy
                   /\ d.target = w /\ d.run = r
    BY <1>1, Zenon DEF Command
  <1>6. \E w \in Worker \cup {NoWorker}, r \in Nat :
          /\ Refreshed(k) = [c EXCEPT !.target = w, !.run = r]
          /\ c.kind = "abort" /\ w # NoWorker =>
               \/ w = c.target /\ r = c.run
               \/ t.status = "running" /\ r = t.run.id /\ w = t.run.worker
    <2>1. c = [c EXCEPT !.target = c.target, !.run = c.run]
      BY <1>1, Zenon DEF Command
    <2>2. c.run \in Nat /\ c.target \in Worker \cup {NoWorker} /\ c.kind \in Kind
      BY <1>1, Zenon DEF Command
    <2>3. CASE t.status = "absent"
      <3>1. Refreshed(k) = [c EXCEPT !.target = NoWorker, !.run = 0]
        BY <2>3, Zenon DEF Refreshed
      <3> QED
        BY <3>1, Zenon
    <2>4. CASE t.status # "absent" /\ c.kind = "cancel"
      <3>1. Refreshed(k) = CASE t.status = "running" ->
                                  [c EXCEPT !.target = t.run.worker, !.run = t.run.id]
                             [] t.status = "pending" -> [c EXCEPT !.target = NoWorker, !.run = 0]
                             [] OTHER -> c
        BY <2>4, Zenon DEF Refreshed
      <3> QED
        BY <1>2, <2>1, <2>2, <2>4, <3>1, Zenon
    <2>5. CASE t.status = "running" /\ c.kind = "abort"
      <3> DEFINE r == IF c.run = 0 THEN t.run.id ELSE c.run
                 w == IF t.run.id = r THEN t.run.worker ELSE NoWorker
      <3>1. Refreshed(k) = [c EXCEPT !.run = r, !.target = w]
        BY <2>5, Zenon DEF Refreshed
      <3>2. r \in Nat /\ w \in Worker \cup {NoWorker}
        BY <1>2, <2>2, Zenon
      <3>3. w # NoWorker => r = t.run.id /\ w = t.run.worker
        OBVIOUS
      <3> HIDE DEF r, w
      <3>4. Refreshed(k) = [c EXCEPT !.target = w, !.run = r]
        BY <1>1, <3>1, Zenon DEF Command
      <3> QED
        BY <2>5, <3>2, <3>3, <3>4, Zenon
    <2>6. CASE t.status \notin {"absent", "running"} /\ c.kind = "abort"
      <3>1. Refreshed(k) = [c EXCEPT !.target = NoWorker]
        BY <2>6, Zenon DEF Refreshed
      <3>2. Refreshed(k) = [c EXCEPT !.target = NoWorker, !.run = c.run]
        BY <1>1, <3>1, Zenon DEF Command
      <3> QED
        BY <2>2, <3>2, Zenon
    <2>7. CASE t.status # "absent" /\ c.kind = "retry"
      <3> DEFINE r == IF t.run.id = 0 THEN 0 ELSE c.run
      <3>1. Refreshed(k) = [c EXCEPT !.target = NoWorker, !.run = r]
        BY <2>7, Zenon DEF Refreshed
      <3> QED
        BY <2>2, <2>7, <3>1, Zenon
    <2> QED
      BY <2>2, <2>3, <2>4, <2>5, <2>6, <2>7, Zenon DEF Kind
  <1>7. PICK w \in Worker \cup {NoWorker}, r \in Nat :
          /\ Refreshed(k) = [c EXCEPT !.target = w, !.run = r]
          /\ c.kind = "abort" /\ w # NoWorker =>
               \/ w = c.target /\ r = c.run
               \/ t.status = "running" /\ r = t.run.id /\ w = t.run.worker
    BY <1>6, Zenon
  <1> DEFINE d == [c EXCEPT !.target = w, !.run = r]
  <1>8. /\ d \in Command /\ d.status = "pending" /\ d.kind = c.kind
        /\ d.task = c.task /\ d.token = c.token
        /\ d.claimedBy = c.claimedBy /\ d.handledBy = c.handledBy
        /\ d.target = w /\ d.run = r
    BY <1>5, Zenon
  <1>9. Refreshed(k) = d
    BY <1>7, Zenon
  <1> HIDE DEF d, t
  <1>10. Pinned(d)
    BY <1>3, <1>4, <1>7, <1>8, Zenon DEF Pinned
  <1> QED
    BY <1>8, <1>9, <1>10, Zenon

-----------------------------------------------------------------------------
(* The methods. *)

\* A method on commands leaves the task half alone.
LEMMA TasksAlone ==
  ASSUME CommandCore, UNCHANGED storeVars
  PROVE  CoreInv' /\ RunsWereClaimed' /\ claims' = claims
  <1>1. CoreInv'
    BY CoreStays, Zenon DEF CommandCore
  <1>2. tasks' = tasks /\ claims' = claims
    BY Zenon DEF storeVars
  <1> QED
    BY <1>1, <1>2, Zenon DEF CommandCore, RunsWereClaimed

\* What the commands must satisfy after a method that hands out no claim.
LEMMA CommandsKeep ==
  ASSUME CommandCore, UNCHANGED <<storeVars, nanos, commandClaims>>, nextCommand' \in Nat,
         commands' \in [CommandId -> Command],
         \A k \in CommandId :
            /\ commands'[k].status # "absent" => commands'[k].task \in TaskId
            /\ Pinned(commands'[k])
            /\ commands'[k].status = "claimed" =>
                  /\ commands[k].status = "claimed"
                  /\ commands'[k].token = commands[k].token
                  /\ commands'[k].claimedBy = commands[k].claimedBy
            /\ commands'[k].status = "handled" =>
                  commands'[k].handledBy = commands'[k].claimedBy
  PROVE  CommandCore'
  <1>1. CoreInv' /\ RunsWereClaimed' /\ claims' = claims
    BY TasksAlone, Zenon
  <1>2. CommandTypeOK'
    BY Zenon DEF CommandCore, CommandTypeOK
  <1>3. OnlyClaimantHandles'
    <2>1. \A cc \in commandClaims : cc.command \in CommandId
      BY Zenon DEF CommandCore, CommandTypeOK, CommandClaim
    <2> QED
      BY <2>1, Zenon DEF CommandCore, OnlyClaimantHandles, ClaimHeld
  <1>4. AbortPinnedToItsRun'
    BY <1>1, Zenon DEF Pinned, AbortPinnedToItsRun
  <1> QED
    BY <1>1, <1>2, <1>3, <1>4, Zenon DEF CommandCore

\* A command that a method does not touch satisfies all of it.
LEMMA Untouched ==
  ASSUME CommandCore, NEW k \in CommandId
  PROVE  /\ commands[k] \in Command
         /\ commands[k].status # "absent" => commands[k].task \in TaskId
         /\ Pinned(commands[k])
         /\ commands[k].status = "handled" => commands[k].handledBy = commands[k].claimedBy
  BY Zenon DEF CommandCore, CommandTypeOK, AbortPinnedToItsRun, OnlyClaimantHandles, Pinned

\* A command that was never created has the type of one.
LEMMA NoCommandFields == NoCommand \in Command
  BY Zenon DEF NoCommand, Command, Kind

\* Creating a command: an abort names the task's current run and its worker.
LEMMA CreateCommandKeeps ==
  ASSUME CommandCore, NEW kind \in Kind, NEW t \in TaskId, NEW run \in 0..nextRun,
         CreateCommand(kind, t, run)
  PROVE  CommandCore'
  <1> DEFINE n == nextCommand + 1
             r == IF run = 0 \/ kind = "abort" THEN tasks[t].run.id ELSE run
             w == IF tasks[t].status = "running" THEN tasks[t].run.worker ELSE NoWorker
             new == [NoCommand EXCEPT !.status = "pending", !.kind = kind, !.task = t,
                                      !.run = r, !.target = w]
  <1>1. n \in CommandId /\ n \in Nat
    BY CommandConstants DEF CommandCore, CommandTypeOK, CreateCommand, CommandId
  <1>2. tasks[t].run.id \in Nat /\ tasks[t].run.worker \in Worker \cup {NoWorker} /\ nextRun \in Nat
    BY Zenon DEF CommandCore, CoreInv, TypeOK, Task, RunRef
  <1>3. r \in Nat /\ w \in Worker \cup {NoWorker}
    BY <1>2
  <1>4. /\ new \in Command /\ new.status = "pending" /\ new.kind = kind
        /\ new.task = t /\ new.run = r /\ new.target = w
    <2> HIDE DEF r, w
    <2>1. NoCommand \in Command /\ t \in Nat
      BY StoreConstants, NoCommandFields DEF TaskId
    <2> QED
      BY <1>3, <2>1, Zenon DEF Command
  <1>5. Pinned(new)
    <2>1. kind = "abort" => r = tasks[t].run.id /\ tasks[t].status = "running"
      BY Zenon DEF CreateCommand, ValidTarget
    <2>2. tasks[t].status = "running" =>
            \E x \in claims : x.task = t /\ x.run = tasks[t].run.id /\ x.worker = tasks[t].run.worker
      BY Zenon DEF CommandCore, RunsWereClaimed
    <2>3. w # NoWorker => w = tasks[t].run.worker
      OBVIOUS
    <2> HIDE DEF new, r, w
    <2> QED
      BY <1>4, <2>1, <2>2, <2>3, Zenon DEF Pinned
  <1>6. commands' = [commands EXCEPT ![n] = new] /\ nextCommand' = n
    BY Zenon DEF CreateCommand
  <1>7. UNCHANGED <<storeVars, nanos, commandClaims>>
    BY Zenon DEF CreateCommand
  <1> HIDE DEF new, n
  <1>8. commands \in [CommandId -> Command]
    BY Zenon DEF CommandCore, CommandTypeOK
  <1>9. \A k \in CommandId : k # n => commands'[k] = commands[k]
    BY <1>6, <1>8, Zenon
  <1>10. commands'[n] = new /\ commands' \in [CommandId -> Command]
    BY <1>1, <1>4, <1>6, <1>8, Zenon
  <1> QED
    BY <1>1, <1>4, <1>5, <1>6, <1>7, <1>9, <1>10, Untouched, CommandsKeep, Zenon

\* Readdressing the commands a claim looks at in vain.
LEMMA OnlyRefreshKeeps ==
  ASSUME CommandCore, NEW seen \in SUBSET CommandId, \A k \in seen : Pending(k), OnlyRefresh(seen)
  PROVE  CommandCore'
  <1>1. \A k \in CommandId : commands'[k] = IF k \in seen THEN Refreshed(k) ELSE commands[k]
    BY Zenon DEF OnlyRefresh
  <1>2. nextCommand' \in Nat /\ UNCHANGED <<storeVars, nanos, commandClaims>>
    BY Zenon DEF OnlyRefresh, CommandCore, CommandTypeOK
  <1>3. \A k \in seen :
          /\ Refreshed(k) \in Command /\ Refreshed(k).status = "pending"
          /\ Refreshed(k).task \in TaskId /\ Pinned(Refreshed(k))
    BY RefreshedCore, Untouched, Zenon DEF Pending
  <1>4. commands' \in [CommandId -> Command]
    BY <1>1, <1>3, Untouched, Zenon DEF OnlyRefresh
  <1> QED
    BY <1>1, <1>2, <1>3, <1>4, Untouched, CommandsKeep, Zenon

\* A claim is undone, by its holder or by recovery.
LEMMA UnclaimedKeeps ==
  ASSUME CommandCore, NEW S \in SUBSET CommandId, \A k \in S : commands[k].status = "claimed",
         commands' = [k \in CommandId |-> IF k \in S THEN Unclaimed(commands[k]) ELSE commands[k]],
         UNCHANGED <<storeVars, nextCommand, nanos, commandClaims>>
  PROVE  CommandCore'
  <1>1. ASSUME NEW k \in S
        PROVE  LET d == Unclaimed(commands[k])
               IN  /\ d \in Command /\ d.status = "pending" /\ d.kind = commands[k].kind
                   /\ d.task = commands[k].task /\ d.run = commands[k].run
                   /\ d.target = commands[k].target
    BY Untouched, Zenon DEF Unclaimed, Command
  <1>2. \A k \in S : Unclaimed(commands[k]).task \in TaskId /\ Pinned(Unclaimed(commands[k]))
    BY <1>1, Untouched DEF Pinned
  <1>3. nextCommand' \in Nat /\ UNCHANGED <<storeVars, nanos, commandClaims>>
    BY Zenon DEF CommandCore, CommandTypeOK
  <1>4. commands' \in [CommandId -> Command]
    BY <1>1, Untouched, Zenon
  <1> QED
    BY <1>1, <1>2, <1>3, <1>4, Untouched, CommandsKeep, Zenon

\* The holder of a claim releases it.
LEMMA ReleaseCommandKeeps ==
  ASSUME CommandCore, NEW k \in CommandId, NEW token, ReleaseCommand(k, token)
  PROVE  CommandCore'
  <1>1. commands \in [CommandId -> Command]
    BY Zenon DEF CommandCore, CommandTypeOK
  <1>2. commands' = [j \in CommandId |-> IF j \in {k} THEN Unclaimed(commands[j]) ELSE commands[j]]
    BY <1>1, Zenon DEF ReleaseCommand
  <1> QED
    BY <1>2, UnclaimedKeeps, Zenon DEF ReleaseCommand, ClaimHeld

\* Recovery takes back claims that are too old.
LEMMA RecoverCommandsKeeps ==
  ASSUME CommandCore, NEW S \in SUBSET CommandId, NEW before \in Time, RecoverCommands(S, before)
  PROVE  CommandCore'
  <1> DEFINE R == {k \in S : commands[k].status = "claimed" /\ commands[k].claimedAt <= before}
  <1>1. commands' = [k \in CommandId |-> IF k \in R THEN Unclaimed(commands[k]) ELSE commands[k]]
    BY Zenon DEF RecoverCommands
  <1> QED
    BY <1>1, UnclaimedKeeps, Zenon DEF RecoverCommands

\* A worker acknowledges a command under a claim it was given.
LEMMA HandleCommandKeeps ==
  ASSUME CommandCore, NEW cc \in commandClaims, HandleCommand(cc.command, cc.token, cc.worker)
  PROVE  CommandCore'
  <1> DEFINE k == cc.command
             d == [commands[k] EXCEPT !.status = "handled", !.handledBy = cc.worker, !.token = 0]
  <1>1. k \in CommandId /\ cc.worker \in Worker /\ commands \in [CommandId -> Command]
    BY Zenon DEF CommandCore, CommandTypeOK, CommandClaim
  <1>2. commands[k].claimedBy = cc.worker /\ commands[k].status = "claimed"
    BY Zenon DEF CommandCore, OnlyClaimantHandles, HandleCommand, ClaimHeld
  <1>3. commands[k] \in Command
    BY <1>1, Zenon
  <1>4. commands' = [commands EXCEPT ![k] = d]
    BY <1>1, <1>3, Zenon DEF HandleCommand, Command
  <1>5. /\ d \in Command /\ d.status = "handled" /\ d.kind = commands[k].kind
        /\ d.task = commands[k].task /\ d.run = commands[k].run
        /\ d.target = commands[k].target
        /\ d.handledBy = cc.worker /\ d.claimedBy = commands[k].claimedBy
    BY <1>1, <1>3, Zenon DEF Command
  <1> HIDE DEF d, k
  <1>6. d.task \in TaskId /\ Pinned(d)
    BY <1>1, <1>2, <1>5, Untouched, Zenon DEF Pinned
  <1>7. nextCommand' \in Nat /\ UNCHANGED <<storeVars, nanos, commandClaims>>
    BY Zenon DEF CommandCore, CommandTypeOK, HandleCommand
  <1>8. /\ commands' \in [CommandId -> Command] /\ commands'[k] = d
        /\ \A j \in CommandId : j # k => commands'[j] = commands[j]
    BY <1>1, <1>4, <1>5, Zenon
  <1> QED
    BY <1>1, <1>2, <1>5, <1>6, <1>7, <1>8, Untouched, CommandsKeep, Zenon

\* The fields of a command once it is claimed.
LEMMA ClaimedFields ==
  ASSUME NEW c \in Command, NEW w \in Worker, NEW now \in Nat, NEW token \in Nat
  PROVE  LET d == Claimed(c, w, now, token)
         IN  /\ d \in Command /\ d.status = "claimed" /\ d.token = token /\ d.claimedBy = w
             /\ d.kind = c.kind /\ d.task = c.task /\ d.run = c.run /\ d.target = c.target
  BY Zenon DEF Claimed, Command

\* A worker is handed a claim under a token nobody else has.
LEMMA ClaimSeenKeeps ==
  ASSUME CommandCore, NEW k \in CommandId, NEW w \in Worker, NEW now \in Time,
         NEW seen \in SUBSET CommandId, Pending(k), \A j \in seen : Pending(j),
         ClaimSeen(k, w, now, seen)
  PROVE  CommandCore'
  <1> DEFINE d == Claimed(Refreshed(k), w, now, nanos + 1)
             new == [command |-> k, token |-> nanos + 1, worker |-> w]
  <1>1. nanos \in Nat /\ now \in Nat
    BY DEF CommandCore, CommandTypeOK, Time
  <1>2. Refreshed(k) \in Command /\ Refreshed(k).task \in TaskId /\ Pinned(Refreshed(k))
    BY RefreshedCore, Untouched, Zenon DEF Pending
  <1>3. /\ d \in Command /\ d.status = "claimed" /\ d.token = nanos + 1 /\ d.claimedBy = w
        /\ d.kind = Refreshed(k).kind /\ d.task = Refreshed(k).task
        /\ d.run = Refreshed(k).run /\ d.target = Refreshed(k).target
    <2>1. nanos + 1 \in Nat
      BY <1>1
    <2> QED
      BY <1>1, <1>2, <2>1, ClaimedFields
  <1>4. \A j \in CommandId :
          commands'[j] = IF j = k THEN d ELSE IF j \in seen THEN Refreshed(j) ELSE commands[j]
    BY Zenon DEF ClaimSeen
  <1>5. commandClaims' = commandClaims \cup {new} /\ nanos' = nanos + 1
    BY Zenon DEF ClaimSeen
  <1>6. new \in CommandClaim /\ new.command = k /\ new.token = nanos + 1 /\ new.worker = w
    BY <1>1 DEF CommandClaim
  <1>7. \A j \in seen :
          /\ Refreshed(j) \in Command /\ Refreshed(j).status = "pending"
          /\ Refreshed(j).task \in TaskId /\ Pinned(Refreshed(j))
    BY RefreshedCore, Untouched, Zenon DEF Pending
  <1>8. Pinned(d)
    BY <1>2, <1>3, Zenon DEF Pinned
  <1> HIDE DEF d, new
  <1>9. \A j \in CommandId :
          /\ commands'[j] \in Command
          /\ commands'[j].status # "absent" => commands'[j].task \in TaskId
          /\ Pinned(commands'[j])
    BY <1>2, <1>3, <1>4, <1>7, <1>8, Untouched, Zenon
  <1>10. CoreInv' /\ RunsWereClaimed' /\ claims' = claims
    BY TasksAlone, Zenon DEF ClaimSeen
  <1>11. CommandTypeOK'
    <2>1. commands' \in [CommandId -> Command]
      BY <1>9, Zenon DEF ClaimSeen
    <2>2. nextCommand' \in Nat /\ nanos' \in Nat /\ commandClaims' \subseteq CommandClaim
      BY <1>1, <1>5, <1>6 DEF ClaimSeen, CommandCore, CommandTypeOK
    <2>3. \A cc \in commandClaims' : cc.token \in 1..nanos'
      BY <1>1, <1>5, <1>6 DEF CommandCore, CommandTypeOK
    <2> QED
      BY <1>9, <2>1, <2>2, <2>3, Zenon DEF CommandTypeOK
  <1>12. OnlyClaimantHandles'
    <2>1. ASSUME NEW cc \in commandClaims', commands'[cc.command].status = "claimed",
                 commands'[cc.command].token = cc.token
          PROVE  commands'[cc.command].claimedBy = cc.worker
      <3>1. CASE cc = new
        BY <1>3, <1>4, <1>6, <3>1, Zenon
      <3>2. CASE cc \in commandClaims
        <4>1. cc.token # nanos + 1 /\ cc.command \in CommandId
          BY <1>1, <3>2 DEF CommandCore, CommandTypeOK, CommandClaim
        <4>2. cc.command # k /\ cc.command \notin seen
          BY <1>3, <1>4, <1>7, <2>1, <4>1, Zenon
        <4> QED
          BY <1>4, <2>1, <3>2, <4>1, <4>2, Zenon DEF CommandCore, OnlyClaimantHandles, ClaimHeld
      <3> QED
        BY <1>5, <3>1, <3>2, Zenon
    <2>2. \A j \in CommandId : commands'[j].status = "handled" =>
            commands'[j].handledBy = commands'[j].claimedBy
      BY <1>3, <1>4, <1>7, Untouched, Zenon
    <2> QED
      BY <2>1, <2>2, Zenon DEF OnlyClaimantHandles, ClaimHeld
  <1>13. AbortPinnedToItsRun'
    BY <1>9, <1>10, Zenon DEF AbortPinnedToItsRun, Pinned
  <1> QED
    BY <1>10, <1>11, <1>12, <1>13, Zenon DEF CommandCore

-----------------------------------------------------------------------------

\* An empty store satisfies the invariant.
LEMMA CommandInit == Init => CommandInv
  <1> SUFFICES ASSUME Init PROVE CommandInv
    OBVIOUS
  <1>1. StoreInv
    BY InitInv, Zenon DEF Init
  <1>2. RunsWereClaimed
    BY Zenon DEF Init, StoreInit, RunsWereClaimed, NoTask
  <1>3. CommandTypeOK
    BY NoCommandFields, Zenon DEF Init, CommandTypeOK, NoCommand
  <1>4. OnlyClaimantHandles /\ AbortPinnedToItsRun
    BY Zenon DEF Init, OnlyClaimantHandles, AbortPinnedToItsRun, NoCommand
  <1> QED
    BY <1>1, <1>2, <1>3, <1>4, Zenon DEF CommandInv

\* A claim, of the first suitable command or of a given one, hands out a claim
\* or only readdresses pending commands.
ClaimOutcome(w, now) ==
    \/ \E k \in CommandId, seen \in SUBSET CommandId :
          /\ Pending(k) /\ ForWorker(k, w) /\ k \notin seen
          /\ \A j \in seen : Pending(j)
          /\ ClaimSeen(k, w, now, seen)
    \/ \E seen \in SUBSET CommandId :
          (\A j \in seen : Pending(j)) /\ OnlyRefresh(seen)

\* Both ways to claim have such an outcome.
LEMMA ClaimsHaveOutcome ==
  ASSUME NEW w \in Worker, NEW now \in Time,
         \/ ClaimPendingCommand(w, now)
         \/ \E k \in CommandId : ClaimCommand(k, w, now)
  PROVE  ClaimOutcome(w, now)
  <1> DEFINE pending == {k \in CommandId : Pending(k)}
             mine == {k \in pending : ForWorker(k, w)}
  <1>1. ASSUME NEW k \in mine, ClaimSeen(k, w, now, {j \in pending : j < k})
        PROVE  ClaimOutcome(w, now)
    <2> DEFINE seen == {j \in pending : j < k}
    <2>1. seen \in SUBSET CommandId /\ k \notin seen /\ \A j \in seen : Pending(j)
      BY DEF CommandId
    <2>2. k \in CommandId /\ Pending(k) /\ ForWorker(k, w) /\ ClaimSeen(k, w, now, seen)
      BY <1>1, Zenon
    <2> HIDE DEF seen
    <2> QED
      BY <2>1, <2>2, Zenon DEF ClaimOutcome
  <1>2. CASE OnlyRefresh(pending)
    BY <1>2, Zenon DEF ClaimOutcome
  <1>3. ASSUME NEW k \in CommandId, ClaimCommand(k, w, now)
        PROVE  ClaimOutcome(w, now)
    <2>1. Pending(k) /\ ((ForWorker(k, w) /\ ClaimSeen(k, w, now, {})) \/ OnlyRefresh({k}))
      BY <1>3, Zenon DEF ClaimCommand
    <2> QED
      BY <2>1, Zenon DEF ClaimOutcome
  <1> QED
    BY <1>1, <1>2, <1>3, Zenon DEF ClaimPendingCommand

\* The two invariants differ in the mirrored lists, which no method on commands
\* touches.
LEMMA CoreOfCommands == CommandInv => CommandCore
  BY CoreOfStore, Zenon DEF CommandInv, CommandCore

\* RefreshedCore, under the full invariant.
LEMMA RefreshedFields ==
  ASSUME CommandInv, NEW k \in CommandId, Pending(k)
  PROVE  /\ Refreshed(k) \in Command
         /\ Refreshed(k).status = "pending"
         /\ Refreshed(k).kind = commands[k].kind
         /\ Refreshed(k).task = commands[k].task
         /\ Refreshed(k).token = commands[k].token
         /\ Refreshed(k).claimedBy = commands[k].claimedBy
         /\ Refreshed(k).handledBy = commands[k].handledBy
         /\ Pinned(Refreshed(k))
  BY CoreOfCommands, RefreshedCore, Zenon

\* Mirrored lists stay mirrored when only commands change.
LEMMA CommandsOfCore ==
  ASSUME CommandInv, CommandCore', UNCHANGED storeVars
  PROVE  CommandInv'
  <1>1. StoreInv'
    BY NextInv, Zenon DEF CommandInv
  <1> QED
    BY <1>1, Zenon DEF CommandInv, CommandCore

\* Every step preserves the invariant.
LEMMA CommandStep == CommandInv /\ [Next]_allVars => CommandInv'
  <1> SUFFICES ASSUME CommandInv, [Next]_allVars PROVE CommandInv'
    OBVIOUS
  <1>0. CommandCore
    BY CoreOfCommands, Zenon
  <1>1. CASE UNCHANGED allVars
    <2>1. UNCHANGED storeVars /\ UNCHANGED commandVars
      BY <1>1, Zenon DEF allVars
    <2>2. StoreInv' /\ RunsWereClaimed' /\ claims' = claims
      BY <1>0, <2>1, NextInv, TasksAlone, Zenon DEF CommandInv
    <2> QED
      BY <2>1, <2>2, Zenon DEF commandVars, CommandInv, CommandTypeOK, OnlyClaimantHandles, ClaimHeld,
                        AbortPinnedToItsRun
  <1>2. CASE StoreNext /\ UNCHANGED commandVars
    BY <1>2, StoreStepKeeps, Zenon
  <1>3. ASSUME NEW kind \in Kind, NEW t \in TaskId, NEW run \in 0..nextRun,
               CreateCommand(kind, t, run)
        PROVE  CommandInv'
    BY <1>0, <1>3, CreateCommandKeeps, CommandsOfCore, Zenon DEF CreateCommand
  <1>4. ASSUME NEW w \in Worker, NEW now \in Time, ClaimOutcome(w, now)
        PROVE  CommandInv'
    <2>1. CommandCore'
      BY <1>0, <1>4, ClaimSeenKeeps, OnlyRefreshKeeps, Zenon DEF ClaimOutcome
    <2>2. UNCHANGED storeVars
      BY <1>4, Zenon DEF ClaimOutcome, ClaimSeen, OnlyRefresh
    <2> QED
      BY <2>1, <2>2, CommandsOfCore, Zenon
  <1>5. ASSUME NEW cc \in commandClaims, HandleCommand(cc.command, cc.token, cc.worker)
        PROVE  CommandInv'
    BY <1>0, <1>5, HandleCommandKeeps, CommandsOfCore, Zenon DEF HandleCommand
  <1>6. ASSUME NEW cc \in commandClaims, ReleaseCommand(cc.command, cc.token)
        PROVE  CommandInv'
    <2>1. cc.command \in CommandId
      BY Zenon DEF CommandInv, CommandTypeOK, CommandClaim
    <2> QED
      BY <1>0, <1>6, <2>1, ReleaseCommandKeeps, CommandsOfCore, Zenon DEF ReleaseCommand
  <1>7. ASSUME NEW S \in SUBSET CommandId, NEW before \in Time, RecoverCommands(S, before)
        PROVE  CommandInv'
    BY <1>0, <1>7, RecoverCommandsKeeps, CommandsOfCore, Zenon DEF RecoverCommands
  <1> QED
    BY <1>1, <1>2, <1>3, <1>4, <1>5, <1>6, <1>7, ClaimsHaveOutcome, Zenon
       DEF Next, CommandNext, RecoverClaimedCommands, RecoverClaimedCommand

\* The store's invariant, with the command half beside it, holds in every
\* reachable state.
THEOREM CommandsSafe == Spec => []CommandInv
  BY CommandInit, CommandStep, PTL DEF Spec

\* Of all the claims handed out for a command one at most is good, and who
\* acknowledges the command holds it.
THEOREM ClaimantSafe == Spec => []OnlyClaimantHandles
  BY CommandsSafe, PTL DEF CommandInv

\* An abort addressed to a worker names a run that worker was given.
THEOREM AbortSafe == Spec => []AbortPinnedToItsRun
  BY CommandsSafe, PTL DEF CommandInv

\* A cancel of a running task is claimed by the worker that runs it.
THEOREM CancelSafe == Spec => CancelReachesRunner
  <1> DEFINE A == \A k \in CommandId :
                    /\ commands[k].kind = "cancel"
                    /\ commands[k].status = "pending" /\ commands'[k].status = "claimed"
                    /\ tasks[commands[k].task].status = "running"
                    => commands'[k].claimedBy = tasks[commands[k].task].run.worker
  <1>1. ASSUME CommandInv, Next PROVE A
    <2> SUFFICES ASSUME NEW k \in CommandId, commands[k].kind = "cancel",
                        commands[k].status = "pending", commands'[k].status = "claimed",
                        tasks[commands[k].task].status = "running"
                 PROVE  commands'[k].claimedBy = tasks[commands[k].task].run.worker
      OBVIOUS
    <2>1. commands \in [CommandId -> Command] /\ commands[k].task \in TaskId
      BY <1>1, Zenon DEF CommandInv, CommandTypeOK
    <2>2. PICK w \in Worker, now \in Time : ClaimOutcome(w, now)
      <3>1. ~(StoreNext /\ UNCHANGED commandVars)
        BY Zenon DEF commandVars
      <3>2. ASSUME NEW kind \in Kind, NEW t \in TaskId, NEW run \in 0..nextRun,
                   CreateCommand(kind, t, run)
            PROVE  FALSE
        <4>1. CASE k = nextCommand + 1
          BY <2>1, <3>2, <4>1, Zenon DEF CreateCommand, NoCommand
        <4>2. CASE k # nextCommand + 1
          BY <2>1, <3>2, <4>2, Zenon DEF CreateCommand
        <4> QED
          BY <4>1, <4>2, Zenon
      <3>3. ASSUME NEW cc \in commandClaims, NEW w \in Worker,
                   \/ HandleCommand(cc.command, cc.token, w)
                   \/ ReleaseCommand(cc.command, cc.token)
            PROVE  FALSE
        BY <2>1, <3>3, Zenon DEF HandleCommand, ReleaseCommand, ClaimHeld, Unclaimed, Command
      <3>4. ASSUME NEW S, NEW before, RecoverCommands(S, before) PROVE FALSE
        BY <3>4, Zenon DEF RecoverCommands
      <3>5. \A cc \in commandClaims : cc.worker \in Worker
        BY <1>1, Zenon DEF CommandInv, CommandTypeOK, CommandClaim
      <3> QED
        BY <1>1, <3>1, <3>2, <3>3, <3>4, <3>5, ClaimsHaveOutcome, Zenon
           DEF Next, CommandNext, RecoverClaimedCommands, RecoverClaimedCommand
    <2>3. \A j \in CommandId : Pending(j) => Refreshed(j).status = "pending"
      BY <1>1, RefreshedFields, Zenon
    <2>4. PICK seen \in SUBSET CommandId : ForWorker(k, w) /\ ClaimSeen(k, w, now, seen)
      BY <2>2, <2>3 DEF ClaimOutcome, ClaimSeen, OnlyRefresh
    <2>5. commands'[k].claimedBy = w
      <3>1. Refreshed(k) \in Command /\ nanos + 1 \in Nat /\ now \in Nat
        BY <1>1, RefreshedFields DEF Pending, CommandInv, CommandTypeOK, Time
      <3>2. commands'[k] = Claimed(Refreshed(k), w, now, nanos + 1)
        BY <2>4, Zenon DEF ClaimSeen
      <3> QED
        BY <3>1, <3>2, Zenon DEF Claimed, Command
    <2>6. Refreshed(k).target = tasks[commands[k].task].run.worker
      BY <2>1, Zenon DEF Refreshed, Command
    <2>7. tasks[commands[k].task].run.worker # NoWorker
      BY <1>1, <2>1, StoreConstants DEF CommandInv, RunsWereClaimed, StoreInv, TypeOK, Claim
    <2> QED
      BY <2>4, <2>5, <2>6, <2>7, Zenon DEF ForWorker
  <1>2. CommandInv /\ [Next]_allVars => [A]_allVars
    BY <1>1, Zenon
  <1> QED
    BY <1>2, CommandsSafe, PTL DEF Spec, CancelReachesRunner
=============================================================================
