----------------------------- MODULE Scheduler -----------------------------
(***************************************************************************)
(* The orchestrator's worker (ext/orchestrator/scheduler.go and            *)
(* recovery_manager.go): several schedulers, on one machine or on several, *)
(* polling one store.                                                      *)
(*                                                                         *)
(* A worker is one polling loop (Run) and one goroutine for each claimed   *)
(* task it runs (runClaim), each with its renewal loop.  A step is one     *)
(* call to the store or one access to the worker's own table of active     *)
(* runs; between any two, every other process may move.  So what the loop  *)
(* read from the store (a task, a lease, a list of tasks to leave alone)   *)
(* may be out of date when it is used.  The clock is read in the step that *)
(* passes it to the store; Sweep and handleCommand read it once and use    *)
(* that reading in all their calls.                                        *)
(*                                                                         *)
(* The environment creates and deletes tasks, creates commands, lets time  *)
(* pass, cancels the context of a worker (Stop) or kills it (Crash), and   *)
(* starts it again.  Runs are named by the lease token of their claim.     *)
(***************************************************************************)
EXTENDS CommandStore

CONSTANTS
    MaxConcurrentRuns,  \* slots of a worker
    ClaimTimeout,       \* age at which a command claim is given up for dead
    HasController,      \* the runner implements RunController
    ContextStore,       \* store calls fail once their context is canceled
                        \*   (sqlite; the memory store ignores its context)
    MaxFaults           \* bound: contexts canceled and workers killed

ASSUME SchedulerConstants ==
    /\ MaxConcurrentRuns \in Nat \ {0}
    /\ ClaimTimeout \in Nat
    /\ HasController \in BOOLEAN
    /\ ContextStore \in BOOLEAN
    /\ MaxFaults \in Nat
    /\ MaxTime >= 1

ClaimId == 1..MaxClaims

VARIABLES
    loop,       \* [Worker -> where its polling loop is and what it has read]
    slots,      \* [Worker -> slots taken]
    active,     \* [Worker -> [TaskId -> the run registered for it, or 0]]
    runs,       \* [ClaimId -> the goroutine of that claim]
    stopped,    \* [Worker -> its context is canceled]
    clock,      \* the time, on which all workers agree
    faults,     \* cancellations and crashes so far
    abandoned   \* tokens of the leases and command claims crashes left behind

workerVars == <<loop, slots, active, runs>>
envVars == <<stopped, clock, faults, abandoned>>
schedulerVars == <<allVars, workerVars, envVars>>

\* A loop at pc that holds nothing: cmd is its copy of the command it claimed,
\* run and lease what it read of the task, local the active run it found, now
\* the reading of the clock it goes by, exclude and claim what dispatch works
\* on, lost what recovery took away.
NoCmd == [id |-> 0, token |-> 0, kind |-> "cancel", task |-> 0, run |-> 0]
At(pc) == [pc |-> pc, cmd |-> NoCmd, run |-> 0, lease |-> 0, local |-> 0,
           now |-> 0, exclude |-> {}, claim |-> 0, lost |-> {}]

\* A goroutine: renewErr says its renewal loop failed, result what the runner
\* returned.
NoGoroutine == [pc |-> "none", worker |-> NoWorker, task |-> 0, run |-> 0,
                cause |-> "none", renewing |-> FALSE, renewErr |-> FALSE,
                result |-> "none"]

SchedulerInit ==
    /\ Init
    /\ loop = [w \in Worker |-> At("top")]
    /\ slots = [w \in Worker |-> 0]
    /\ active = [w \in Worker |-> [t \in TaskId |-> 0]]
    /\ runs = [n \in ClaimId |-> NoGoroutine]
    /\ stopped = [w \in Worker |-> FALSE]
    /\ clock = 1
    /\ faults = 0
    /\ abandoned = [leases |-> {}, commands |-> {}]

-----------------------------------------------------------------------------
(* Helpers. *)

Live(n) == runs[n].pc # "none"
LiveOn(w) == {n \in ClaimId : Live(n) /\ runs[n].worker = w}

\* localActiveRun: the active run of task t, if it is run `run'; else 0.
LocalRun(w, t, run) ==
    IF active[w][t] # 0 /\ runs[active[w][t]].run = run THEN active[w][t] ELSE 0

\* The contexts of the runs S are canceled; the first cause given stays.
Canceled(S, cause) ==
    [n \in ClaimId |-> IF n \in S /\ runs[n].pc \in {"running", "returned"}
                          /\ runs[n].cause = "none"
                       THEN [runs[n] EXCEPT !.cause = cause] ELSE runs[n]]

Goto(w, pc) == loop' = [loop EXCEPT ![w] = At(pc)]
Step(w, pc) == loop' = [loop EXCEPT ![w].pc = pc]

\* A store call whose context is canceled, made to a store that minds.
ContextError(w) == ContextStore /\ stopped[w]

-----------------------------------------------------------------------------
(* The polling loop: recovery. *)

\* recover, when its interval has passed: RecoverExpiredLeases ...
Sweep(w) ==
    /\ loop[w].pc = "top"
    /\ RecoverExpiredLeases(clock)
    /\ loop' = [loop EXCEPT ![w] = [At("cancelLost") EXCEPT !.now = clock, !.lost =
                  {[task |-> t, run |-> tasks[t].run.id] :
                      t \in {x \in TaskId : LeaseExpired(x, clock)}}]]
    /\ UNCHANGED <<commandVars, slots, active, runs, envVars>>

\* Variant: recovery forgets the commands.
CancelLostOnly(w) ==
    /\ loop[w].pc = "cancelLost"
    /\ runs' = Canceled({LocalRun(w, l.task, l.run) : l \in loop[w].lost}, "expired")
    /\ Goto(w, "commands")
    /\ UNCHANGED <<allVars, slots, active, envVars>>

\* ... then the local runs whose lease was taken away are canceled, and the
\* stale command claims are recovered.
CancelLost(w) ==
    /\ loop[w].pc = "cancelLost"
    /\ runs' = Canceled({LocalRun(w, l.task, l.run) : l \in loop[w].lost}, "expired")
    /\ RecoverClaimedCommands(loop[w].now - ClaimTimeout)
    /\ Goto(w, "commands")
    /\ UNCHANGED <<slots, active, envVars>>

SkipRecovery(w) ==
    /\ loop[w].pc = "top"
    /\ Goto(w, "commands")
    /\ UNCHANGED <<allVars, slots, active, runs, envVars>>

-----------------------------------------------------------------------------
(* The polling loop: commands. *)

\* processCommands asks for a command; without one, or when the bound on
\* claims is reached, it is dispatch's turn.
ClaimNextCommand(w) ==
    /\ loop[w].pc = "commands"
    /\ \/ /\ ~ContextError(w)
          /\ ClaimPendingCommand(w, clock)
          /\ IF nanos' = nanos
             THEN Goto(w, "dispatch")
             ELSE LET k == CHOOSE j \in CommandId : commands'[j].token = nanos'
                      c == commands'[k]
                  IN  loop' = [loop EXCEPT ![w] = [At("apply") EXCEPT !.cmd =
                                 [id |-> k, token |-> c.token, kind |-> c.kind,
                                  task |-> c.task, run |-> c.run]]]
       \/ nanos = MaxReadings /\ Goto(w, "dispatch") /\ UNCHANGED allVars
       \/ ContextError(w) /\ Goto(w, "drain") /\ UNCHANGED allVars
    /\ UNCHANGED <<slots, active, runs, envVars>>

\* applyCancelTask, applyAbortRun and applyRetryTask read the task.
ApplyCommand(w) ==
    LET cmd == loop[w].cmd
        task == tasks[cmd.task]
        pc == CASE cmd.kind = "cancel" /\ task.status = "pending" -> "cancelPending"
                [] cmd.kind = "cancel" /\ task.status = "running" -> "lease"
                [] cmd.kind = "abort" /\ task.status = "running"
                     /\ cmd.run \in {0, task.run.id} -> "local"
                [] cmd.kind = "retry" /\ task.status \in {"failed", "canceled"} -> "retry"
                [] OTHER -> "ack"
    IN  /\ loop[w].pc = "apply"
        /\ loop' = [loop EXCEPT ![w].pc = pc, ![w].now = clock,
                                ![w].run = IF pc \in {"lease", "local"} THEN task.run.id ELSE 0]
        /\ UNCHANGED <<allVars, slots, active, runs, envVars>>

\* GetLease, before the run is looked for here (cancel) or after (abort).
ReadLease(w) ==
    LET lease == leases[loop[w].cmd.task].token
    IN  /\ loop[w].pc = "lease"
        /\ loop' = [loop EXCEPT ![w].lease = lease,
                      ![w].pc = CASE lease = 0 -> "nack"
                                  [] lease # 0 /\ loop[w].cmd.kind = "cancel" -> "local"
                                  [] lease # 0 /\ loop[w].cmd.kind = "abort" -> "remote"]
        /\ UNCHANGED <<allVars, slots, active, runs, envVars>>

\* localActiveRun for the run that was read.  An abort that finds it here
\* only cancels its context.
FindRun(w) ==
    LET cmd == loop[w].cmd
        here == LocalRun(w, cmd.task, loop[w].run)
    IN  /\ loop[w].pc = "local"
        /\ \/ /\ cmd.kind = "abort" /\ here # 0
              /\ runs' = Canceled({here}, "abort")
              /\ Step(w, "ack")
           \/ /\ cmd.kind = "abort" /\ here = 0
              /\ Step(w, "lease") /\ UNCHANGED runs
           \/ /\ cmd.kind = "cancel"
              /\ loop' = [loop EXCEPT ![w].local = here,
                            ![w].pc = IF here # 0 THEN "cancelLocal" ELSE "remote"]
              /\ UNCHANGED runs
        /\ UNCHANGED <<allVars, slots, active, envVars>>

\* CancelTask with the token read (0: none), and what the loop makes of its
\* answer: not cancelable is as good as canceled, any other refusal is not.
CancelOrExplain(w, token) ==
    LET t == loop[w].cmd.task
        now == loop[w].now
    IN  \/ CancelTask(t, token, now) /\ Step(w, "ack")
        \/ /\ tasks[t].status \in {"completed", "failed", "canceled"}
           /\ Step(w, "ack") /\ UNCHANGED storeVars
        \/ /\ tasks[t].status \notin {"completed", "failed", "canceled"}
           /\ ~(tasks[t].status = "pending" /\ token = 0)
           /\ ~(tasks[t].status = "running" /\ LeaseLive(t, now) /\ leases[t].token = token)
           /\ Step(w, "nack") /\ UNCHANGED storeVars

CancelPendingTask(w) ==
    /\ loop[w].pc = "cancelPending"
    /\ CancelOrExplain(w, 0)
    /\ UNCHANGED <<commandVars, slots, active, runs, envVars>>

\* The task is canceled and then the context of the run found here.
CancelLocalRun(w) ==
    /\ loop[w].pc = "cancelLocal"
    /\ CancelOrExplain(w, loop[w].lease)
    /\ runs' = IF loop'[w].pc = "ack" THEN Canceled({loop[w].local}, "command") ELSE runs
    /\ UNCHANGED <<commandVars, slots, active, envVars>>

\* cancelRemoteRun needs a RunController, which may fail; then the task is
\* canceled or failed with the lease read before.
CancelRemoteRun(w) ==
    LET t == loop[w].cmd.task
        lease == loop[w].lease
    IN  /\ loop[w].pc = "remote"
        /\ \/ Step(w, "nack") /\ UNCHANGED storeVars
           \/ HasController /\ loop[w].cmd.kind = "cancel" /\ CancelOrExplain(w, lease)
           \/ /\ HasController /\ loop[w].cmd.kind = "abort"
              /\ \/ FailTask(t, lease, FALSE, clock) /\ Step(w, "ack")
                 \/ /\ ~LeaseValid(t, lease, clock)
                    /\ Step(w, IF Exists(t) THEN "ack" ELSE "nack")
                    /\ UNCHANGED storeVars
        /\ UNCHANGED <<commandVars, slots, active, runs, envVars>>

ApplyRetryTask(w) ==
    LET t == loop[w].cmd.task
    IN  /\ loop[w].pc = "retry"
        /\ \/ RetryTask(t) /\ Step(w, "ack")
           \/ /\ tasks[t].status \notin {"failed", "canceled"}
              /\ Step(w, IF Exists(t) THEN "ack" ELSE "nack")
              /\ UNCHANGED storeVars
        /\ UNCHANGED <<commandVars, slots, active, runs, envVars>>

\* HandleCommand; refused, the command is released like one that failed.
AckCommand(w) ==
    LET cmd == loop[w].cmd
    IN  /\ loop[w].pc = "ack"
        /\ \/ HandleCommand(cmd.id, cmd.token, w) /\ Goto(w, "commands")
           \/ ~ClaimHeld(cmd.id, cmd.token) /\ Step(w, "nack") /\ UNCHANGED allVars
        /\ UNCHANGED <<slots, active, runs, envVars>>

\* Variant: a command that failed is dropped without being released.
NackForgotten(w) ==
    /\ loop[w].pc = "nack"
    /\ Goto(w, "dispatch")
    /\ UNCHANGED <<allVars, slots, active, runs, envVars>>

\* ReleaseCommand; a claim that is no longer held is let go.
NackCommand(w) ==
    LET cmd == loop[w].cmd
    IN  /\ loop[w].pc = "nack"
        /\ \/ ReleaseCommand(cmd.id, cmd.token)
           \/ ~ClaimHeld(cmd.id, cmd.token) /\ UNCHANGED allVars
        /\ Goto(w, "dispatch")
        /\ UNCHANGED <<slots, active, runs, envVars>>

-----------------------------------------------------------------------------
(* The polling loop: dispatch. *)

\* tryAcquireSlot and the list of tasks that are active here.
AcquireSlot(w) ==
    /\ loop[w].pc = "dispatch"
    /\ IF slots[w] < MaxConcurrentRuns
       THEN /\ slots' = [slots EXCEPT ![w] = @ + 1]
            /\ loop' = [loop EXCEPT ![w] = [At("claim") EXCEPT !.exclude =
                          {t \in TaskId : active[w][t] # 0}]]
       ELSE Goto(w, "wait") /\ UNCHANGED slots
    /\ UNCHANGED <<allVars, active, runs, envVars>>

\* Variant: slots are never given back.
ReleaseSlotNever(w) == UNCHANGED slots

ReleaseSlot(w) == slots' = [slots EXCEPT ![w] = IF @ > 0 THEN @ - 1 ELSE @]

\* ClaimReadyTask.  Without a task, or when the bound on claims is reached,
\* the slot is given back.
ClaimForSlot(w) ==
    LET skip == loop[w].exclude
    IN  /\ loop[w].pc = "claim"
        /\ \/ /\ ~ContextError(w)
              /\ \E ttl \in TTLs : ClaimReadyTask(w, ttl, clock, skip)
              /\ IF claims' # claims
                 THEN /\ loop' = [loop EXCEPT ![w] = [At("start") EXCEPT !.claim = nextLease']]
                      /\ UNCHANGED slots
                 ELSE Goto(w, "wait") /\ ReleaseSlot(w)
           \/ /\ ~ContextError(w)
              /\ \/ nextLease = MaxClaims
                 \/ \A t \in TaskId : ~Claimable(t, skip, clock) /\ ~GivenUp(t, skip, clock)
              /\ Goto(w, "wait") /\ ReleaseSlot(w)
              /\ UNCHANGED storeVars
           \/ /\ ContextError(w)
              /\ Goto(w, "drain") /\ ReleaseSlot(w)
              /\ UNCHANGED storeVars
        /\ UNCHANGED <<commandVars, active, runs, envVars>>

\* The claim is run, unless another run of its task has been registered in
\* the meantime: then the lease is handed back and the loop tries again.
StartClaim(w) ==
    LET n == loop[w].claim
        claim == CHOOSE c \in claims : c.token = n
        t == claim.task
    IN  /\ loop[w].pc = "start"
        /\ \/ /\ active[w][t] # 0
              /\ \/ ReleaseLease(t, n)
                 \/ leases[t].token # n /\ UNCHANGED storeVars
              /\ ReleaseSlot(w)
              /\ UNCHANGED runs
           \/ /\ active[w][t] = 0
              /\ runs' = [runs EXCEPT ![n] = [NoGoroutine EXCEPT
                            !.pc = "starting", !.worker = w, !.task = t, !.run = claim.run]]
              /\ UNCHANGED <<storeVars, slots>>
        /\ Goto(w, "dispatch")
        /\ UNCHANGED <<commandVars, active, envVars>>

\* Variant: the loop does not look at its context.
PollForever(w) ==
    /\ loop[w].pc = "wait"
    /\ Goto(w, "top")
    /\ UNCHANGED <<allVars, slots, active, runs, envVars>>

\* The ticker or the canceled context; both ready, either is taken.
Poll(w) ==
    /\ loop[w].pc = "wait"
    /\ \/ Goto(w, "top")
       \/ stopped[w] /\ Goto(w, "drain")
    /\ UNCHANGED <<allVars, slots, active, runs, envVars>>

\* Run returns once its goroutines have: wg.Wait.
Drain(w) ==
    /\ loop[w].pc = "drain"
    /\ LiveOn(w) = {}
    /\ Goto(w, "down")
    /\ UNCHANGED <<allVars, slots, active, runs, envVars>>

-----------------------------------------------------------------------------
(* The goroutine of a claim: runClaim and renewLoop. *)

\* Variant: the run is not registered.
RegisterNothing(n) ==
    /\ runs[n].pc = "starting"
    /\ runs' = [runs EXCEPT ![n].pc = "running", ![n].renewing = TRUE,
                  ![n].cause = IF stopped[runs[n].worker] THEN "shutdown" ELSE "none"]
    /\ UNCHANGED <<allVars, loop, slots, active, envVars>>

\* registerActiveClaim, by task, whoever is registered for it.
Register(n) ==
    LET r == runs[n]
    IN  /\ r.pc = "starting"
        /\ runs' = [runs EXCEPT ![n].pc = "running", ![n].renewing = TRUE,
                      ![n].cause = IF stopped[r.worker] THEN "shutdown" ELSE "none"]
        /\ active' = [active EXCEPT ![r.worker][r.task] = n]
        /\ UNCHANGED <<allVars, loop, slots, envVars>>

\* renewLoop's ticker: RenewLease, whose failure cancels the run.
Renew(n) ==
    LET r == runs[n]
    IN  /\ r.renewing
        /\ \/ /\ ~(ContextStore /\ r.cause # "none")
              /\ \E ttl \in TTLs : RenewLease(r.task, n, ttl, clock)
              /\ UNCHANGED runs
           \/ /\ \/ ~(leases[r.task].token = n /\ LeaseLive(r.task, clock))
                 \/ ContextStore /\ r.cause # "none"
              /\ runs' = [Canceled({n}, "renewal") EXCEPT
                            ![n].renewErr = TRUE, ![n].renewing = FALSE]
              /\ UNCHANGED storeVars
        /\ UNCHANGED <<commandVars, loop, slots, active, envVars>>

\* renewLoop ends with the run's context or when the runner is back.
RenewExit(n) ==
    /\ runs[n].renewing
    /\ runs[n].cause # "none" \/ runs[n].pc = "returned"
    /\ runs' = [runs EXCEPT ![n].renewing = FALSE]
    /\ UNCHANGED <<allVars, loop, slots, active, envVars>>

\* RunTask returns, with the context's error only if there is one.
Return(n) ==
    /\ runs[n].pc = "running"
    /\ \E result \in {"ok", "retryable", "fatal", "canceled"} :
          /\ result = "canceled" => runs[n].cause # "none"
          /\ runs' = [runs EXCEPT ![n].pc = "returned", ![n].result = result]
    /\ UNCHANGED <<allVars, loop, slots, active, envVars>>

\* Variant: a canceled run is a failed run.
HandsBackNever(n) == FALSE

\* The run was stopped by the worker's own context and nothing else.
HandsBack(n) ==
    /\ ~runs[n].renewErr
    /\ runs[n].result = "canceled"
    /\ runs[n].cause = "shutdown"

\* Variant: the lease is left to expire.
HandBackNothing(n) == UNCHANGED storeVars

HandBack(n) ==
    \/ ReleaseLease(runs[n].task, n)
    \/ leases[runs[n].task].token # n /\ UNCHANGED storeVars

\* The runner and the renewal loop both succeeded.
Succeeded(n) == runs[n].result = "ok" /\ ~runs[n].renewErr

\* What runClaim tells the store when the runner is back; a lost lease makes
\* it a no-op.
Settle(n) ==
    LET r == runs[n]
    IN  /\ r.pc = "returned" /\ ~r.renewing
        /\ \/ HandsBack(n) /\ HandBack(n)
           \/ Succeeded(n) /\ CompleteTask(r.task, n, TRUE, clock)
           \/ /\ ~HandsBack(n) /\ ~Succeeded(n)
              /\ FailTask(r.task, n, r.result = "retryable", clock)
           \/ ~HandsBack(n) /\ ~LeaseValid(r.task, n, clock) /\ UNCHANGED storeVars
        /\ runs' = [runs EXCEPT ![n].pc = "leaving"]
        /\ UNCHANGED <<commandVars, loop, slots, active, envVars>>

\* The deferred calls: unregisterActiveClaim, by task, and releaseSlot.
Leave(n) ==
    LET r == runs[n]
    IN  /\ r.pc = "leaving"
        /\ active' = [active EXCEPT ![r.worker][r.task] = 0]
        /\ ReleaseSlot(r.worker)
        /\ runs' = [runs EXCEPT ![n] = NoGoroutine]
        /\ UNCHANGED <<allVars, loop, envVars>>

-----------------------------------------------------------------------------
(* The environment. *)

Client ==
    /\ \/ /\ \/ \E D \in SUBSET TaskId, limit \in AttemptLimits : CreateTask({}, D, limit)
             \/ \E t \in TaskId : DeleteTask(t)
          /\ UNCHANGED commandVars
       \/ \E kind \in Kind, t \in TaskId : CreateCommand(kind, t, 0)
    /\ UNCHANGED <<workerVars, envVars>>

Tick ==
    /\ clock < MaxTime
    /\ clock' = clock + 1
    /\ UNCHANGED <<allVars, workerVars, stopped, faults, abandoned>>

\* The context given to w's Run is canceled, and with it those of its runs.
Stop(w) ==
    /\ loop[w].pc # "down" /\ ~stopped[w]
    /\ faults < MaxFaults
    /\ faults' = faults + 1
    /\ stopped' = [stopped EXCEPT ![w] = TRUE]
    /\ runs' = Canceled(LiveOn(w), "shutdown")
    /\ UNCHANGED <<allVars, loop, slots, active, clock, abandoned>>

\* Worker w is killed.  Bound: while time is left for what it held to expire.
Crash(w) ==
    /\ loop[w].pc # "down"
    /\ faults < MaxFaults
    /\ \A d \in TTLs \cup {ClaimTimeout} : clock + d <= MaxTime
    /\ faults' = faults + 1
    /\ Goto(w, "down")
    /\ slots' = [slots EXCEPT ![w] = 0]
    /\ active' = [active EXCEPT ![w] = [t \in TaskId |-> 0]]
    /\ runs' = [n \in ClaimId |-> IF n \in LiveOn(w) THEN NoGoroutine ELSE runs[n]]
    /\ abandoned' = [leases |-> abandoned.leases \cup LiveOn(w) \cup {loop[w].claim},
                     commands |-> abandoned.commands \cup {loop[w].cmd.token}]
    /\ UNCHANGED <<allVars, stopped, clock>>

\* A new scheduler with w's id.
Start(w) ==
    /\ loop[w].pc = "down"
    /\ Goto(w, "top")
    /\ stopped' = [stopped EXCEPT ![w] = FALSE]
    /\ UNCHANGED <<allVars, slots, active, runs, clock, faults, abandoned>>

-----------------------------------------------------------------------------

LoopStep(w) ==
    \/ Sweep(w) \/ CancelLost(w) \/ SkipRecovery(w)
    \/ ClaimNextCommand(w) \/ ApplyCommand(w) \/ ReadLease(w) \/ FindRun(w)
    \/ CancelPendingTask(w) \/ CancelLocalRun(w) \/ CancelRemoteRun(w)
    \/ ApplyRetryTask(w) \/ AckCommand(w) \/ NackCommand(w)
    \/ AcquireSlot(w) \/ ClaimForSlot(w) \/ StartClaim(w)
    \/ Poll(w) \/ Drain(w)

SchedulerNext ==
    \/ \E w \in Worker : LoopStep(w) \/ Stop(w) \/ Crash(w) \/ Start(w)
    \/ \E n \in ClaimId : \/ Register(n) \/ Renew(n) \/ RenewExit(n)
                          \/ Return(n) \/ Settle(n) \/ Leave(n)
    \/ Client
    \/ Tick

\* Each process keeps running and time passes; runners return; recovery's
\* interval elapses again and again; and a select with a canceled context
\* ready takes it sooner or later.
SchedulerFairness ==
    /\ \A w \in Worker :
          /\ WF_schedulerVars(LoopStep(w))
          /\ SF_schedulerVars(Sweep(w))
          /\ SF_schedulerVars(Poll(w) /\ loop'[w].pc = "drain")
          /\ WF_schedulerVars(Start(w))
    /\ \A n \in ClaimId :
          /\ WF_schedulerVars(Register(n))
          /\ WF_schedulerVars(RenewExit(n))
          /\ WF_schedulerVars(Return(n))
          /\ WF_schedulerVars(Settle(n))
          /\ WF_schedulerVars(Leave(n))
    /\ WF_schedulerVars(Tick)

SchedulerSafety == SchedulerInit /\ [][SchedulerNext]_schedulerVars
SchedulerSpec == SchedulerSafety /\ SchedulerFairness

-----------------------------------------------------------------------------
(* Properties. *)

\* The slots taken are those of the goroutines and of the claim under way: no
\* path of dispatch or runClaim leaks one or gives one back twice.
SlotsAccountedFor ==
    \A w \in Worker :
        slots[w] = Cardinality(LiveOn(w)) + (IF loop[w].pc \in {"claim", "start"} THEN 1 ELSE 0)

\* The table of active runs names only goroutines that are there, under the
\* task they run: a cancel through the table never hits a finished run.  With
\* one slot the table is complete too: a run past its registration can always
\* be found by a command or by recovery.
RegistryIsExact ==
    /\ \A w \in Worker, t \in TaskId :
          active[w][t] # 0 =>
              /\ active[w][t] \in LiveOn(w)
              /\ runs[active[w][t]].task = t
              /\ runs[active[w][t]].pc # "starting"
    /\ MaxConcurrentRuns = 1 =>
          \A n \in ClaimId :
              runs[n].pc \notin {"none", "starting"} =>
                  active[runs[n].worker][runs[n].task] = n

\* A lease that has not expired has somebody working under it, or about to,
\* unless its worker was killed: no early return of dispatch or runClaim
\* leaves a task locked behind it.
LiveLeaseIsWorkedOn ==
    \A t \in TaskId :
        LeaseLive(t, clock) =>
            \/ runs[leases[t].token].pc \in {"starting", "running", "returned"}
            \/ \E w \in Worker : loop[w].pc = "start" /\ loop[w].claim = leases[t].token
            \/ leases[t].token \in abandoned.leases

\* A claimed command is in the hands of the loop that claimed it, unless that
\* worker was killed: no error path forgets to release it.
ClaimedCommandIsWorkedOn ==
    \A k \in CommandId :
        commands[k].status = "claimed" =>
            \/ \E w \in Worker : loop[w].cmd.id = k /\ loop[w].cmd.token = commands[k].token
            \/ commands[k].token \in abandoned.commands

\* A run that ends because its worker was shut down, while its lease is good,
\* goes back to pending with its attempt given back.
ShutdownRequeues ==
    [][\A n \in ClaimId :
          /\ runs[n].pc = "returned" /\ runs'[n].pc = "leaving"
          /\ runs[n].result = "canceled" /\ runs[n].cause = "shutdown"
          /\ LeaseValid(runs[n].task, n, clock)
          => /\ tasks'[runs[n].task].status = "pending"
             /\ tasks'[runs[n].task].attempt = tasks[runs[n].task].attempt - 1]_schedulerVars

\* An abort fails the run it was aimed at and no other.
AbortFailsOnlyItsRun ==
    [][\A w \in Worker :
          LET t == loop[w].cmd.task IN
          /\ loop[w].pc = "remote" /\ loop[w].cmd.kind = "abort"
          /\ tasks[t].status = "running" /\ tasks'[t].status = "failed"
          => tasks[t].run.id = loop[w].cmd.run]_schedulerVars

\* Every task is finished or deleted in the end, whatever crashes, shutdowns,
\* expiries and failures come in between (the bounds on claims permitting).
TasksSettle ==
    \A t \in TaskId :
        Exists(t) /\ ~Blocked(t) ~> \/ tasks[t].status \in {"absent", "completed", "failed", "canceled"}
                                   \/ nextLease = MaxClaims

\* Every command is acknowledged in the end, even when the worker it was
\* addressed to dies with it (the bound on command claims permitting).
CommandsGetHandled ==
    \A k \in CommandId :
        commands[k].status \in {"pending", "claimed"} ~>
            commands[k].status = "handled" \/ nanos = MaxReadings

\* A canceled context ends Run, with all its goroutines.
ShutdownCompletes == \A w \in Worker : stopped[w] ~> loop[w].pc = "down"
=============================================================================
