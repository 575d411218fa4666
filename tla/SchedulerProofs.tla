-------------------------- MODULE SchedulerProofs --------------------------
(***************************************************************************)
(* The safety properties of Scheduler, for any number of workers, slots,   *)
(* tasks, commands, claims, instants and faults; and that the scheduler    *)
(* uses the store as the store's own specification allows, so that every   *)
(* theorem about the store holds under it.                                 *)
(***************************************************************************)
EXTENDS SchedulerStepProofs, FiniteSetTheorems

-----------------------------------------------------------------------------
(* The loop: dispatch. *)

\* The goroutines of a worker can be counted.
LEMMA LiveOnFinite ==
  ASSUME NEW w \in Worker
  PROVE  /\ IsFiniteSet(LiveOn(w)) /\ Cardinality(LiveOn(w)) \in Nat
         /\ IsFiniteSet(LiveOn(w))' /\ Cardinality(LiveOn(w))' \in Nat
  <1>1. IsFiniteSet(ClaimId)
    BY FS_Interval, StoreConstants DEF ClaimId
  <1>2. LiveOn(w) \in SUBSET ClaimId /\ LiveOn(w)' \in SUBSET ClaimId
    BY Zenon DEF LiveOn
  <1>3. IsFiniteSet(LiveOn(w)) /\ IsFiniteSet(LiveOn(w)')
    BY <1>1, <1>2, FS_Subset, Zenon
  <1>4. Cardinality(LiveOn(w)) \in Nat /\ Cardinality(LiveOn(w)') \in Nat
    BY <1>3, FS_CardinalityType, Zenon
  <1> QED
    BY <1>3, <1>4, Zenon

LEMMA AcquireSlotKeeps ==
  ASSUME WorkersInv, NEW w \in Worker, AcquireSlot(w)
  PROVE  Kept
  <1> DEFINE m == [At("claim") EXCEPT !.exclude = {t \in TaskId : active[w][t] # 0}]
  <1>1. /\ loop[w].pc = "dispatch" /\ UNCHANGED allVars /\ UNCHANGED <<active, runs, clock, abandoned>>
        /\ loop[w].pc \notin Handling \cup Dispatching
    BY Zenon DEF AcquireSlot, envVars, Handling, Dispatching
  <1>2. CASE Goto(w, "wait") /\ UNCHANGED slots
    BY <1>1, <1>2, GotoKeeps, Zenon
  <1>3. CASE /\ slots[w] < MaxConcurrentRuns
             /\ slots' = [slots EXCEPT ![w] = @ + 1]
             /\ loop' = [loop EXCEPT ![w] = m]
    <2>1. StoreFacts' /\ StoreGrows
      BY <1>1, StoreFactsStep, Zenon DEF WorkersInv
    <2>2. m \in LoopRecord /\ m.pc = "claim" /\ m.cmd.id = 0
      <3>1. "claim" \in LoopPc /\ {t \in TaskId : active[w][t] # 0} \in SUBSET TaskId
        BY Zenon DEF LoopPc
      <3>2. At("claim") \in LoopRecord /\ At("claim").pc = "claim" /\ At("claim").cmd.id = 0
        BY <3>1, AtFields, Zenon
      <3> QED
        BY <3>1, <3>2, Zenon DEF LoopRecord
    <2>3. loop' = [loop EXCEPT ![w] = m]
      BY <1>3, Zenon
    <2> HIDE DEF m
    <2>4. loop'[w] = m /\ loop' = [loop EXCEPT ![w] = loop'[w]]
      BY <2>3, Zenon DEF WorkersInv, SchedulerTypeOK
    <2>5. LoopOK(w, loop[w])'
      BY <2>2, <2>4, Zenon DEF LoopOK, Handling
    <2>6. /\ loop' \in [Worker -> LoopRecord] /\ LoopsOK'
          /\ \A v \in Worker : v # w => loop'[v] = loop[v]
      BY <2>1, <2>2, <2>4, <2>5, OneLoop, Zenon DEF LoopMoves
    <2>7. /\ RunsOK' /\ \A v \in Worker : LiveOn(v)' = LiveOn(v)
          /\ \A n : Live(n)' <=> Live(n)
      BY <1>1, <2>1, RunsAlone, Zenon
    <2>8. /\ slots \in [Worker -> Nat] /\ slots' \in [Worker -> Nat]
          /\ slots'[w] = slots[w] + 1 /\ \A v \in Worker : v # w => slots'[v] = slots[v]
      BY <1>3 DEF WorkersInv, SchedulerTypeOK
    <2>9. SchedulerTypeOK'
      BY <1>1, <2>6, <2>8, Zenon DEF WorkersInv, SchedulerTypeOK
    <2>10. StartsFresh'
      BY <2>2, <2>4, <2>6, <2>7, Zenon DEF WorkersInv, StartsFresh
    <2>11. SlotsBounded'
      BY <1>3, <2>8, SchedulerConstants, SMTT(30) DEF WorkersInv, SlotsBounded
    <2>12. SlotsAccountedFor'
      <3>1. slots[w] = Cardinality(LiveOn(w)) + 0
        BY <1>1, Zenon DEF WorkersInv, SlotsAccountedFor
      <3>2. Cardinality(LiveOn(w)) \in Nat
        BY LiveOnFinite, Zenon
      <3>3. slots'[w] = Cardinality(LiveOn(w)) + 1
        BY <2>8, <3>1, <3>2, SMTT(30)
      <3> QED
        BY <2>2, <2>4, <2>6, <2>7, <2>8, <3>3, Zenon DEF WorkersInv, SlotsAccountedFor
    <2>13. RegistryIsExact'
      BY <1>1, <2>7, ZenonT(40) DEF WorkersInv, RegistryIsExact
    <2>14. leases' = leases /\ commands' = commands
      BY <1>1, Zenon DEF allVars, storeVars, commandVars
    <2>15. LiveLeaseIsWorkedOn'
      <3>1. \A v \in Worker : loop[v].pc = "start" => loop'[v] = loop[v]
        BY <1>1, <2>6, Zenon
      <3>2. \A t \in TaskId : LeaseLive(t, clock)' <=> LeaseLive(t, clock)
        BY <1>1, <2>14, Zenon DEF LeaseLive, HasLease
      <3> QED
        BY <1>1, <2>14, <3>1, <3>2, Zenon DEF WorkersInv, LiveLeaseIsWorkedOn
    <2>16. ClaimedCommandIsWorkedOn'
      <3>1. loop[w].cmd.id = 0
        BY <1>1, Zenon DEF WorkersInv, LoopsOK, LoopOK
      <3>2. \A k \in CommandId : k # 0
        BY DEF CommandId
      <3> QED
        BY <1>1, <2>6, <2>14, <3>1, <3>2, Zenon DEF WorkersInv, ClaimedCommandIsWorkedOn
    <2> QED
      BY <1>1, <2>1, <2>6, <2>7, <2>9, <2>10, <2>11, <2>12, <2>13, <2>15, <2>16, Zenon DEF WorkersInv, Kept
  <1> QED
    BY <1>2, <1>3, Zenon DEF AcquireSlot

\* Dispatch gives its slot back: there is no task, or the claim is not started
\* and no lease is left behind it.
LEMMA GiveSlotBackKeeps ==
  ASSUME WorkersInv, NEW w \in Worker, loop[w].pc \in Dispatching,
         (StoreNext /\ StopStep) \/ UNCHANGED storeVars, UNCHANGED commandVars,
         NEW pc \in {"wait", "drain", "dispatch"}, Goto(w, pc), ReleaseSlot(w),
         UNCHANGED <<active, runs, envVars>>,
         loop[w].pc = "start" =>
            \A t \in TaskId : LeaseLive(t, clock)' => leases[t].token # loop[w].claim
  PROVE  Kept
  <1>1. UNCHANGED <<active, runs, clock, abandoned>> /\ commands' = commands
    BY Zenon DEF envVars, commandVars
  <1>2. StoreFacts' /\ StoreGrows
    <2>1. Next \/ UNCHANGED allVars
      BY Zenon DEF Next, allVars
    <2> QED
      BY <2>1, StoreFactsStep, Zenon DEF WorkersInv
  <1>3. LoopMoves(w) /\ loop'[w].pc = pc
    BY GotoMoves, Zenon DEF LoopPc, Handling
  <1>4. /\ loop' \in [Worker -> LoopRecord] /\ LoopsOK'
        /\ \A v \in Worker : v # w => loop'[v] = loop[v]
    BY <1>2, <1>3, OneLoop, Zenon
  <1>5. /\ RunsOK' /\ \A v \in Worker : LiveOn(v)' = LiveOn(v)
        /\ \A n : Live(n)' <=> Live(n)
    BY <1>1, <1>2, RunsAlone, Zenon
  <1>6. slots \in [Worker -> Nat] /\ Cardinality(LiveOn(w)) \in Nat
        /\ slots[w] = Cardinality(LiveOn(w)) + 1
    BY LiveOnFinite, Zenon DEF WorkersInv, SchedulerTypeOK, SlotsAccountedFor, Dispatching
  <1>7. /\ slots' \in [Worker -> Nat] /\ slots'[w] = Cardinality(LiveOn(w))
        /\ slots'[w] <= slots[w]
        /\ \A v \in Worker : v # w => slots'[v] = slots[v]
    BY <1>6 DEF ReleaseSlot
  <1>8. SchedulerTypeOK'
    BY <1>1, <1>4, <1>7, Zenon DEF WorkersInv, SchedulerTypeOK
  <1>9. StartsFresh'
    BY <1>3, <1>4, <1>5, ZenonT(40) DEF WorkersInv, StartsFresh
  <1>10. SlotsBounded'
    BY <1>6, <1>7, SchedulerConstants, SMTT(30) DEF WorkersInv, SlotsBounded
  <1>11. SlotsAccountedFor'
    BY <1>3, <1>4, <1>5, <1>6, <1>7, SMTT(30) DEF WorkersInv, SlotsAccountedFor
  <1>12. RegistryIsExact'
    BY <1>1, <1>5, SMTT(30) DEF WorkersInv, RegistryIsExact
  <1>13. LiveLeaseIsWorkedOn'
    <2>1. LeasesSteady
      BY <1>1, NoNewLease, SameRunsKeep, Zenon
    <2> SUFFICES ASSUME NEW t \in TaskId, LeaseLive(t, clock)'
                 PROVE  \/ runs'[leases'[t].token].pc \in AtWork
                        \/ \E v \in Worker : loop'[v].pc = "start" /\ loop'[v].claim = leases'[t].token
                        \/ leases'[t].token \in abandoned'.leases
      BY Zenon DEF LiveLeaseIsWorkedOn, AtWork
    <2>2. LeaseLive(t, clock) /\ leases'[t].token = leases[t].token
      BY <2>1, Zenon DEF LeasesSteady
    <2>3. \/ runs[leases[t].token].pc \in AtWork
          \/ \E v \in Worker : loop[v].pc = "start" /\ loop[v].claim = leases[t].token
          \/ leases[t].token \in abandoned.leases
      BY <2>2, Zenon DEF WorkersInv, LiveLeaseIsWorkedOn, AtWork
    <2> QED
      BY <1>1, <1>4, <2>2, <2>3, Zenon
  <1>14. ClaimedCommandIsWorkedOn'
    <2>1. loop[w].cmd.id = 0
      BY Zenon DEF WorkersInv, LoopsOK, LoopOK, Dispatching, Handling
    <2>2. \A k \in CommandId : k # 0
      BY DEF CommandId
    <2> QED
      BY <1>1, <1>4, <2>1, <2>2, Zenon DEF WorkersInv, ClaimedCommandIsWorkedOn
  <1> QED
    BY <1>2, <1>4, <1>5, <1>8, <1>9, <1>10, <1>11, <1>12, <1>13, <1>14, Zenon
       DEF WorkersInv, Kept, Next, allVars

LEMMA ClaimForSlotKeeps ==
  ASSUME WorkersInv, NEW w \in Worker, ClaimForSlot(w)
  PROVE  Kept
  <1>1. /\ loop[w].pc = "claim" /\ loop[w].pc \in Dispatching /\ UNCHANGED commandVars
        /\ UNCHANGED <<active, runs, envVars>>
    BY Zenon DEF ClaimForSlot, Dispatching
  <1>2. ASSUME NEW pc \in {"wait", "drain"}, Goto(w, pc), ReleaseSlot(w),
               (StoreNext /\ StopStep) \/ UNCHANGED storeVars
        PROVE  Kept
    BY <1>1, <1>2, GiveSlotBackKeeps, Zenon
  <1>3. ASSUME NEW ttl \in TTLs, ClaimReadyTask(w, ttl, clock, loop[w].exclude),
               IF claims' # claims
               THEN /\ loop' = [loop EXCEPT ![w] = [At("start") EXCEPT !.claim = nextLease']]
                    /\ UNCHANGED slots
               ELSE Goto(w, "wait") /\ ReleaseSlot(w)
        PROVE  Kept
    <2>1. PICK now \in Time, skip \in SUBSET TaskId : now = clock /\ skip = loop[w].exclude
      BY Zenon DEF WorkersInv, SchedulerTypeOK, LoopRecord
    <2>2. ClaimReadyTask(w, ttl, now, skip)
      BY <1>3, <2>1, ZenonT(40) DEF ClaimReadyTask, Grant, GiveUp, Claimable, GivenUp, PassedOver, LeaseLive
    <2>3. StoreNext
      BY <2>2, Zenon DEF StoreNext
    <2>a. CoreInv
      BY CoreOfStore, Zenon DEF WorkersInv, StoreFacts, CommandInv
    <2>4. GrantStep \/ StopStep
      BY <2>2, <2>a, ClaimReadyTaskKind, Zenon
    <2>5. CASE claims' = claims
      <3>1. ~GrantStep
        <4> SUFFICES ASSUME GrantStep PROVE FALSE
          OBVIOUS
        <4>1. PICK t \in TaskId, x \in Worker, d \in TTLs, i \in Time, given \in SUBSET TaskId :
                Grant(t, x, d, i, given)
          BY Zenon DEF GrantStep
        <4> DEFINE new == [task |-> t, token |-> nextLease + 1, run |-> nextRun + 1,
                           attempt |-> tasks[t].attempt + 1, worker |-> x,
                           blockedBy |-> tasks[t].blockedBy]
        <4>2. new \in claims' /\ new.token = nextLease + 1
          BY <4>1, Zenon DEF Grant
        <4> HIDE DEF new
        <4>3. \A c \in claims : c.token \in 1..nextLease /\ nextLease \in Nat
          BY Zenon DEF WorkersInv, StoreFacts, CommandInv, StoreInv, TypeOK
        <4> QED
          BY <2>5, <4>2, <4>3, SMTT(30)
      <3> QED
        BY <1>2, <1>3, <2>3, <2>4, <2>5, <3>1, Zenon
    <2>6. CASE claims' # claims
      <3>1. PICK u \in TaskId, given \in SUBSET TaskId : Grant(u, w, ttl, now, given)
        BY <2>2, <2>6, Zenon DEF ClaimReadyTask, GiveUp
      <3> QED
        BY <1>1, <1>3, <2>3, <2>6, <3>1, GrantedKeeps, Zenon
    <2> QED
      BY <2>5, <2>6, Zenon
  <1> QED
    BY <1>2, <1>3, Zenon DEF ClaimForSlot

\* The claim is started: its goroutine takes over the slot and the lease.
LEMMA StartRunKeeps ==
  ASSUME WorkersInv, NEW w \in Worker, loop[w].pc = "start", NEW c \in claims,
         c.token = loop[w].claim, c.worker = w, c.token \in ClaimId, c.task \in TaskId, c.run \in Nat,
         runs' = [runs EXCEPT ![c.token] = [NoGoroutine EXCEPT
                    !.pc = "starting", !.worker = w, !.task = c.task, !.run = c.run]],
         UNCHANGED storeVars, UNCHANGED commandVars, Goto(w, "dispatch"),
         UNCHANGED <<slots, active, envVars>>
  PROVE  Kept
  <1> DEFINE r == [NoGoroutine EXCEPT
                    !.pc = "starting", !.worker = w, !.task = c.task, !.run = c.run]
  <1>1. PICK n \in ClaimId : n = c.token
    OBVIOUS
  <1>2. /\ r \in Goroutine /\ r.pc = "starting" /\ r.worker = w /\ r.task = c.task
        /\ r.renewing = FALSE
    <2>1. NoGoroutine \in Goroutine /\ NoGoroutine.renewing = FALSE
      BY Zenon DEF NoGoroutine, Goroutine, Cause
    <2>2. c.task \in Nat
      BY DEF TaskId
    <2> QED
      BY <2>1, <2>2, Zenon DEF Goroutine
  <1>3. runs' = [runs EXCEPT ![n] = r]
    BY <1>1, Zenon
  <1> HIDE DEF r
  <1>4. runs \in [ClaimId -> Goroutine]
    BY Zenon DEF WorkersInv, SchedulerTypeOK
  <1>5. /\ runs' \in [ClaimId -> Goroutine] /\ runs'[n] = r
        /\ \A m \in ClaimId : m # n => runs'[m] = runs[m]
    BY <1>2, <1>3, <1>4, Zenon
  <1>6. UNCHANGED <<slots, active, clock, abandoned, leases, claims>> /\ commands' = commands
    BY Zenon DEF envVars, commandVars, storeVars
  <1>7. StoreFacts' /\ StoreGrows
    <2>1. UNCHANGED allVars
      BY Zenon DEF allVars
    <2> QED
      BY <2>1, StoreFactsStep, Zenon DEF WorkersInv
  <1>8. LoopMoves(w) /\ loop'[w].pc = "dispatch"
    BY GotoMoves, Zenon DEF LoopPc, Handling
  <1>9. /\ loop' \in [Worker -> LoopRecord] /\ LoopsOK'
        /\ \A v \in Worker : v # w => loop'[v] = loop[v]
    BY <1>7, <1>8, OneLoop, Zenon
  <1>10. SchedulerTypeOK'
    BY <1>5, <1>6, <1>9, Zenon DEF WorkersInv, SchedulerTypeOK
  <1>11. RunsOK'
    <2> SUFFICES ASSUME NEW m \in ClaimId PROVE RunOK(m, runs[m])'
      BY Zenon DEF RunsOK
    <2>1. CASE m = n
      BY <1>1, <1>2, <1>5, <1>6, <2>1, Zenon DEF RunOK
    <2>2. CASE m # n
      <3>1. RunOK(m, runs[m]) /\ runs'[m] = runs[m]
        BY <1>5, <2>2, Zenon DEF WorkersInv, RunsOK
      <3> QED
        BY <1>6, <3>1, Zenon DEF RunOK
    <2> QED
      BY <2>1, <2>2, Zenon
  <1>12. ~Live(n)
    BY <1>1, Zenon DEF WorkersInv, StartsFresh, Live
  <1>13. \A v \in Worker : v # w => LiveOn(v)' = LiveOn(v)
    BY <1>2, <1>5, <1>12, Zenon DEF LiveOn, Live
  <1>14. LiveOn(w)' = LiveOn(w) \cup {n} /\ n \notin LiveOn(w)
    BY <1>2, <1>5, <1>12, Zenon DEF LiveOn, Live
  <1>15. StartsFresh'
    <2> SUFFICES ASSUME NEW v \in Worker, loop'[v].pc = "start" PROVE ~Live(loop[v].claim)'
      BY Zenon DEF StartsFresh
    <2>1. v # w /\ loop'[v] = loop[v] /\ loop[v].pc = "start"
      BY <1>8, <1>9, Zenon
    <2>2. PICK d \in claims : d.token = loop[v].claim /\ d.worker = v
      BY <2>1, Zenon DEF WorkersInv, LoopsOK, LoopOK
    <2>3. loop[v].claim # n
      BY <1>1, <2>1, <2>2, Zenon DEF WorkersInv, StoreFacts, TokensAreUnique
    <2>4. loop[v].claim \in ClaimId /\ ~Live(loop[v].claim)
      BY <2>1, <2>2, TokensAreClaimIds, Zenon DEF WorkersInv, StartsFresh
    <2> QED
      BY <1>5, <2>1, <2>3, <2>4, Zenon DEF Live
  <1>16. SlotsBounded'
    BY <1>6, Zenon DEF WorkersInv, SlotsBounded
  <1>17. SlotsAccountedFor'
    <2>1. slots[w] = Cardinality(LiveOn(w)) + 1 /\ IsFiniteSet(LiveOn(w)) /\ Cardinality(LiveOn(w)) \in Nat
      BY LiveOnFinite, Zenon DEF WorkersInv, SlotsAccountedFor
    <2>2. Cardinality(LiveOn(w) \cup {n}) = Cardinality(LiveOn(w)) + 1
      BY <1>14, <2>1, FS_AddElement, Zenon
    <2>3. slots'[w] = Cardinality(LiveOn(w))' + 0
      BY <1>6, <1>14, <2>1, <2>2, SMTT(30)
    <2> QED
      BY <1>6, <1>8, <1>9, <1>13, <2>3, Zenon DEF WorkersInv, SlotsAccountedFor
  <1>18. RegistryIsExact'
    <2>1. ASSUME NEW v \in Worker, NEW t \in TaskId, active'[v][t] # 0
          PROVE  /\ active'[v][t] \in LiveOn(v)'
                 /\ runs'[active'[v][t]].task = t
                 /\ runs'[active'[v][t]].pc # "starting"
      <3>1. /\ active[v][t] \in LiveOn(v) /\ runs[active[v][t]].task = t
            /\ runs[active[v][t]].pc # "starting"
        BY <1>6, <2>1, SMTT(30) DEF WorkersInv, RegistryIsExact
      <3>2. active[v][t] \in ClaimId /\ active[v][t] # n
        BY <1>12, <3>1, ZenonT(40) DEF LiveOn
      <3> QED
        BY <1>5, <1>6, <1>13, <1>14, <3>1, <3>2, Zenon
    <2>2. ASSUME MaxConcurrentRuns = 1, NEW m \in ClaimId, runs'[m].pc \notin {"none", "starting"}
          PROVE  active'[runs'[m].worker][runs'[m].task] = m
      BY <1>2, <1>5, <1>6, <2>2, SMTT(30) DEF WorkersInv, RegistryIsExact
    <2> QED
      BY <2>1, <2>2, Zenon DEF RegistryIsExact
  <1>19. LiveLeaseIsWorkedOn'
    <2> SUFFICES ASSUME NEW t \in TaskId, LeaseLive(t, clock)'
                 PROVE  \/ runs'[leases'[t].token].pc \in AtWork
                        \/ \E v \in Worker : loop'[v].pc = "start" /\ loop'[v].claim = leases'[t].token
                        \/ leases'[t].token \in abandoned'.leases
      BY Zenon DEF LiveLeaseIsWorkedOn, AtWork
    <2>1. LeaseLive(t, clock)
      BY <1>6, Zenon DEF LeaseLive, HasLease
    <2>2. \/ runs[leases[t].token].pc \in AtWork
          \/ \E v \in Worker : loop[v].pc = "start" /\ loop[v].claim = leases[t].token
          \/ leases[t].token \in abandoned.leases
      BY <2>1, Zenon DEF WorkersInv, LiveLeaseIsWorkedOn, AtWork
    <2>3. leases[t].token \in ClaimId
      BY <2>1, TokensAreClaimIds, Zenon DEF LeaseLive, WorkersInv
    <2>4. CASE leases[t].token = n
      BY <1>2, <1>5, <1>6, <2>4, Zenon DEF AtWork
    <2>5. CASE leases[t].token # n
      BY <1>1, <1>5, <1>6, <1>9, <2>2, <2>3, <2>5, Zenon
    <2> QED
      BY <2>4, <2>5, Zenon
  <1>20. ClaimedCommandIsWorkedOn'
    <2>1. loop[w].cmd.id = 0
      BY Zenon DEF WorkersInv, LoopsOK, LoopOK, Handling
    <2>2. \A k \in CommandId : k # 0
      BY DEF CommandId
    <2> QED
      BY <1>6, <1>9, <2>1, <2>2, SMTT(30) DEF WorkersInv, ClaimedCommandIsWorkedOn
  <1> QED
    BY <1>7, <1>9, <1>10, <1>11, <1>15, <1>16, <1>17, <1>18, <1>19, <1>20, Zenon
       DEF WorkersInv, Kept, allVars

LEMMA StartClaimKeeps ==
  ASSUME WorkersInv, NEW w \in Worker, StartClaim(w)
  PROVE  Kept
  <1>1. /\ loop[w].pc = "start" /\ Goto(w, "dispatch") /\ UNCHANGED commandVars
        /\ UNCHANGED <<active, envVars>>
    BY Zenon DEF StartClaim
  <1>2. PICK c \in claims :
            /\ c = CHOOSE x \in claims : x.token = loop[w].claim
            /\ c.token = loop[w].claim /\ c.worker = w
            /\ c.token \in ClaimId /\ c.task \in TaskId /\ c.run \in Nat
            /\ \A x \in claims : x.token = c.token => x = c
    BY <1>1, ClaimToStart, Zenon
  <1>3. PICK t \in TaskId, n \in ClaimId : t = c.task /\ n = c.token
    BY <1>2, Zenon
  <1>4. \/ /\ ReleaseLease(t, n) \/ (leases[t].token # n /\ UNCHANGED storeVars)
           /\ ReleaseSlot(w) /\ UNCHANGED runs
        \/ /\ runs' = [runs EXCEPT ![c.token] = [NoGoroutine EXCEPT
                         !.pc = "starting", !.worker = w, !.task = c.task, !.run = c.run]]
           /\ UNCHANGED storeVars /\ UNCHANGED slots
    BY <1>2, <1>3, Zenon DEF StartClaim, ReleaseLease, HasLease, Requeue, DropLease
  <1>5. CASE ReleaseSlot(w) /\ UNCHANGED runs
             /\ (ReleaseLease(t, n) \/ (leases[t].token # n /\ UNCHANGED storeVars))
    <2>1. Given(t, n)
      BY <1>2, <1>3, Zenon DEF Given
    <2>2. (StoreNext /\ StopStep) \/ UNCHANGED storeVars
      BY <1>5, <2>1, ReleaseIsStoreStep, Zenon DEF WorkersInv
    <2>3. ASSUME NEW u \in TaskId, LeaseLive(u, clock)', leases[u].token = n PROVE FALSE
      <3>1. HasLease(u)
        BY <1>3, <2>3, StoreConstants, SMTT(30) DEF HasLease, ClaimId
      <3>2. u = t
        BY <2>1, <2>3, <3>1, OwnLease, Zenon DEF WorkersInv
      <3>3. ReleaseLease(t, n)
        BY <1>5, <2>3, <3>2, ZenonT(40)
      <3>4. leases \in [TaskId -> Lease]
        BY Zenon DEF WorkersInv, StoreFacts, CommandInv, StoreInv, TypeOK
      <3>5. leases'[t] = NoLease
        BY <3>3, <3>4, Zenon DEF ReleaseLease, Requeue, DropLease
      <3> QED
        BY <2>3, <3>2, <3>5, SMTT(30) DEF LeaseLive, HasLease, NoLease
    <2>4. loop[w].pc \in Dispatching
      BY <1>1, Zenon DEF Dispatching
    <2> QED
      BY <1>1, <1>2, <1>3, <1>5, <2>2, <2>3, <2>4, GiveSlotBackKeeps, Zenon
  <1>6. CASE /\ runs' = [runs EXCEPT ![c.token] = [NoGoroutine EXCEPT
                           !.pc = "starting", !.worker = w, !.task = c.task, !.run = c.run]]
             /\ UNCHANGED storeVars /\ UNCHANGED slots
    BY <1>1, <1>2, <1>6, StartRunKeeps, Zenon
  <1> QED
    BY <1>4, <1>5, <1>6, Zenon

-----------------------------------------------------------------------------
(* The goroutine of a claim. *)

\* With one slot a worker has one goroutine.
LEMMA OneRun ==
  ASSUME WorkersInv, MaxConcurrentRuns = 1, NEW w \in Worker,
         NEW m \in LiveOn(w), NEW n \in LiveOn(w)
  PROVE  m = n
  <1> DEFINE S == LiveOn(w)
  <1>1. IsFiniteSet(S) /\ Cardinality(S) \in Nat
    BY LiveOnFinite, Zenon
  <1>2. Cardinality(S) <= 1
    BY <1>1 DEF WorkersInv, SlotsBounded, SlotsAccountedFor
  <1>3. m \in S /\ n \in S
    OBVIOUS
  <1> HIDE DEF S
  <1>4. IsFiniteSet(S \ {m}) /\ Cardinality(S \ {m}) = Cardinality(S) - 1
    BY <1>1, <1>3, FS_RemoveElement, Zenon
  <1>5. Cardinality(S \ {m}) \in Nat
    BY <1>4, FS_CardinalityType, Zenon
  <1>6. Cardinality(S \ {m}) = 0
    BY <1>1, <1>2, <1>4, <1>5, SMTT(30)
  <1>7. S \ {m} = {}
    BY <1>4, <1>6, FS_EmptySet, Zenon
  <1> QED
    BY <1>3, <1>7, Zenon

LEMMA RegisterKeeps ==
  ASSUME WorkersInv, NEW n \in ClaimId, Register(n)
  PROVE  Kept
  <1>1. /\ runs[n].pc = "starting" /\ UNCHANGED allVars /\ UNCHANGED <<loop, slots, envVars>>
        /\ UNCHANGED <<clock, abandoned>>
    BY Zenon DEF Register, envVars
  <1>2. runs[n] \in Goroutine /\ runs[n].worker \in Worker /\ runs[n].task \in TaskId
    BY <1>1, RunFacts, Zenon DEF Live
  <1>3. PICK w \in Worker, u \in TaskId, cause \in Cause :
          /\ w = runs[n].worker /\ u = runs[n].task
          /\ cause = IF stopped[w] THEN "shutdown" ELSE "none"
    BY <1>2, Zenon DEF Cause
  <1> DEFINE r == [runs[n] EXCEPT !.pc = "running", !.renewing = TRUE, !.cause = cause]
  <1>4. r \in Goroutine /\ r.pc = "running" /\ r.worker = w /\ r.task = u
    BY <1>2, <1>3, Zenon DEF Goroutine
  <1>5. runs \in [ClaimId -> Goroutine] /\ active \in [Worker -> [TaskId -> Nat]] /\ n \in Nat
    BY DEF WorkersInv, SchedulerTypeOK, ClaimId
  <1>6. runs' = [runs EXCEPT ![n] = r]
    BY <1>3, <1>5, Zenon DEF Register
  <1>7. active' = [active EXCEPT ![w] = [active[w] EXCEPT ![u] = n]]
    BY <1>3, <1>5, Zenon DEF Register
  <1> HIDE DEF r
  <1>8. /\ runs' \in [ClaimId -> Goroutine] /\ runs'[n] = r
        /\ \A m \in ClaimId : m # n => runs'[m] = runs[m]
    BY <1>4, <1>5, <1>6, Zenon
  <1>9. /\ active' \in [Worker -> [TaskId -> Nat]] /\ active'[w][u] = n
        /\ \A v \in Worker, t \in TaskId : v # w \/ t # u => active'[v][t] = active[v][t]
    BY <1>5, <1>7, Zenon
  <1>10. StoreFacts' /\ LoopsOK' /\ ClaimedCommandIsWorkedOn' /\ leases' = leases /\ claims' = claims
    BY <1>1, LoopsAlone, Zenon
  <1>11. SchedulerTypeOK'
    BY <1>1, <1>8, <1>9, Zenon DEF WorkersInv, SchedulerTypeOK
  <1>12. RunsOK'
    <2> SUFFICES ASSUME NEW m \in ClaimId PROVE RunOK(m, runs[m])'
      BY Zenon DEF RunsOK
    <2>1. RunOK(m, runs[m])
      BY Zenon DEF WorkersInv, RunsOK
    <2>2. CASE m = n
      BY <1>1, <1>3, <1>4, <1>8, <1>10, <2>1, <2>2, Zenon DEF RunOK
    <2>3. CASE m # n
      BY <1>8, <1>10, <2>1, <2>3, Zenon DEF RunOK
    <2> QED
      BY <2>2, <2>3, Zenon
  <1>13. /\ \A m \in ClaimId : Live(m)' <=> Live(m)
         /\ \A v \in Worker : LiveOn(v)' = LiveOn(v)
    <2>1. \A m \in ClaimId : (Live(m)' <=> Live(m)) /\ runs'[m].worker = runs[m].worker
      BY <1>1, <1>3, <1>4, <1>8, Zenon DEF Live
    <2> QED
      BY <2>1, Zenon DEF LiveOn
  <1>14. StartsFresh'
    <2> SUFFICES ASSUME NEW v \in Worker, loop'[v].pc = "start" PROVE ~Live(loop[v].claim)'
      BY Zenon DEF StartsFresh
    <2>1. loop[v].claim \in ClaimId /\ ~Live(loop[v].claim)
      BY <1>1, TokensAreClaimIds, Zenon DEF WorkersInv, LoopsOK, LoopOK, StartsFresh
    <2>2. loop[v].claim # n
      BY <1>1, <2>1, Zenon DEF Live
    <2> QED
      BY <1>1, <1>8, <2>1, <2>2, Zenon DEF Live
  <1>15. SlotsBounded' /\ SlotsAccountedFor'
    BY <1>1, <1>13, Zenon DEF WorkersInv, SlotsBounded, SlotsAccountedFor
  <1>16. RegistryIsExact'
    <2>1. ASSUME NEW v \in Worker, NEW t \in TaskId, active'[v][t] # 0
          PROVE  /\ active'[v][t] \in LiveOn(v)'
                 /\ runs'[active'[v][t]].task = t
                 /\ runs'[active'[v][t]].pc # "starting"
      <3>1. CASE v = w /\ t = u
        BY <1>4, <1>8, <1>9, <3>1, Zenon DEF LiveOn, Live
      <3>2. CASE v # w \/ t # u
        <4>1. /\ active[v][t] \in LiveOn(v) /\ runs[active[v][t]].task = t
              /\ runs[active[v][t]].pc # "starting" /\ active'[v][t] = active[v][t]
          BY <1>9, <2>1, <3>2, SMTT(30) DEF WorkersInv, RegistryIsExact
        <4>2. active[v][t] \in ClaimId /\ active[v][t] # n
          BY <1>1, <4>1, Zenon DEF LiveOn
        <4> QED
          BY <1>8, <1>13, <4>1, <4>2, Zenon
      <3> QED
        BY <3>1, <3>2, Zenon
    <2>2. ASSUME MaxConcurrentRuns = 1, NEW m \in ClaimId, runs'[m].pc \notin {"none", "starting"}
          PROVE  active'[runs'[m].worker][runs'[m].task] = m
      <3>1. CASE m = n
        BY <1>4, <1>8, <1>9, <3>1, ZenonT(40)
      <3>2. CASE m # n
        <4>1. runs'[m] = runs[m] /\ active[runs[m].worker][runs[m].task] = m /\ Live(m)
          BY <1>8, <2>2, <3>2, Zenon DEF WorkersInv, RegistryIsExact, Live
        <4>2. runs[m].worker \in Worker /\ runs[m].task \in TaskId
          BY <4>1, RunFacts, Zenon
        <4>3. runs[m].worker # w
          <5> SUFFICES ASSUME runs[m].worker = w PROVE FALSE
            OBVIOUS
          <5>1. m \in LiveOn(w) /\ n \in LiveOn(w)
            BY <1>1, <1>3, <4>1, Zenon DEF LiveOn, Live
          <5> QED
            BY <2>2, <3>2, <5>1, OneRun, Zenon
        <4> QED
          BY <1>9, <4>1, <4>2, <4>3, SMTT(30)
      <3> QED
        BY <3>1, <3>2, Zenon
    <2> QED
      BY <2>1, <2>2, Zenon DEF RegistryIsExact
  <1>17. LiveLeaseIsWorkedOn'
    <2> SUFFICES ASSUME NEW t \in TaskId, LeaseLive(t, clock)'
                 PROVE  \/ runs'[leases'[t].token].pc \in AtWork
                        \/ \E v \in Worker : loop'[v].pc = "start" /\ loop'[v].claim = leases'[t].token
                        \/ leases'[t].token \in abandoned'.leases
      BY Zenon DEF LiveLeaseIsWorkedOn, AtWork
    <2>1. LeaseLive(t, clock)
      BY <1>1, <1>10, Zenon DEF LeaseLive, HasLease
    <2>2. \/ runs[leases[t].token].pc \in AtWork
          \/ \E v \in Worker : loop[v].pc = "start" /\ loop[v].claim = leases[t].token
          \/ leases[t].token \in abandoned.leases
      BY <2>1, Zenon DEF WorkersInv, LiveLeaseIsWorkedOn, AtWork
    <2>3. leases[t].token \in ClaimId
      BY <2>1, TokensAreClaimIds, Zenon DEF LeaseLive, WorkersInv
    <2>4. runs[leases[t].token].pc \in AtWork => runs'[leases[t].token].pc \in AtWork
      BY <1>4, <1>8, <2>3, Zenon DEF AtWork
    <2> QED
      BY <1>1, <1>10, <2>2, <2>4, Zenon
  <1> QED
    BY <1>1, <1>10, <1>11, <1>12, <1>14, <1>15, <1>16, <1>17, Zenon DEF WorkersInv, Kept

LEMMA LeaveKeeps ==
  ASSUME WorkersInv, NEW n \in ClaimId, Leave(n)
  PROVE  Kept
  <1>1. /\ runs[n].pc = "leaving" /\ UNCHANGED allVars /\ UNCHANGED <<loop, envVars>>
        /\ UNCHANGED <<clock, abandoned>>
    BY Zenon DEF Leave, envVars
  <1>2. runs[n] \in Goroutine /\ runs[n].worker \in Worker /\ runs[n].task \in TaskId
    BY <1>1, RunFacts, Zenon DEF Live
  <1>3. PICK w \in Worker, u \in TaskId : w = runs[n].worker /\ u = runs[n].task
    BY <1>2, Zenon
  <1>4. /\ runs \in [ClaimId -> Goroutine] /\ active \in [Worker -> [TaskId -> Nat]]
        /\ slots \in [Worker -> Nat]
    BY Zenon DEF WorkersInv, SchedulerTypeOK
  <1>5. NoGoroutine \in Goroutine /\ NoGoroutine.pc = "none" /\ NoGoroutine.renewing = FALSE
    BY Zenon DEF NoGoroutine, Goroutine, Cause
  <1>6. runs' = [runs EXCEPT ![n] = NoGoroutine]
    BY Zenon DEF Leave
  <1>7. active' = [active EXCEPT ![w] = [active[w] EXCEPT ![u] = 0]]
    BY <1>3, <1>4, Zenon DEF Leave
  <1>8. /\ runs' \in [ClaimId -> Goroutine] /\ runs'[n] = NoGoroutine
        /\ \A m \in ClaimId : m # n => runs'[m] = runs[m]
    BY <1>4, <1>5, <1>6, Zenon
  <1>9. /\ active' \in [Worker -> [TaskId -> Nat]] /\ active'[w][u] = 0
        /\ \A v \in Worker, t \in TaskId : v # w \/ t # u => active'[v][t] = active[v][t]
    BY <1>4, <1>7, Zenon
  <1>10. StoreFacts' /\ LoopsOK' /\ ClaimedCommandIsWorkedOn' /\ leases' = leases /\ claims' = claims
    BY <1>1, LoopsAlone, Zenon
  <1>11. /\ LiveOn(w)' = LiveOn(w) \ {n} /\ n \in LiveOn(w)
         /\ \A v \in Worker : v # w => LiveOn(v)' = LiveOn(v)
    BY <1>1, <1>3, <1>5, <1>8, Zenon DEF LiveOn, Live
  <1>12. /\ IsFiniteSet(LiveOn(w)) /\ Cardinality(LiveOn(w)) \in Nat
         /\ Cardinality(LiveOn(w)) = Cardinality(LiveOn(w))' + 1 /\ Cardinality(LiveOn(w))' \in Nat
    <2>1. IsFiniteSet(LiveOn(w)) /\ Cardinality(LiveOn(w)) \in Nat /\ Cardinality(LiveOn(w))' \in Nat
      BY LiveOnFinite, Zenon
    <2>2. Cardinality(LiveOn(w) \ {n}) = Cardinality(LiveOn(w)) - 1
      BY <1>11, <2>1, FS_RemoveElement, Zenon
    <2> QED
      BY <1>11, <2>1, <2>2, SMTT(30)
  <1>13. /\ slots' \in [Worker -> Nat] /\ slots'[w] = slots[w] - 1 /\ slots'[w] <= slots[w]
         /\ \A v \in Worker : v # w => slots'[v] = slots[v]
    <2>1. slots[w] > 0
      BY <1>12 DEF WorkersInv, SlotsAccountedFor
    <2>2. slots' = [slots EXCEPT ![w] = slots[w] - 1]
      BY <1>3, <1>4, <2>1, Zenon DEF Leave, ReleaseSlot
    <2>3. slots[w] - 1 \in Nat
      BY <1>4, <2>1, SMTT(30)
    <2> QED
      BY <1>4, <2>2, <2>3, SMTT(30)
  <1>14. SchedulerTypeOK'
    BY <1>1, <1>8, <1>9, <1>13, Zenon DEF WorkersInv, SchedulerTypeOK
  <1>15. RunsOK'
    <2> SUFFICES ASSUME NEW m \in ClaimId PROVE RunOK(m, runs[m])'
      BY Zenon DEF RunsOK
    <2>1. RunOK(m, runs[m])
      BY Zenon DEF WorkersInv, RunsOK
    <2>2. CASE m = n
      BY <1>5, <1>8, <2>2, Zenon DEF RunOK
    <2>3. CASE m # n
      BY <1>8, <1>10, <2>1, <2>3, Zenon DEF RunOK
    <2> QED
      BY <2>2, <2>3, Zenon
  <1>16. StartsFresh'
    <2> SUFFICES ASSUME NEW v \in Worker, loop'[v].pc = "start" PROVE ~Live(loop[v].claim)'
      BY Zenon DEF StartsFresh
    <2>1. loop[v].claim \in ClaimId /\ ~Live(loop[v].claim)
      BY <1>1, TokensAreClaimIds, ZenonT(40) DEF WorkersInv, LoopsOK, LoopOK, StartsFresh
    <2> QED
      BY <1>1, <1>5, <1>8, <2>1, Zenon DEF Live
  <1>17. SlotsBounded'
    BY <1>4, <1>13, SchedulerConstants, SMTT(30) DEF WorkersInv, SlotsBounded
  <1>18. SlotsAccountedFor'
    <2> SUFFICES ASSUME NEW v \in Worker
                 PROVE  slots'[v] = Cardinality(LiveOn(v))'
                                      + (IF loop'[v].pc \in {"claim", "start"} THEN 1 ELSE 0)
      BY Zenon DEF SlotsAccountedFor
    <2>1. slots[v] = Cardinality(LiveOn(v)) + (IF loop[v].pc \in {"claim", "start"} THEN 1 ELSE 0)
      BY Zenon DEF WorkersInv, SlotsAccountedFor
    <2>2. CASE v = w
      BY <1>1, <1>12, <1>13, <2>1, <2>2, SMTT(30)
    <2>3. CASE v # w
      BY <1>1, <1>11, <1>13, <2>1, <2>3, Zenon
    <2> QED
      BY <2>2, <2>3, Zenon
  <1>19. RegistryIsExact'
    <2>1. ASSUME NEW v \in Worker, NEW t \in TaskId, active'[v][t] # 0
          PROVE  /\ active'[v][t] \in LiveOn(v)'
                 /\ runs'[active'[v][t]].task = t
                 /\ runs'[active'[v][t]].pc # "starting"
      <3>1. v # w \/ t # u
        BY <1>9, <2>1, Zenon
      <3>2. /\ active[v][t] \in LiveOn(v) /\ runs[active[v][t]].task = t
            /\ runs[active[v][t]].pc # "starting" /\ active'[v][t] = active[v][t]
        BY <1>9, <2>1, <3>1, Zenon DEF WorkersInv, RegistryIsExact
      <3>3. active[v][t] \in ClaimId /\ active[v][t] # n
        BY <1>3, <3>1, <3>2, Zenon DEF LiveOn
      <3> QED
        BY <1>8, <1>11, <3>2, <3>3, Zenon
    <2>2. ASSUME MaxConcurrentRuns = 1, NEW m \in ClaimId, runs'[m].pc \notin {"none", "starting"}
          PROVE  active'[runs'[m].worker][runs'[m].task] = m
      <3>1. m # n
        BY <1>5, <1>8, <2>2, Zenon
      <3>2. runs'[m] = runs[m] /\ active[runs[m].worker][runs[m].task] = m /\ Live(m)
        BY <1>8, <2>2, <3>1, Zenon DEF WorkersInv, RegistryIsExact, Live
      <3>3. runs[m].worker \in Worker /\ runs[m].task \in TaskId
        BY <3>2, RunFacts, Zenon
      <3>4. runs[m].worker # w
        <4> SUFFICES ASSUME runs[m].worker = w PROVE FALSE
          OBVIOUS
        <4>1. m \in LiveOn(w)
          BY <3>2, Zenon DEF LiveOn
        <4> QED
          BY <1>11, <2>2, <3>1, <4>1, OneRun, Zenon
      <3> QED
        BY <1>9, <3>2, <3>3, <3>4, ZenonT(40)
    <2> QED
      BY <2>1, <2>2, Zenon DEF RegistryIsExact
  <1>20. LiveLeaseIsWorkedOn'
    <2> SUFFICES ASSUME NEW t \in TaskId, LeaseLive(t, clock)'
                 PROVE  \/ runs'[leases'[t].token].pc \in AtWork
                        \/ \E v \in Worker : loop'[v].pc = "start" /\ loop'[v].claim = leases'[t].token
                        \/ leases'[t].token \in abandoned'.leases
      BY Zenon DEF LiveLeaseIsWorkedOn, AtWork
    <2>1. LeaseLive(t, clock)
      BY <1>1, <1>10, Zenon DEF LeaseLive, HasLease
    <2>2. \/ runs[leases[t].token].pc \in AtWork
          \/ \E v \in Worker : loop[v].pc = "start" /\ loop[v].claim = leases[t].token
          \/ leases[t].token \in abandoned.leases
      BY <2>1, Zenon DEF WorkersInv, LiveLeaseIsWorkedOn, AtWork
    <2>3. leases[t].token \in ClaimId
      BY <2>1, TokensAreClaimIds, Zenon DEF LeaseLive, WorkersInv
    <2>4. runs[leases[t].token].pc \in AtWork => runs'[leases[t].token].pc \in AtWork
      BY <1>1, <1>8, <2>3, Zenon DEF AtWork
    <2> QED
      BY <1>1, <1>10, <2>2, <2>4, Zenon
  <1> QED
    BY <1>1, <1>10, <1>14, <1>15, <1>16, <1>17, <1>18, <1>19, <1>20, Zenon DEF WorkersInv, Kept

-----------------------------------------------------------------------------
(* The environment. *)

\* A killed worker takes its goroutines with it; what they held is abandoned.
LEMMA CrashKeeps ==
  ASSUME WorkersInv, NEW w \in Worker, Crash(w)
  PROVE  Kept
  <1>1. /\ UNCHANGED allVars /\ clock' = clock /\ Goto(w, "down")
        /\ slots' = [slots EXCEPT ![w] = 0]
        /\ active' = [active EXCEPT ![w] = [t \in TaskId |-> 0]]
        /\ runs' = [n \in ClaimId |-> IF n \in LiveOn(w) THEN NoGoroutine ELSE runs[n]]
        /\ abandoned' = [leases |-> abandoned.leases \cup LiveOn(w) \cup {loop[w].claim},
                         commands |-> abandoned.commands \cup {loop[w].cmd.token}]
    BY Zenon DEF Crash
  <1>2. /\ runs \in [ClaimId -> Goroutine] /\ active \in [Worker -> [TaskId -> Nat]]
        /\ slots \in [Worker -> Nat]
    BY Zenon DEF WorkersInv, SchedulerTypeOK
  <1>3. NoGoroutine \in Goroutine /\ NoGoroutine.pc = "none" /\ NoGoroutine.renewing = FALSE
    BY Zenon DEF NoGoroutine, Goroutine, Cause
  <1>4. StoreFacts' /\ StoreGrows
    BY <1>1, StoreFactsStep, Zenon DEF WorkersInv
  <1>5. leases' = leases /\ claims' = claims /\ commands' = commands
    BY <1>1, Zenon DEF allVars, storeVars, commandVars
  <1>6. LoopMoves(w) /\ loop'[w].pc = "down"
    BY <1>1, GotoMoves, Zenon DEF LoopPc, Handling
  <1>7. /\ loop' \in [Worker -> LoopRecord] /\ LoopsOK'
        /\ \A v \in Worker : v # w => loop'[v] = loop[v]
    BY <1>4, <1>6, OneLoop, Zenon
  <1>8. \A n \in ClaimId : runs'[n] = IF n \in LiveOn(w) THEN NoGoroutine ELSE runs[n]
    BY <1>1, Zenon
  <1>9. runs' \in [ClaimId -> Goroutine]
    BY <1>1, <1>2, <1>3, Zenon
  <1>10. /\ active' \in [Worker -> [TaskId -> Nat]] /\ \A t \in TaskId : active'[w][t] = 0
         /\ \A v \in Worker : v # w => active'[v] = active[v]
    BY <1>1, <1>2, Zenon
  <1>11. /\ slots' \in [Worker -> Nat] /\ slots'[w] = 0
         /\ \A v \in Worker : v # w => slots'[v] = slots[v]
    BY <1>1, <1>2, Zenon
  <1>12. SchedulerTypeOK'
    BY <1>1, <1>7, <1>9, <1>10, <1>11, Zenon DEF WorkersInv, SchedulerTypeOK
  <1>13. RunsOK'
    <2> SUFFICES ASSUME NEW m \in ClaimId PROVE RunOK(m, runs[m])'
      BY Zenon DEF RunsOK
    <2>1. RunOK(m, runs[m])
      BY Zenon DEF WorkersInv, RunsOK
    <2>2. CASE m \in LiveOn(w)
      BY <1>3, <1>8, <2>2, Zenon DEF RunOK
    <2>3. CASE m \notin LiveOn(w)
      BY <1>5, <1>8, <2>1, <2>3, Zenon DEF RunOK
    <2> QED
      BY <2>2, <2>3, Zenon
  <1>14. LiveOn(w)' = {} /\ \A v \in Worker : v # w => LiveOn(v)' = LiveOn(v)
    BY <1>3, <1>8, Zenon DEF LiveOn, Live
  <1>15. StartsFresh'
    <2> SUFFICES ASSUME NEW v \in Worker, loop'[v].pc = "start" PROVE ~Live(loop[v].claim)'
      BY Zenon DEF StartsFresh
    <2>1. v # w /\ loop'[v] = loop[v] /\ loop[v].pc = "start"
      BY <1>6, <1>7, Zenon
    <2>2. loop[v].claim \in ClaimId /\ ~Live(loop[v].claim)
      BY <2>1, TokensAreClaimIds, Zenon DEF WorkersInv, LoopsOK, LoopOK, StartsFresh
    <2> QED
      BY <1>3, <1>8, <2>1, <2>2, Zenon DEF Live
  <1>16. SlotsBounded'
    BY <1>11, SchedulerConstants, SMTT(30) DEF WorkersInv, SlotsBounded
  <1>17. SlotsAccountedFor'
    <2>1. Cardinality(LiveOn(w))' = 0
      BY <1>14, FS_EmptySet, Zenon
    <2> SUFFICES ASSUME NEW v \in Worker
                 PROVE  slots'[v] = Cardinality(LiveOn(v))'
                                      + (IF loop'[v].pc \in {"claim", "start"} THEN 1 ELSE 0)
      BY Zenon DEF SlotsAccountedFor
    <2>2. slots[v] = Cardinality(LiveOn(v)) + (IF loop[v].pc \in {"claim", "start"} THEN 1 ELSE 0)
      BY Zenon DEF WorkersInv, SlotsAccountedFor
    <2>3. CASE v = w
      BY <1>6, <1>11, <2>1, <2>3, SMTT(30)
    <2>4. CASE v # w
      BY <1>7, <1>11, <1>14, <2>2, <2>4, Zenon
    <2> QED
      BY <2>3, <2>4, Zenon
  <1>18. RegistryIsExact'
    <2>1. ASSUME NEW v \in Worker, NEW t \in TaskId, active'[v][t] # 0
          PROVE  /\ active'[v][t] \in LiveOn(v)'
                 /\ runs'[active'[v][t]].task = t
                 /\ runs'[active'[v][t]].pc # "starting"
      <3>1. v # w
        BY <1>10, <2>1, ZenonT(40)
      <3>2. /\ active[v][t] \in LiveOn(v) /\ runs[active[v][t]].task = t
            /\ runs[active[v][t]].pc # "starting" /\ active'[v][t] = active[v][t]
        BY <1>10, <2>1, <3>1, SMTT(30) DEF WorkersInv, RegistryIsExact
      <3>3. active[v][t] \in ClaimId /\ active[v][t] \notin LiveOn(w)
        BY <3>1, <3>2, Zenon DEF LiveOn
      <3> QED
        BY <1>8, <1>14, <3>1, <3>2, <3>3, Zenon
    <2>2. ASSUME MaxConcurrentRuns = 1, NEW m \in ClaimId, runs'[m].pc \notin {"none", "starting"}
          PROVE  active'[runs'[m].worker][runs'[m].task] = m
      <3>1. m \notin LiveOn(w) /\ runs'[m] = runs[m]
        BY <1>3, <1>8, <2>2, Zenon
      <3>2. active[runs[m].worker][runs[m].task] = m /\ Live(m) /\ runs[m].worker # w
        BY <2>2, <3>1, Zenon DEF WorkersInv, RegistryIsExact, Live, LiveOn
      <3>3. runs[m].worker \in Worker
        BY <3>2, RunFacts, Zenon
      <3> QED
        BY <1>10, <3>1, <3>2, <3>3, Zenon
    <2> QED
      BY <2>1, <2>2, Zenon DEF RegistryIsExact
  <1>19. LiveLeaseIsWorkedOn'
    <2> SUFFICES ASSUME NEW t \in TaskId, LeaseLive(t, clock)'
                 PROVE  \/ runs'[leases'[t].token].pc \in AtWork
                        \/ \E v \in Worker : loop'[v].pc = "start" /\ loop'[v].claim = leases'[t].token
                        \/ leases'[t].token \in abandoned'.leases
      BY Zenon DEF LiveLeaseIsWorkedOn, AtWork
    <2>1. LeaseLive(t, clock)
      BY <1>1, <1>5, Zenon DEF LeaseLive, HasLease
    <2>2. \/ runs[leases[t].token].pc \in AtWork
          \/ \E v \in Worker : loop[v].pc = "start" /\ loop[v].claim = leases[t].token
          \/ leases[t].token \in abandoned.leases
      BY <2>1, Zenon DEF WorkersInv, LiveLeaseIsWorkedOn, AtWork
    <2>3. leases[t].token \in ClaimId
      BY <2>1, TokensAreClaimIds, Zenon DEF LeaseLive, WorkersInv
    <2>4. abandoned'.leases = abandoned.leases \cup LiveOn(w) \cup {loop[w].claim}
      BY <1>1, Zenon
    <2> QED
      BY <1>5, <1>7, <1>8, <2>2, <2>3, <2>4, Zenon
  <1>20. ClaimedCommandIsWorkedOn'
    <2>1. abandoned'.commands = abandoned.commands \cup {loop[w].cmd.token}
      BY <1>1, Zenon
    <2> QED
      BY <1>5, <1>7, <2>1, Zenon DEF WorkersInv, ClaimedCommandIsWorkedOn
  <1> QED
    BY <1>1, <1>4, <1>7, <1>12, <1>13, <1>15, <1>16, <1>17, <1>18, <1>19, <1>20, Zenon DEF WorkersInv, Kept

-----------------------------------------------------------------------------
(* The theorems. *)

LEMMA WorkersInit ==
  ASSUME SchedulerInit
  PROVE  WorkersInv
  <1>1. CommandInv
    BY CommandInit, Zenon DEF SchedulerInit
  <1>2. /\ \A t \in TaskId : leases[t].token = 0
        /\ claims = {} /\ nextLease = 0
        /\ \A k \in CommandId : commands[k].token = 0 /\ commands[k].status = "absent"
        /\ nanos = 0
    BY Zenon DEF SchedulerInit, Init, StoreInit, NoLease, NoCommand
  <1>3. StoreFacts
    BY <1>1, <1>2, StoreConstants, SMTT(30)
       DEF StoreFacts, LeasesWereGiven, HasLease, TokensAreUnique, CommandTokens
  <1>4. "top" \in LoopPc
    BY Zenon DEF LoopPc
  <1>5. At("top") \in LoopRecord /\ At("top").pc = "top" /\ At("top").cmd.id = 0
    BY <1>4, AtFields, Zenon
  <1>6. NoGoroutine \in Goroutine /\ NoGoroutine.pc = "none" /\ NoGoroutine.renewing = FALSE
    BY Zenon DEF NoGoroutine, Goroutine, Cause
  <1>7. /\ \A w \in Worker : loop[w] = At("top") /\ slots[w] = 0 /\ \A t \in TaskId : active[w][t] = 0
        /\ \A n \in ClaimId : runs[n] = NoGoroutine
    BY Zenon DEF SchedulerInit
  <1>8. SchedulerTypeOK
    <2>1. clock \in Time
      BY SchedulerConstants, StoreConstants, SMTT(30) DEF SchedulerInit, Time
    <2> QED
      BY <1>5, <1>6, <2>1, Zenon DEF SchedulerInit, SchedulerTypeOK
  <1>9. LoopsOK
    BY <1>5, <1>7, Zenon DEF LoopsOK, LoopOK, Handling
  <1>10. RunsOK
    BY <1>6, <1>7, Zenon DEF RunsOK, RunOK
  <1>11. StartsFresh
    BY <1>5, <1>7, Zenon DEF StartsFresh
  <1>12. \A w \in Worker : LiveOn(w) = {}
    BY <1>6, <1>7, ZenonT(40) DEF LiveOn, Live
  <1>13. SlotsBounded /\ SlotsAccountedFor
    BY <1>5, <1>7, <1>12, FS_EmptySet, SchedulerConstants, SMTT(30) DEF SlotsBounded, SlotsAccountedFor
  <1>14. RegistryIsExact
    BY <1>6, <1>7, Zenon DEF RegistryIsExact
  <1>15. LiveLeaseIsWorkedOn
    BY <1>2, Zenon DEF LiveLeaseIsWorkedOn, LeaseLive, HasLease
  <1>16. ClaimedCommandIsWorkedOn
    BY <1>2, Zenon DEF ClaimedCommandIsWorkedOn
  <1> QED
    BY <1>3, <1>8, <1>9, <1>10, <1>11, <1>13, <1>14, <1>15, <1>16, Zenon DEF WorkersInv

LEMMA WorkersStep ==
  ASSUME WorkersInv, [SchedulerNext]_schedulerVars
  PROVE  Kept
  <1>1. ASSUME NEW w \in Worker, LoopStep(w) \/ Stop(w) \/ Crash(w) \/ Start(w) PROVE Kept
    BY <1>1, SweepKeeps, CancelLostKeeps, IdleStepsKeep, ClaimNextCommandKeeps, ApplyCommandKeeps,
       ReadLeaseKeeps, FindRunKeeps, CancelPendingTaskKeeps, CancelLocalRunKeeps,
       CancelRemoteRunKeeps, ApplyRetryTaskKeeps, AckCommandKeeps, NackCommandKeeps,
       AcquireSlotKeeps, ClaimForSlotKeeps, StartClaimKeeps, StopKeeps, CrashKeeps, Zenon
       DEF LoopStep
  <1>2. ASSUME NEW n \in ClaimId,
               Register(n) \/ Renew(n) \/ RenewExit(n) \/ Return(n) \/ Settle(n) \/ Leave(n)
        PROVE  Kept
    BY <1>2, RegisterKeeps, RenewKeeps, RenewExitKeeps, ReturnKeeps, SettleKeeps, LeaveKeeps, Zenon
  <1>3. CASE UNCHANGED schedulerVars
    <2>1. /\ UNCHANGED allVars /\ UNCHANGED <<loop, slots, active, abandoned>>
          /\ runs' = runs /\ clock' = clock
      BY <1>3, Zenon DEF schedulerVars, workerVars, envVars
    <2>2. UNCHANGED storeVars /\ commands' = commands
      BY <2>1, Zenon DEF allVars, commandVars
    <2>3. RunsKeep(runs')
      BY <2>1, SameRunsKeep, Zenon
    <2>4. LeasesSteady
      BY <2>1, <2>2, <2>3, NoNewLease, Zenon
    <2>5. clock' \in Time
      BY <2>1, Zenon DEF WorkersInv, SchedulerTypeOK
    <2> QED
      BY <2>1, <2>2, <2>3, <2>4, <2>5, OutsideKeeps, Zenon
  <1> QED
    BY <1>1, <1>2, <1>3, ClientKeeps, TickKeeps, Zenon DEF SchedulerNext

\* The invariant holds throughout.
THEOREM WorkersSafe == SchedulerSafety => []WorkersInv
  <1>1. WorkersInv /\ [SchedulerNext]_schedulerVars => WorkersInv'
    BY WorkersStep, Zenon DEF Kept
  <1> QED
    BY <1>1, WorkersInit, PTL DEF SchedulerSafety

\* Workers use the store as its own specification allows: every step of loops,
\* goroutines and clients is one call to the store or none, made with a claim
\* that was given out.  So what is proved of the store holds under them.
THEOREM SchedulerUsesStore == SchedulerSafety => Spec
  <1>1. WorkersInv /\ [SchedulerNext]_schedulerVars => [Next]_allVars
    BY WorkersStep, Zenon DEF Kept
  <1>2. SchedulerInit => Init
    BY Zenon DEF SchedulerInit
  <1> QED
    BY <1>1, <1>2, WorkersSafe, PTL DEF SchedulerSafety, Spec

\* No path of dispatch or runClaim leaks a slot or gives one back twice.
THEOREM SlotsAreAccountedFor == SchedulerSafety => []SlotsAccountedFor
  BY WorkersSafe, PTL DEF WorkersInv

\* The table of active runs names goroutines that are there; with one slot it
\* names all that are registered.
THEOREM RegistryStaysExact == SchedulerSafety => []RegistryIsExact
  BY WorkersSafe, PTL DEF WorkersInv

\* Only a killed worker leaves a live lease with nobody working under it.
THEOREM LiveLeasesAreWorkedOn == SchedulerSafety => []LiveLeaseIsWorkedOn
  BY WorkersSafe, PTL DEF WorkersInv

\* Only a killed worker leaves a claimed command in nobody's hands.
THEOREM ClaimedCommandsAreWorkedOn == SchedulerSafety => []ClaimedCommandIsWorkedOn
  BY WorkersSafe, PTL DEF WorkersInv

\* With a store that ignores its context, a run that was stopped only by the
\* shutdown of its worker gives its task back to the queue, and the attempt
\* with it, as long as its lease is good.
THEOREM ShutdownGivesBack ==
  ASSUME ~ContextStore
  PROVE  SchedulerSafety => ShutdownRequeues
  <1>1. SchedulerInit => FailedRenewalsLost
    <2>1. NoGoroutine.renewErr = FALSE
      BY Zenon DEF NoGoroutine
    <2> QED
      BY <2>1, ZenonT(40) DEF SchedulerInit, FailedRenewalsLost
  <1>2. WorkersInv /\ WorkersInv' /\ FailedRenewalsLost /\ [SchedulerNext]_schedulerVars
        => FailedRenewalsLost'
    BY ShutdownStep, Zenon DEF WorkersInv, SchedulerTypeOK
  <1> DEFINE GivesBack == \A n \in ClaimId :
          /\ runs[n].pc = "returned" /\ runs'[n].pc = "leaving"
          /\ runs[n].result = "canceled" /\ runs[n].cause = "shutdown"
          /\ LeaseValid(runs[n].task, n, clock)
          => /\ tasks'[runs[n].task].status = "pending"
             /\ tasks'[runs[n].task].attempt = tasks[runs[n].task].attempt - 1
  <1>3. WorkersInv /\ WorkersInv' /\ FailedRenewalsLost /\ [SchedulerNext]_schedulerVars
        => [GivesBack]_schedulerVars
    BY ShutdownStep, Zenon DEF WorkersInv, SchedulerTypeOK
  <1> QED
    BY <1>1, <1>2, <1>3, WorkersSafe, PTL DEF SchedulerSafety, ShutdownRequeues
=============================================================================
