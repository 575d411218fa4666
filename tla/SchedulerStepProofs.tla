------------------------ MODULE SchedulerStepProofs ------------------------
(***************************************************************************)
(* The invariant of Scheduler, and the steps that preserve it without      *)
(* taking or giving back a slot: recovery, commands, claims that were      *)
(* granted, renewal, and the end of a run.                                 *)
(***************************************************************************)
EXTENDS Scheduler, StoreProofs

-----------------------------------------------------------------------------
(* What the scheduler relies on in the store. *)

\* Every lease was handed out, for its task, with a claim.
LeasesWereGiven ==
    \A t \in TaskId :
        HasLease(t) => \E c \in claims : c.task = t /\ c.token = leases[t].token

\* No token was issued twice, and none beyond the bound.
TokensAreUnique ==
    /\ nextLease <= MaxClaims
    /\ \A c, d \in claims : c.token = d.token => c = d

\* The token of a command was read off the clock, and a claim has an age.
CommandTokens ==
    \A k \in CommandId :
        /\ commands[k].token <= nanos
        /\ commands[k].status = "claimed" => commands[k].claimedAt >= 1

StoreFacts == CommandInv /\ LeasesWereGiven /\ TokensAreUnique /\ CommandTokens

-----------------------------------------------------------------------------
(* The workers. *)

\* Where a loop is while it has a command in its hands.
Handling == {"apply", "lease", "local", "cancelPending", "cancelLocal", "remote",
             "retry", "ack", "nack"}
LoopPc == Handling \cup {"top", "cancelLost", "commands", "dispatch", "claim", "start",
                         "wait", "drain", "down"}
Cmd == [id: Nat, token: Nat, kind: Kind, task: Nat, run: Nat]
Lost == [task: TaskId, run: Nat]
LoopRecord == [pc: LoopPc, cmd: Cmd, run: Nat, lease: Nat, local: Nat, now: Nat,
               exclude: SUBSET TaskId, claim: Nat, lost: SUBSET Lost]
Cause == {"none", "expired", "abort", "command", "renewal", "shutdown"}
Goroutine == [pc: {"none", "starting", "running", "returned", "leaving"},
              worker: Worker \cup {NoWorker}, task: Nat, run: Nat, cause: Cause,
              renewing: BOOLEAN, renewErr: BOOLEAN,
              result: {"none", "ok", "retryable", "fatal", "canceled"}]

SchedulerTypeOK ==
    /\ loop \in [Worker -> LoopRecord]
    /\ slots \in [Worker -> Nat]
    /\ active \in [Worker -> [TaskId -> Nat]]
    /\ runs \in [ClaimId -> Goroutine]
    /\ clock \in Time

\* The token was handed out with a claim of task t.
Given(t, token) == \E c \in claims : c.task = t /\ c.token = token

\* What loop l of worker w has read and not yet used: the command in its hands
\* is one that w claimed, the lease it read belongs to a claim of the
\* command's task, and the claim it is about to start is w's own.
LoopOK(w, l) ==
    /\ l.pc \in Handling =>
          /\ l.cmd.id \in CommandId
          /\ l.cmd.task \in TaskId
          /\ [command |-> l.cmd.id, token |-> l.cmd.token, worker |-> w] \in commandClaims
    /\ l.pc \notin Handling => l.cmd.id = 0
    /\ (l.pc \in Handling /\ l.pc # "apply") \/ l.pc = "cancelLost" => l.now \in Time
    /\ l.pc = "lease" => l.cmd.kind # "retry"
    /\ l.pc \in {"remote", "cancelLocal"} \/ (l.pc = "local" /\ l.cmd.kind = "cancel") =>
          Given(l.cmd.task, l.lease)
    /\ l.pc = "start" => \E c \in claims : c.token = l.claim /\ c.worker = w

\* A goroutine works on a claim of its worker, and renews only once registered.
RunOK(n, r) ==
    /\ r.pc # "none" => \E c \in claims : /\ c.token = n
                                          /\ c.task = r.task
                                          /\ c.worker = r.worker
    /\ r.renewing => r.pc \in {"running", "returned"}

LoopsOK == \A w \in Worker : LoopOK(w, loop[w])
RunsOK == \A n \in ClaimId : RunOK(n, runs[n])

\* A claim that is about to be started has no goroutine yet.
StartsFresh == \A w \in Worker : loop[w].pc = "start" => ~Live(loop[w].claim)

SlotsBounded == \A w \in Worker : slots[w] <= MaxConcurrentRuns

\* The inductive invariant.
WorkersInv ==
    /\ StoreFacts
    /\ SchedulerTypeOK
    /\ LoopsOK
    /\ RunsOK
    /\ StartsFresh
    /\ SlotsBounded
    /\ SlotsAccountedFor
    /\ RegistryIsExact
    /\ LiveLeaseIsWorkedOn
    /\ ClaimedCommandIsWorkedOn

\* What a step of the scheduler does: it preserves the invariant, and to the
\* store it is one call or none.
Kept == WorkersInv' /\ [Next]_allVars

-----------------------------------------------------------------------------
(* Steps of the store. *)

\* The store never forgets a claim, and its counters do not go back.
StoreGrows ==
    /\ claims \subseteq claims'
    /\ commandClaims \subseteq commandClaims'
    /\ nextLease <= nextLease'

\* A step of the task half keeps what the scheduler relies on.
LEMMA TaskStepFacts ==
  ASSUME StoreFacts, StoreNext
  PROVE  LeasesWereGiven' /\ TokensAreUnique' /\ claims \subseteq claims' /\ nextLease <= nextLease'
  <1>1. /\ StoreInv /\ nextLease \in Nat /\ MaxClaims \in Nat
        /\ leases \in [TaskId -> Lease]
        /\ \A c \in claims : c.token \in 1..nextLease
    BY StoreConstants, Zenon DEF StoreFacts, CommandInv, StoreInv, TypeOK
  <1>2. ASSUME claims' = claims, nextLease' = nextLease,
               \A t \in TaskId : leases'[t].token \in {leases[t].token, 0}
        PROVE  LeasesWereGiven' /\ TokensAreUnique' /\ claims \subseteq claims' /\ nextLease <= nextLease'
    BY <1>1, <1>2 DEF StoreFacts, LeasesWereGiven, TokensAreUnique, HasLease
  <1>3. CASE StopStep
    <2>1. \A t \in TaskId : leases'[t].token \in {leases[t].token, 0}
      BY <1>1, <1>3, StopsFields DEF StoreInv, StopStep, Stays, NoLease
    <2> QED
      BY <1>2, <1>3, <2>1, Zenon DEF StopStep
  <1>4. CASE EditStep
    <2>1. nextLease' = nextLease
      BY <1>4, Zenon DEF EditStep, CreateTask, UpdateTask, DeleteTask, RenewLease, CreateArtifact
    <2> QED
      BY <1>1, <1>2, <1>4, <2>1, EditStepKeeps, Zenon
  <1>5. CASE GrantStep
    <2>1. PICK u \in TaskId, w \in Worker, ttl \in TTLs, now \in Time, given \in SUBSET TaskId :
            Grant(u, w, ttl, now, given)
      BY <1>5, Zenon DEF GrantStep
    <2> DEFINE new == [task |-> u, token |-> nextLease + 1, run |-> nextRun + 1,
                       attempt |-> tasks[u].attempt + 1, worker |-> w,
                       blockedBy |-> tasks[u].blockedBy]
    <2>2. claims' = claims \cup {new} /\ nextLease' = nextLease + 1 /\ nextLease < MaxClaims
      BY <2>1, Zenon DEF Grant
    <2>3. new.task = u /\ new.token = nextLease + 1
      OBVIOUS
    <2>4. leases'[u].token = nextLease + 1
      BY <1>1, <2>1, Zenon DEF Grant, LeasesGivenUp
    <2>5. \A t \in TaskId : t # u => leases'[t].token \in {leases[t].token, 0}
      BY <1>1, <2>1, Zenon DEF Grant, LeasesGivenUp, NoLease
    <2> HIDE DEF new
    <2>6. LeasesWereGiven'
      BY <2>2, <2>3, <2>4, <2>5 DEF StoreFacts, LeasesWereGiven, HasLease
    <2>7. TokensAreUnique'
      BY <1>1, <2>2, <2>3 DEF StoreFacts, TokensAreUnique
    <2> QED
      BY <1>1, <2>2, <2>6, <2>7
  <1> QED
    BY <1>1, <1>3, <1>4, <1>5, NextKinds, Zenon

\* A command whose claim is taken away.
LEMMA UnclaimedFields ==
  ASSUME NEW c \in Command
  PROVE  Unclaimed(c).token = 0 /\ Unclaimed(c).status = "pending"
  BY Zenon DEF Unclaimed, Command

\* A step of the command half keeps the tokens and the ages of claims.
LEMMA CommandStepFacts ==
  ASSUME StoreFacts, CommandNext
  PROVE  UNCHANGED storeVars /\ CommandTokens' /\ commandClaims \subseteq commandClaims'
  <1>1. /\ CommandInv /\ CommandTokens
        /\ commands \in [CommandId -> Command] /\ nanos \in Nat
        /\ \A k \in CommandId : commands[k].token \in Nat
    BY Zenon DEF StoreFacts, CommandInv, CommandTypeOK, Command
  <1>2. ASSUME UNCHANGED <<storeVars, nanos, commandClaims>>,
               \A k \in CommandId :
                  \/ commands'[k] = commands[k]
                  \/ commands'[k].token \in {commands[k].token, 0} /\ commands'[k].status # "claimed"
        PROVE  UNCHANGED storeVars /\ CommandTokens' /\ commandClaims \subseteq commandClaims'
    BY <1>1, <1>2 DEF CommandTokens
  <1>3. ASSUME NEW kind \in Kind, NEW t \in TaskId, NEW run \in 0..nextRun,
               CreateCommand(kind, t, run)
        PROVE  UNCHANGED storeVars /\ CommandTokens' /\ commandClaims \subseteq commandClaims'
    <2>1. UNCHANGED <<storeVars, nanos, commandClaims>>
      BY <1>3, Zenon DEF CreateCommand
    <2>2. \A k \in CommandId : k # nextCommand + 1 => commands'[k] = commands[k]
      BY <1>1, <1>3, Zenon DEF CreateCommand
    <2>3. \A k \in CommandId : k = nextCommand + 1 =>
            commands'[k].token = 0 /\ commands'[k].status = "pending"
      BY <1>1, <1>3, NoCommandFields, Zenon DEF CreateCommand, NoCommand
    <2> QED
      BY <1>2, <2>1, <2>2, <2>3, Zenon
  <1>4. \A k \in CommandId : Pending(k) =>
          Refreshed(k).token = commands[k].token /\ Refreshed(k).status = "pending"
    BY <1>1, RefreshedFields, Zenon
  <1>5. ASSUME NEW seen \in SUBSET CommandId, \A j \in seen : Pending(j), OnlyRefresh(seen)
        PROVE  UNCHANGED storeVars /\ CommandTokens' /\ commandClaims \subseteq commandClaims'
    <2>1. UNCHANGED <<storeVars, nanos, commandClaims>>
      BY <1>5, Zenon DEF OnlyRefresh
    <2>2. \A k \in CommandId : commands'[k] = IF k \in seen THEN Refreshed(k) ELSE commands[k]
      BY <1>5, Zenon DEF OnlyRefresh
    <2> QED
      BY <1>2, <1>4, <1>5, <2>1, <2>2, Zenon
  <1>6. ASSUME NEW w \in Worker, NEW now \in Time, NEW k \in CommandId, NEW seen \in SUBSET CommandId,
               Pending(k), \A j \in seen : Pending(j), ClaimSeen(k, w, now, seen)
        PROVE  UNCHANGED storeVars /\ CommandTokens' /\ commandClaims \subseteq commandClaims'
    <2> DEFINE d == Claimed(Refreshed(k), w, now, nanos + 1)
    <2>1. d.token = nanos + 1 /\ d.claimedAt = now
      <3>1. Refreshed(k) \in Command
        BY <1>1, <1>6, RefreshedFields, Zenon
      <3> QED
        BY <3>1, Zenon DEF Claimed, Command
    <2>2. \A j \in CommandId :
            commands'[j] = IF j = k THEN d ELSE IF j \in seen THEN Refreshed(j) ELSE commands[j]
      BY <1>6, Zenon DEF ClaimSeen
    <2>3. UNCHANGED storeVars /\ nanos' = nanos + 1 /\ commandClaims \subseteq commandClaims'
      BY <1>6, Zenon DEF ClaimSeen
    <2> HIDE DEF d
    <2>4. now >= 1
      BY DEF Time
    <2>5. ASSUME NEW j \in CommandId
          PROVE  /\ commands'[j].token <= nanos'
                 /\ commands'[j].status = "claimed" => commands'[j].claimedAt >= 1
      BY <1>1, <1>4, <1>6, <2>1, <2>2, <2>3, <2>4 DEF CommandTokens
    <2> QED
      BY <2>3, <2>5, Zenon DEF CommandTokens
  <1>7. ASSUME NEW w \in Worker, NEW now \in Time, ClaimOutcome(w, now)
        PROVE  UNCHANGED storeVars /\ CommandTokens' /\ commandClaims \subseteq commandClaims'
    BY <1>5, <1>6, <1>7, Zenon DEF ClaimOutcome
  <1>8. ASSUME NEW cc \in commandClaims, NEW w,
               \/ HandleCommand(cc.command, cc.token, w)
               \/ ReleaseCommand(cc.command, cc.token)
        PROVE  UNCHANGED storeVars /\ CommandTokens' /\ commandClaims \subseteq commandClaims'
    <2>1. UNCHANGED <<storeVars, nanos, commandClaims>>
      BY <1>8, Zenon DEF HandleCommand, ReleaseCommand
    <2>2. \A k \in CommandId : k # cc.command => commands'[k] = commands[k]
      BY <1>1, <1>8, Zenon DEF HandleCommand, ReleaseCommand
    <2>3. cc.command \in CommandId /\ commands[cc.command] \in Command
      BY <1>1, Zenon DEF CommandInv, CommandTypeOK, CommandClaim
    <2>4. commands'[cc.command].token = 0 /\ commands'[cc.command].status # "claimed"
      <3>1. CASE HandleCommand(cc.command, cc.token, w)
        <4> DEFINE h == [commands[cc.command] EXCEPT !.status = "handled", !.handledBy = w, !.token = 0]
        <4>1. h.token = 0 /\ h.status = "handled"
          BY <2>3, Zenon DEF Command
        <4>2. commands' = [commands EXCEPT ![cc.command] = h]
          BY <1>1, <2>3, <3>1, Zenon DEF HandleCommand
        <4> HIDE DEF h
        <4> QED
          BY <1>1, <2>3, <4>1, <4>2, Zenon
      <3>2. CASE ReleaseCommand(cc.command, cc.token)
        <4>1. commands'[cc.command] = Unclaimed(commands[cc.command])
          BY <1>1, <2>3, <3>2, Zenon DEF ReleaseCommand
        <4> QED
          BY <2>3, <4>1, UnclaimedFields, Zenon
      <3> QED
        BY <1>8, <3>1, <3>2, Zenon
    <2> QED
      BY <1>2, <2>1, <2>2, <2>4, Zenon
  <1>9. ASSUME NEW S, NEW before, RecoverCommands(S, before)
        PROVE  UNCHANGED storeVars /\ CommandTokens' /\ commandClaims \subseteq commandClaims'
    <2>1. UNCHANGED <<storeVars, nanos, commandClaims>>
      BY <1>9, Zenon DEF RecoverCommands
    <2>2. ASSUME NEW k \in CommandId
          PROVE  \/ commands'[k] = commands[k]
                 \/ commands'[k].token = 0 /\ commands'[k].status # "claimed"
      <3>1. commands'[k] \in {commands[k], Unclaimed(commands[k])}
        BY <1>9, Zenon DEF RecoverCommands
      <3>2. Unclaimed(commands[k]).token = 0 /\ Unclaimed(commands[k]).status = "pending"
        BY <1>1, UnclaimedFields, Zenon
      <3> QED
        BY <3>1, <3>2, Zenon
    <2> QED
      BY <1>2, <2>1, <2>2, Zenon
  <1> QED
    BY <1>3, <1>7, <1>8, <1>9, ClaimsHaveOutcome, Zenon
       DEF CommandNext, RecoverClaimedCommands, RecoverClaimedCommand

\* Every step of the store keeps what the scheduler relies on.
LEMMA StoreFactsStep ==
  ASSUME StoreFacts, [Next]_allVars
  PROVE  StoreFacts' /\ StoreGrows
  <1>1. CommandInv'
    BY CommandStep, Zenon DEF StoreFacts
  <1>2. nextLease \in Nat
    BY Zenon DEF StoreFacts, CommandInv, StoreInv, TypeOK
  <1>3. CASE StoreNext /\ UNCHANGED commandVars
    BY <1>1, <1>3, TaskStepFacts, Zenon DEF StoreFacts, commandVars, CommandTokens, StoreGrows
  <1>4. CASE UNCHANGED storeVars /\ CommandTokens' /\ commandClaims \subseteq commandClaims'
    BY <1>1, <1>2, <1>4 DEF StoreFacts, storeVars, LeasesWereGiven, TokensAreUnique, HasLease, StoreGrows
  <1>5. CASE UNCHANGED allVars
    BY <1>4, <1>5, Zenon DEF StoreFacts, allVars, commandVars, CommandTokens
  <1> QED
    BY <1>3, <1>4, <1>5, CommandStepFacts, Zenon DEF Next

-----------------------------------------------------------------------------
(* Steps that start or end no goroutine and take or give back no slot. *)

\* Goroutines at this pc have not yet told the store how they ended.
AtWork == {"starting", "running", "returned"}
Dispatching == {"claim", "start"}

\* Of the runs f at most the causes differ.
RunsKeep(f) ==
    /\ f \in [ClaimId -> Goroutine]
    /\ \A n \in ClaimId :
          /\ f[n].pc = runs[n].pc
          /\ f[n].worker = runs[n].worker
          /\ f[n].task = runs[n].task
          /\ f[n].renewing = runs[n].renewing

\* The lease of a task is live after the step only if it was before, and who
\* worked under it still does.
LeasesSteady ==
    \A t \in TaskId :
        LeaseLive(t, clock)' =>
            /\ LeaseLive(t, clock)
            /\ leases'[t].token = leases[t].token
            /\ runs[leases[t].token].pc \in AtWork => runs'[leases[t].token].pc \in AtWork

\* A command is claimed after the step only if a loop got hold of it, or it was
\* claimed before and no loop let go of it.
CommandsSteady ==
    \A k \in CommandId :
        commands'[k].status = "claimed" =>
            \/ \E v \in Worker : loop'[v].cmd.id = k /\ loop'[v].cmd.token = commands'[k].token
            \/ /\ commands[k].status = "claimed"
               /\ commands'[k].token = commands[k].token
               /\ \A v \in Worker :
                     loop[v].cmd.id = k /\ loop[v].cmd.token = commands[k].token =>
                         loop'[v].cmd = loop[v].cmd

\* Such a step.
Steady ==
    /\ Next \/ UNCHANGED allVars
    /\ SchedulerTypeOK' /\ LoopsOK' /\ RunsOK'
    /\ UNCHANGED <<slots, active, abandoned>>
    /\ \A v \in Worker :
          loop[v].pc \in Dispatching \/ loop'[v].pc \in Dispatching => loop'[v] = loop[v]
    /\ \A n \in ClaimId :
          /\ runs'[n].worker = runs[n].worker
          /\ runs'[n].task = runs[n].task
          /\ \A pc \in {"none", "starting"} : (runs'[n].pc = pc) <=> (runs[n].pc = pc)
    /\ LeasesSteady
    /\ CommandsSteady

\* The tokens of leases and of claims are names of goroutines.
LEMMA TokensAreClaimIds ==
  ASSUME StoreFacts
  PROVE  /\ \A c \in claims : c.token \in ClaimId /\ c.task \in TaskId
         /\ \A t \in TaskId : HasLease(t) => leases[t].token \in ClaimId
         /\ nextLease \in Nat
  <1>1. /\ nextLease \in Nat /\ MaxClaims \in Nat /\ nextLease <= MaxClaims
        /\ \A c \in claims : c.token \in 1..nextLease /\ c.task \in TaskId
    BY StoreConstants, Zenon DEF StoreFacts, TokensAreUnique, CommandInv, StoreInv, TypeOK, Claim
  <1>2. \A c \in claims : c.token \in ClaimId
    BY <1>1 DEF ClaimId
  <1> QED
    BY <1>1, <1>2, Zenon DEF StoreFacts, LeasesWereGiven

\* A steady step preserves the invariant.
LEMMA SteadyKeeps ==
  ASSUME WorkersInv, Steady
  PROVE  Kept
  <1>1. StoreFacts' /\ StoreGrows
    BY StoreFactsStep, Zenon DEF WorkersInv, Steady
  <1>2. SchedulerTypeOK' /\ LoopsOK' /\ RunsOK' /\ slots' = slots /\ active' = active
    BY Zenon DEF Steady
  <1>3. \A n \in ClaimId : Live(n)' <=> Live(n)
    BY Zenon DEF Steady, Live
  <1>4. \A v \in Worker : LiveOn(v)' = LiveOn(v)
    BY <1>3, Zenon DEF Steady, LiveOn
  <1>5. \A v \in Worker : /\ loop'[v].pc \in Dispatching <=> loop[v].pc \in Dispatching
                          /\ loop'[v].pc = "start" => loop'[v] = loop[v]
                          /\ loop[v].pc = "start" => loop'[v] = loop[v]
    BY Zenon DEF Steady, Dispatching
  <1>6. StartsFresh'
    <2> SUFFICES ASSUME NEW v \in Worker, loop'[v].pc = "start" PROVE ~Live(loop[v].claim)'
      BY Zenon DEF StartsFresh
    <2>1. loop'[v] = loop[v]
      BY <1>5, Zenon
    <2>2. loop[v].claim \in ClaimId
      BY <2>1, TokensAreClaimIds, Zenon DEF WorkersInv, LoopsOK, LoopOK
    <2> QED
      BY <1>3, <2>1, <2>2, Zenon DEF WorkersInv, StartsFresh
  <1>7. SlotsBounded' /\ SlotsAccountedFor'
    <2>1. \A v \in Worker : (loop'[v].pc \in {"claim", "start"}) <=> (loop[v].pc \in {"claim", "start"})
      BY <1>5, Zenon DEF Dispatching
    <2> QED
      BY <1>2, <1>4, <2>1, Zenon DEF WorkersInv, SlotsBounded, SlotsAccountedFor
  <1>8. RegistryIsExact'
    <2>1. ASSUME NEW v \in Worker, NEW t \in TaskId, active'[v][t] # 0
          PROVE  /\ active'[v][t] \in LiveOn(v)'
                 /\ runs'[active'[v][t]].task = t
                 /\ runs'[active'[v][t]].pc # "starting"
      <3>1. /\ active[v][t] \in LiveOn(v) /\ runs[active[v][t]].task = t
            /\ runs[active[v][t]].pc # "starting"
        BY <1>2, <2>1, Zenon DEF WorkersInv, RegistryIsExact
      <3>2. active[v][t] \in ClaimId
        BY <3>1, Zenon DEF LiveOn
      <3> QED
        BY <1>2, <1>4, <3>1, <3>2, Zenon DEF Steady
    <2>2. ASSUME MaxConcurrentRuns = 1, NEW n \in ClaimId, runs'[n].pc \notin {"none", "starting"}
          PROVE  active'[runs'[n].worker][runs'[n].task] = n
      BY <1>2, <2>2, Zenon DEF Steady, WorkersInv, RegistryIsExact
    <2> QED
      BY <2>1, <2>2, Zenon DEF RegistryIsExact
  <1>9. LiveLeaseIsWorkedOn'
    <2> SUFFICES ASSUME NEW t \in TaskId, LeaseLive(t, clock)'
                 PROVE  \/ runs'[leases'[t].token].pc \in AtWork
                        \/ \E v \in Worker : loop'[v].pc = "start" /\ loop'[v].claim = leases'[t].token
                        \/ leases'[t].token \in abandoned'.leases
      BY Zenon DEF LiveLeaseIsWorkedOn, AtWork
    <2>1. /\ LeaseLive(t, clock) /\ leases'[t].token = leases[t].token
          /\ runs[leases[t].token].pc \in AtWork => runs'[leases[t].token].pc \in AtWork
      BY Zenon DEF Steady, LeasesSteady
    <2>2. \/ runs[leases[t].token].pc \in AtWork
          \/ \E v \in Worker : loop[v].pc = "start" /\ loop[v].claim = leases[t].token
          \/ leases[t].token \in abandoned.leases
      BY <2>1, Zenon DEF WorkersInv, LiveLeaseIsWorkedOn, AtWork
    <2> QED
      BY <1>5, <2>1, <2>2, Zenon DEF Steady
  <1>10. ClaimedCommandIsWorkedOn'
    BY Zenon DEF Steady, CommandsSteady, WorkersInv, ClaimedCommandIsWorkedOn
  <1> QED
    BY <1>1, <1>2, <1>6, <1>7, <1>8, <1>9, <1>10, Zenon DEF WorkersInv, Kept, Steady

-----------------------------------------------------------------------------
(* Steps of one loop. *)

\* Only the loop of w moves, to a state in which what it holds is accounted for.
LoopMoves(w) ==
    /\ loop' = [loop EXCEPT ![w] = loop'[w]]
    /\ loop'[w] \in LoopRecord
    /\ LoopOK(w, loop[w])'

\* The other loops are not disturbed.
LEMMA OneLoop ==
  ASSUME WorkersInv, StoreGrows, NEW w \in Worker, LoopMoves(w)
  PROVE  /\ loop' \in [Worker -> LoopRecord]
         /\ LoopsOK'
         /\ \A v \in Worker : v # w => loop'[v] = loop[v]
  <1>1. loop \in [Worker -> LoopRecord]
    BY Zenon DEF WorkersInv, SchedulerTypeOK
  <1>2. loop' \in [Worker -> LoopRecord] /\ \A v \in Worker : v # w => loop'[v] = loop[v]
    BY <1>1, Zenon DEF LoopMoves
  <1>3. ASSUME NEW v \in Worker, v # w PROVE LoopOK(v, loop[v])'
    <2>1. LoopOK(v, loop[v]) /\ loop'[v] = loop[v]
      BY <1>2, <1>3, Zenon DEF WorkersInv, LoopsOK
    <2> QED
      BY <2>1, Zenon DEF LoopOK, Given, StoreGrows
  <1>4. LoopsOK'
    BY <1>3, Zenon DEF LoopsOK, LoopMoves
  <1> QED
    BY <1>2, <1>4, Zenon

\* Nor are the goroutines, when only causes change.
LEMMA RunsKept ==
  ASSUME WorkersInv, StoreGrows, RunsKeep(runs')
  PROVE  runs' \in [ClaimId -> Goroutine] /\ RunsOK'
  <1>1. ASSUME NEW n \in ClaimId PROVE RunOK(n, runs[n])'
    <2>1. RunOK(n, runs[n])
      BY Zenon DEF WorkersInv, RunsOK
    <2>2. /\ runs'[n].pc = runs[n].pc /\ runs'[n].worker = runs[n].worker
          /\ runs'[n].task = runs[n].task /\ runs'[n].renewing = runs[n].renewing
      BY Zenon DEF RunsKeep
    <2> QED
      BY <2>1, <2>2, Zenon DEF RunOK, StoreGrows
  <1> QED
    BY <1>1, Zenon DEF RunsOK, RunsKeep

\* Canceling contexts changes causes.
LEMMA CanceledKeeps ==
  ASSUME WorkersInv, NEW S, NEW cause \in Cause
  PROVE  RunsKeep(Canceled(S, cause))
  <1>1. runs \in [ClaimId -> Goroutine]
    BY Zenon DEF WorkersInv, SchedulerTypeOK
  <1>2. ASSUME NEW n \in ClaimId
        PROVE  /\ Canceled(S, cause)[n] \in Goroutine
               /\ Canceled(S, cause)[n].pc = runs[n].pc
               /\ Canceled(S, cause)[n].worker = runs[n].worker
               /\ Canceled(S, cause)[n].task = runs[n].task
               /\ Canceled(S, cause)[n].renewing = runs[n].renewing
    <2> DEFINE r == [runs[n] EXCEPT !.cause = cause]
    <2>1. /\ r \in Goroutine /\ r.pc = runs[n].pc /\ r.worker = runs[n].worker
          /\ r.task = runs[n].task /\ r.renewing = runs[n].renewing
      BY <1>1, Zenon DEF Goroutine
    <2>2. Canceled(S, cause)[n] \in {r, runs[n]}
      BY Zenon DEF Canceled
    <2> HIDE DEF r
    <2> QED
      BY <1>1, <2>1, <2>2, Zenon
  <1>3. Canceled(S, cause) = [n \in ClaimId |-> Canceled(S, cause)[n]]
    BY Zenon DEF Canceled
  <1> QED
    BY <1>2, <1>3, Zenon DEF RunsKeep

LEMMA SameRunsKeep ==
  ASSUME WorkersInv
  PROVE  RunsKeep(runs)
  BY Zenon DEF WorkersInv, SchedulerTypeOK, RunsKeep

\* What a goroutine works on.
LEMMA RunFacts ==
  ASSUME WorkersInv, NEW n \in ClaimId, Live(n)
  PROVE  /\ runs[n] \in Goroutine /\ runs[n].worker \in Worker /\ runs[n].task \in TaskId
         /\ Given(runs[n].task, n)
  <1>1. PICK c \in claims : c.token = n /\ c.task = runs[n].task /\ c.worker = runs[n].worker
    BY Zenon DEF WorkersInv, RunsOK, RunOK, Live
  <1>2. c.task \in TaskId /\ c.worker \in Worker
    BY Zenon DEF WorkersInv, StoreFacts, CommandInv, StoreInv, TypeOK, Claim
  <1> QED
    BY <1>1, <1>2, Zenon DEF Given, WorkersInv, SchedulerTypeOK

\* The claim in the loop's hands, and the only one with its token.
LEMMA ClaimToStart ==
  ASSUME WorkersInv, NEW w \in Worker, loop[w].pc = "start"
  PROVE  \E c \in claims :
            /\ c = CHOOSE x \in claims : x.token = loop[w].claim
            /\ c.token = loop[w].claim /\ c.worker = w
            /\ c.token \in ClaimId /\ c.task \in TaskId /\ c.run \in Nat
            /\ \A x \in claims : x.token = c.token => x = c
  <1>1. PICK c \in claims : c.token = loop[w].claim /\ c.worker = w
    BY Zenon DEF WorkersInv, LoopsOK, LoopOK
  <1>2. \A x \in claims : x.token = c.token => x = c
    BY Zenon DEF WorkersInv, StoreFacts, TokensAreUnique
  <1>3. c = CHOOSE x \in claims : x.token = loop[w].claim
    BY <1>1, <1>2, Zenon
  <1>4. c.token \in ClaimId /\ c.task \in TaskId /\ c.run \in Nat
    BY TokensAreClaimIds, Zenon DEF WorkersInv, StoreFacts, CommandInv, StoreInv, TypeOK, Claim
  <1> QED
    BY <1>1, <1>2, <1>3, <1>4, Zenon

-----------------------------------------------------------------------------
(* Failed renewals, and runs that a shutdown stopped. *)

\* A goroutine whose renewal failed has lost its lease.  (True of a store that
\* ignores its context: there is no other reason to fail.)
FailedRenewalsLost ==
    \A n \in ClaimId :
        runs[n].renewErr =>
            /\ Live(n)
            /\ ~(leases[runs[n].task].token = n /\ LeaseLive(runs[n].task, clock))

\* No lease is prolonged: each stays, is dropped, or is a new one.
LeasesFall ==
    \A t \in TaskId : leases'[t] \in {leases[t], NoLease} \/ leases'[t].token = nextLease + 1

\* No renewal fails and nobody settles: true of all steps but Renew and Settle.
ErrorsStay ==
    \A n \in ClaimId :
        /\ runs'[n].renewErr =>
              runs[n].renewErr /\ runs'[n].task = runs[n].task /\ runs'[n].pc # "none"
        /\ runs[n].pc = "returned" => runs'[n].pc # "leaving"

\* What one step of the scheduler does to failed renewals and to a run that its
\* worker's shutdown stopped.
LEMMA ShutdownStep ==
  ASSUME ~ContextStore, WorkersInv, FailedRenewalsLost, [SchedulerNext]_schedulerVars,
         clock' \in Time
  PROVE  /\ FailedRenewalsLost'
         /\ \A n \in ClaimId :
              /\ runs[n].pc = "returned" /\ runs'[n].pc = "leaving"
              /\ runs[n].result = "canceled" /\ runs[n].cause = "shutdown"
              /\ LeaseValid(runs[n].task, n, clock)
              => /\ tasks'[runs[n].task].status = "pending"
                 /\ tasks'[runs[n].task].attempt = tasks[runs[n].task].attempt - 1
  \* A lost lease stays lost in a step that prolongs none and fails no renewal.
  <1>LostStaysLost.
      ASSUME LeasesFall, clock' >= clock, clock' \in Time,
           \A n \in ClaimId : runs'[n].renewErr =>
               runs[n].renewErr /\ runs'[n].task = runs[n].task /\ runs'[n].pc # "none"
      PROVE  FailedRenewalsLost'
    <2> USE <1>LostStaysLost
    <2> SUFFICES ASSUME NEW n \in ClaimId, runs'[n].renewErr,
                        leases'[runs'[n].task].token = n, LeaseLive(runs[n].task, clock)'
                 PROVE  FALSE
      BY Zenon DEF FailedRenewalsLost, Live, LeaseLive, HasLease
    <2>1. runs[n].renewErr /\ runs'[n].task = runs[n].task /\ Live(n)
      BY Zenon DEF FailedRenewalsLost
    <2>2. PICK t \in TaskId : t = runs[n].task /\ Given(t, n)
      BY <2>1, RunFacts, Zenon
    <2>3. leases'[t].token = n /\ leases'[t].token # 0 /\ leases'[t].expiresAt > clock'
      BY <2>1, <2>2, Zenon DEF LeaseLive, HasLease
    <2>4. n \in 1..nextLease /\ nextLease \in Nat
      BY <2>2, Zenon DEF Given, WorkersInv, StoreFacts, CommandInv, StoreInv, TypeOK
    <2>5. leases'[t] = leases[t]
      <3>1. leases'[t] # NoLease
        BY <2>3 DEF NoLease
      <3>2. leases'[t].token # nextLease + 1
        BY <2>3, <2>4 DEF ClaimId
      <3> QED
        BY <3>1, <3>2, Zenon DEF LeasesFall
    <2>6. leases[t].expiresAt > clock
      <3>1. leases \in [TaskId -> Lease] /\ clock \in Time
        BY Zenon DEF WorkersInv, SchedulerTypeOK, StoreFacts, CommandInv, StoreInv, TypeOK
      <3>2. leases[t].expiresAt \in Nat
        BY <3>1, Zenon DEF Lease
      <3> QED
        BY <2>3, <2>5, <3>1, <3>2 DEF Time
    <2> QED
      BY <2>1, <2>2, <2>3, <2>5, <2>6, Zenon DEF FailedRenewalsLost, LeaseLive, HasLease
  \* Canceling contexts fails no renewal.
  <1>CanceledErrors.
      ASSUME NEW S, NEW cause, runs' = Canceled(S, cause),
           \A n \in ClaimId : runs[n].renewErr => Live(n)
      PROVE  ErrorsStay
    <2> USE <1>CanceledErrors
    <2>1. ASSUME NEW n \in ClaimId
          PROVE  /\ runs'[n].renewErr = runs[n].renewErr /\ runs'[n].task = runs[n].task
                 /\ runs'[n].pc = runs[n].pc
      <3> DEFINE r == [runs[n] EXCEPT !.cause = cause]
      <3>1. runs[n] \in Goroutine
        BY Zenon DEF WorkersInv, SchedulerTypeOK
      <3>2. r.renewErr = runs[n].renewErr /\ r.task = runs[n].task /\ r.pc = runs[n].pc
        BY <3>1, Zenon DEF Goroutine
      <3>3. runs'[n] \in {r, runs[n]}
        BY Zenon DEF Canceled
      <3> HIDE DEF r
      <3> QED
        BY <3>2, <3>3, Zenon
    <2> QED
      BY <2>1, Zenon DEF ErrorsStay, Live
  \* Nor does what leaves the goroutines alone, or moves one of them.
  <1>SameErrors.
      ASSUME runs' = runs, \A n \in ClaimId : runs[n].renewErr => Live(n)
      PROVE  ErrorsStay
    BY <1>SameErrors, Zenon DEF ErrorsStay, Live
  <1>OneErrors.
      ASSUME NEW m \in ClaimId, NEW r, runs' = [runs EXCEPT ![m] = r],
           \A n \in ClaimId : runs[n].renewErr => Live(n),
           r.renewErr => runs[m].renewErr /\ r.task = runs[m].task /\ r.pc # "none",
           runs[m].pc = "returned" => r.pc # "leaving"
      PROVE  ErrorsStay
    <2> USE <1>OneErrors
    <2>1. runs \in [ClaimId -> Goroutine]
      BY Zenon DEF WorkersInv, SchedulerTypeOK
    <2>2. \A n \in ClaimId : runs'[n] = IF n = m THEN r ELSE runs[n]
      BY <2>1, Zenon
    <2> QED
      BY <2>2, ZenonT(40) DEF ErrorsStay, Live
  \* What the calls to the store do to the leases.
  <1>DropFalls.
      ASSUME NEW t, leases' = DropLease(t)
      PROVE  LeasesFall
    <2> USE <1>DropFalls
    <2>1. leases \in [TaskId -> Lease]
      BY Zenon DEF WorkersInv, StoreFacts, CommandInv, StoreInv, TypeOK
    <2> QED
      BY <2>1, Zenon DEF LeasesFall, DropLease
  <1>SameFalls.
      ASSUME UNCHANGED storeVars \/ leases' = leases
      PROVE  LeasesFall
    BY <1>SameFalls, Zenon DEF LeasesFall, storeVars
  <1>ClaimFalls.
      ASSUME NEW w, NEW ttl, NEW now, NEW skip, ClaimReadyTask(w, ttl, now, skip)
      PROVE  LeasesFall
    <2> USE <1>ClaimFalls
    <2>1. ASSUME NEW given, leases' = LeasesGivenUp(given) PROVE LeasesFall
      BY <2>1, Zenon DEF LeasesFall, LeasesGivenUp
    <2>2. ASSUME NEW t \in TaskId, NEW given, Grant(t, w, ttl, now, given) PROVE LeasesFall
      <3> DEFINE lease == [token |-> nextLease + 1, worker |-> w, expiresAt |-> now + ttl]
      <3>1. leases' = [LeasesGivenUp(given) EXCEPT ![t] = lease] /\ lease.token = nextLease + 1
        BY <2>2, Zenon DEF Grant
      <3> HIDE DEF lease
      <3> QED
        BY <3>1, Zenon DEF LeasesFall, LeasesGivenUp
    <2> QED
      BY <2>1, <2>2, Zenon DEF ClaimReadyTask, GiveUp
  <1>RecoverFalls.
      ASSUME NEW now, RecoverExpiredLeases(now)
      PROVE  LeasesFall
    BY <1>RecoverFalls, Zenon DEF RecoverExpiredLeases, RecoverLeases, LeasesFall
  <1>CancelOrExplainFalls.
      ASSUME NEW w, NEW token, CancelOrExplain(w, token)
      PROVE  LeasesFall
    BY <1>CancelOrExplainFalls, <1>DropFalls, <1>SameFalls, Zenon DEF CancelOrExplain, CancelTask
  <1>ReleaseFalls.
      ASSUME NEW t, NEW token, ReleaseLease(t, token)
      PROVE  LeasesFall
    BY <1>ReleaseFalls, <1>DropFalls, Zenon DEF ReleaseLease, Requeue
  <1>FailFalls.
      ASSUME NEW t, NEW token, NEW retryable, NEW now, FailTask(t, token, retryable, now)
      PROVE  LeasesFall
    BY <1>FailFalls, <1>DropFalls, Zenon DEF FailTask, Requeue
  \* The steps of a loop prolong no lease and fail no renewal.
  <1>LoopRests.
      ASSUME NEW w \in Worker, LoopStep(w)
      PROVE  LeasesFall /\ ErrorsStay
    <2> USE <1>LoopRests
    <2>0. \A n \in ClaimId : runs[n].renewErr => Live(n)
      BY Zenon DEF FailedRenewalsLost
    <2>1. ASSUME UNCHANGED runs, UNCHANGED storeVars \/ leases' = leases \/ LeasesFall
          PROVE  LeasesFall /\ ErrorsStay
      BY <2>0, <2>1, <1>SameErrors, <1>SameFalls, Zenon
    <2>2. ASSUME NEW S, NEW cause, runs' = Canceled(S, cause), UNCHANGED storeVars \/ LeasesFall
          PROVE  LeasesFall /\ ErrorsStay
      BY <2>0, <2>2, <1>CanceledErrors, <1>SameFalls, Zenon
    <2>3. CASE Sweep(w)
      BY <2>1, <2>3, <1>RecoverFalls, Zenon DEF Sweep
    <2>4. CASE CancelLost(w)
      BY <2>2, <2>4, Zenon DEF CancelLost, RecoverClaimedCommands, RecoverCommands
    <2>5. CASE SkipRecovery(w) \/ ApplyCommand(w) \/ ReadLease(w) \/ AcquireSlot(w) \/ Poll(w) \/ Drain(w)
      BY <2>1, <2>5, Zenon DEF SkipRecovery, ApplyCommand, ReadLease, AcquireSlot, Poll, Drain, allVars
    <2>6. CASE ClaimNextCommand(w)
      BY <2>1, <2>6, Zenon DEF ClaimNextCommand, ClaimPendingCommand, ClaimSeen, OnlyRefresh, allVars
    <2>7. CASE FindRun(w)
      BY <2>1, <2>2, <2>7, Zenon DEF FindRun, allVars
    <2>8. CASE CancelPendingTask(w)
      BY <2>1, <2>8, <1>CancelOrExplainFalls, Zenon DEF CancelPendingTask
    <2>9. CASE CancelLocalRun(w)
      BY <2>1, <2>2, <2>9, <1>CancelOrExplainFalls, Zenon DEF CancelLocalRun
    <2>10. CASE CancelRemoteRun(w)
      BY <2>1, <2>10, <1>CancelOrExplainFalls, <1>FailFalls, <1>SameFalls, Zenon DEF CancelRemoteRun
    <2>11. CASE ApplyRetryTask(w)
      BY <2>1, <2>11, <1>DropFalls, <1>SameFalls, Zenon DEF ApplyRetryTask, RetryTask
    <2>12. CASE AckCommand(w) \/ NackCommand(w)
      BY <2>1, <2>12, Zenon DEF AckCommand, NackCommand, HandleCommand, ReleaseCommand, allVars
    <2>13. CASE ClaimForSlot(w)
      BY <2>1, <2>13, <1>ClaimFalls, <1>SameFalls, Zenon DEF ClaimForSlot
    <2>14. CASE StartClaim(w)
      <3> DEFINE n == loop[w].claim
                 claim == CHOOSE c \in claims : c.token = n
                 r == [NoGoroutine EXCEPT !.pc = "starting", !.worker = w, !.task = claim.task,
                                          !.run = claim.run]
      <3>1. \/ UNCHANGED runs /\ (ReleaseLease(claim.task, n) \/ UNCHANGED storeVars)
            \/ runs' = [runs EXCEPT ![n] = r] /\ UNCHANGED storeVars
        BY <2>14, Zenon DEF StartClaim
      <3>2. n \in ClaimId
        BY <2>14, ClaimToStart, Zenon DEF StartClaim
      <3>3. r.renewErr = FALSE /\ r.pc = "starting"
        BY Zenon DEF NoGoroutine
      <3> HIDE DEF r
      <3>4. CASE UNCHANGED runs /\ (ReleaseLease(claim.task, n) \/ UNCHANGED storeVars)
        BY <2>1, <3>4, <1>ReleaseFalls, Zenon
      <3>5. CASE runs' = [runs EXCEPT ![n] = r] /\ UNCHANGED storeVars
        BY <2>0, <3>2, <3>3, <3>5, <1>OneErrors, <1>SameFalls, Zenon
      <3> QED
        BY <3>1, <3>4, <3>5, Zenon
    <2> QED
      BY <2>3, <2>4, <2>5, <2>6, <2>7, <2>8, <2>9, <2>10, <2>11, <2>12, <2>13, <2>14, Zenon DEF LoopStep
  \* Nor do those of a goroutine, renewal and settling apart.
  <1>RunRests.
      ASSUME NEW n \in ClaimId,
           Register(n) \/ RenewExit(n) \/ Return(n) \/ Leave(n)
      PROVE  LeasesFall /\ ErrorsStay
    <2> USE <1>RunRests
    <2>0. \A m \in ClaimId : runs[m].renewErr => Live(m)
      BY Zenon DEF FailedRenewalsLost
    <2>1. UNCHANGED storeVars
      BY Zenon DEF Register, RenewExit, Return, Leave, allVars
    <2>2. PICK r : /\ runs' = [runs EXCEPT ![n] = r]
                   /\ r.renewErr => runs[n].renewErr /\ r.task = runs[n].task /\ r.pc # "none"
                   /\ runs[n].pc = "returned" => r.pc # "leaving"
      <3>0. runs[n] \in Goroutine
        BY Zenon DEF WorkersInv, SchedulerTypeOK
      <3>1. CASE Register(n)
        <4> DEFINE cause == IF stopped[runs[n].worker] THEN "shutdown" ELSE "none"
                   r == [runs[n] EXCEPT !.pc = "running", !.renewing = TRUE, !.cause = cause]
        <4>1. runs' = [runs EXCEPT ![n] = r]
          BY <3>1, Zenon DEF Register
        <4> HIDE DEF cause
        <4>2. r.renewErr = runs[n].renewErr /\ r.task = runs[n].task /\ r.pc = "running"
          BY <3>0, Zenon DEF Goroutine
        <4> HIDE DEF r
        <4> QED
          BY <4>1, <4>2, Zenon
      <3>2. CASE RenewExit(n)
        <4> DEFINE r == [runs[n] EXCEPT !.renewing = FALSE]
        <4>1. runs' = [runs EXCEPT ![n] = r]
          BY <3>2, Zenon DEF RenewExit
        <4>2. r.renewErr = runs[n].renewErr /\ r.task = runs[n].task /\ r.pc = runs[n].pc
          BY <3>0, Zenon DEF Goroutine
        <4> HIDE DEF r
        <4> QED
          BY <2>0, <4>1, <4>2, Zenon DEF Live
      <3>3. CASE Return(n)
        <4>1. PICK result : runs' = [runs EXCEPT ![n].pc = "returned", ![n].result = result]
          BY <3>3, Zenon DEF Return
        <4> DEFINE r == [runs[n] EXCEPT !.pc = "returned", !.result = result]
        <4>2. runs' = [runs EXCEPT ![n] = r]
          BY <4>1, Zenon
        <4>3. r.renewErr = runs[n].renewErr /\ r.task = runs[n].task /\ r.pc = "returned"
          BY <3>0, Zenon DEF Goroutine
        <4> HIDE DEF r
        <4> QED
          BY <4>2, <4>3, Zenon
      <3>4. CASE Leave(n)
        <4>1. runs' = [runs EXCEPT ![n] = NoGoroutine] /\ runs[n].pc = "leaving"
          BY <3>4, Zenon DEF Leave
        <4>2. NoGoroutine.renewErr = FALSE
          BY Zenon DEF NoGoroutine
        <4> QED
          BY <4>1, <4>2, Zenon
      <3> QED
        BY <3>1, <3>2, <3>3, <3>4, Zenon
    <2> QED
      BY <2>0, <2>1, <2>2, <1>OneErrors, <1>SameFalls, Zenon
  \* Nor does the environment.
  <1>OutsideRests.
      ASSUME (\E w \in Worker : Stop(w) \/ Crash(w) \/ Start(w)) \/ Client \/ Tick
      PROVE  LeasesFall /\ ErrorsStay
    <2> USE <1>OutsideRests
    <2>0. \A n \in ClaimId : runs[n].renewErr => Live(n)
      BY Zenon DEF FailedRenewalsLost
    <2>1. ASSUME NEW w \in Worker, Stop(w) PROVE LeasesFall /\ ErrorsStay
      BY <2>0, <2>1, <1>CanceledErrors, <1>SameFalls, Zenon DEF Stop, allVars
    <2>2. ASSUME NEW w \in Worker, Crash(w) PROVE LeasesFall /\ ErrorsStay
      <3>1. \A n \in ClaimId : runs'[n] \in {NoGoroutine, runs[n]}
        BY <2>2, Zenon DEF Crash
      <3>2. NoGoroutine.renewErr = FALSE /\ NoGoroutine.pc = "none"
        BY Zenon DEF NoGoroutine
      <3>3. ErrorsStay
        BY <2>0, <3>1, <3>2, Zenon DEF ErrorsStay, Live
      <3> QED
        BY <2>2, <3>3, <1>SameFalls, Zenon DEF Crash, allVars
    <2>3. ASSUME NEW w \in Worker, Start(w) PROVE LeasesFall /\ ErrorsStay
      BY <2>0, <2>3, <1>SameErrors, <1>SameFalls, Zenon DEF Start, allVars
    <2>4. CASE Client
      <3>1. ErrorsStay
        BY <2>0, <2>4, <1>SameErrors, Zenon DEF Client, workerVars
      <3> QED
        BY <2>4, <3>1, <1>DropFalls, <1>SameFalls, Zenon DEF Client, CreateTask, DeleteTask, CreateCommand
    <2>5. CASE Tick
      BY <2>0, <2>5, <1>SameErrors, <1>SameFalls, Zenon DEF Tick, workerVars, allVars
    <2> QED
      BY <2>1, <2>2, <2>3, <2>4, <2>5, Zenon
  \* Renewal moves no goroutine on, and where it fails the lease is lost.
  <1>RenewLoses.
      ASSUME NEW n \in ClaimId, Renew(n)
      PROVE  FailedRenewalsLost' /\ \A m \in ClaimId : runs'[m].pc = runs[m].pc
    <2> USE <1>RenewLoses
    <2>0. runs \in [ClaimId -> Goroutine] /\ leases \in [TaskId -> Lease]
      BY Zenon DEF WorkersInv, SchedulerTypeOK, StoreFacts, CommandInv, StoreInv, TypeOK
    <2>1. Live(n) /\ clock' = clock
      BY Zenon DEF WorkersInv, RunsOK, RunOK, Renew, Live, envVars
    <2>2. PICK t \in TaskId : t = runs[n].task /\ Given(t, n)
      BY <2>1, RunFacts, Zenon
    <2>3. CASE UNCHANGED runs /\ \E ttl \in TTLs : RenewLease(runs[n].task, n, ttl, clock)
      <3>1. leases[t].token = n /\ LeaseLive(t, clock)
        BY <2>2, <2>3, Zenon DEF RenewLease, LeaseLive, HasLease
      <3>2. \A u \in TaskId : u # t => leases'[u] = leases[u]
        BY <2>0, <2>2, <2>3, Zenon DEF RenewLease
      <3>3. leases'[t].token = n
        <4>1. PICK end : leases' = [leases EXCEPT ![t].expiresAt = end]
          BY <2>2, <2>3, Zenon DEF RenewLease
        <4> QED
          BY <2>0, <3>1, <4>1, Zenon DEF Lease
      <3>4. ASSUME NEW m \in ClaimId, runs[m].renewErr,
                   leases'[runs[m].task].token = m, LeaseLive(runs[m].task, clock)'
            PROVE  FALSE
        <4>1. PICK u \in TaskId : u = runs[m].task
          BY <3>4, RunFacts, Zenon DEF FailedRenewalsLost
        <4>2. CASE u = t
          <5>1. m = n
            BY <3>3, <3>4, <4>1, <4>2, Zenon
          <5> QED
            BY <2>2, <3>1, <3>4, <5>1, Zenon DEF FailedRenewalsLost, LeaseLive, HasLease
        <4>3. CASE u # t
          <5>1. leases'[u] = leases[u] /\ leases'[u].token # 0 /\ leases'[u].expiresAt > clock'
            BY <2>3, <3>2, <3>4, <4>1, <4>3, Zenon DEF LeaseLive, HasLease
          <5> QED
            BY <2>1, <3>4, <4>1, <5>1, Zenon DEF FailedRenewalsLost, LeaseLive, HasLease
        <4> QED
          BY <4>2, <4>3, Zenon
      <3> QED
        BY <2>3, <3>4, Zenon DEF FailedRenewalsLost, Live, LeaseLive, HasLease
    <2>4. CASE /\ ~(leases[runs[n].task].token = n /\ LeaseLive(runs[n].task, clock))
               /\ runs' = [Canceled({n}, "renewal") EXCEPT ![n].renewErr = TRUE, ![n].renewing = FALSE]
               /\ UNCHANGED storeVars
      <3> DEFINE c == Canceled({n}, "renewal")
                 r == [c[n] EXCEPT !.renewErr = TRUE, !.renewing = FALSE]
      <3>1. /\ c \in [ClaimId -> Goroutine]
            /\ \A m \in ClaimId : c[m].pc = runs[m].pc /\ c[m].task = runs[m].task
            /\ \A m \in ClaimId : m # n => c[m] = runs[m]
        <4>1. RunsKeep(c)
          BY CanceledKeeps, Zenon DEF Cause
        <4> QED
          BY <4>1, Zenon DEF RunsKeep, Canceled
      <3> HIDE DEF c
      <3>2. runs' = [c EXCEPT ![n] = r]
        BY <2>4, Zenon DEF c
      <3>3. r.pc = runs[n].pc /\ r.task = runs[n].task
        BY <3>1, ZenonT(40) DEF Goroutine
      <3> HIDE DEF r
      <3>4. /\ \A m \in ClaimId : runs'[m].pc = runs[m].pc /\ runs'[m].task = runs[m].task
            /\ \A m \in ClaimId : m # n => runs'[m] = runs[m]
        BY <3>1, <3>2, <3>3, Zenon
      <3>5. leases' = leases
        BY <2>4, Zenon DEF storeVars
      <3>6. ASSUME NEW m \in ClaimId, runs'[m].renewErr
            PROVE  /\ runs'[m].pc # "none"
                   /\ ~(leases[runs[m].task].token = m /\ LeaseLive(runs[m].task, clock))
        <4>1. CASE m = n
          BY <2>1, <2>4, <3>4, <4>1, Zenon DEF Live
        <4>2. CASE m # n
          BY <3>4, <3>6, <4>2, Zenon DEF FailedRenewalsLost, Live
        <4> QED
          BY <4>1, <4>2, Zenon
      <3> QED
        BY <2>1, <3>4, <3>5, <3>6, Zenon DEF FailedRenewalsLost, Live, LeaseLive, HasLease
    <2> QED
      BY <2>3, <2>4, Zenon DEF Renew
  \* A goroutine that was stopped by the shutdown of its worker alone, and whose
  \* lease is good, hands the task back.
  <1>SettleHandsBack.
      ASSUME NEW n \in ClaimId, Settle(n),
           runs[n].result = "canceled", runs[n].cause = "shutdown",
           LeaseValid(runs[n].task, n, clock)
      PROVE  /\ tasks'[runs[n].task].status = "pending"
           /\ tasks'[runs[n].task].attempt = tasks[runs[n].task].attempt - 1
    <2> USE <1>SettleHandsBack
    <2>1. ~runs[n].renewErr /\ leases[runs[n].task].token = n
      BY Zenon DEF FailedRenewalsLost, LeaseValid
    <2>2. HandsBack(n)
      BY <2>1, Zenon DEF HandsBack
    <2>3. ~Succeeded(n)
      BY Zenon DEF Succeeded
    <2>4. ReleaseLease(runs[n].task, n)
      BY <2>1, <2>2, <2>3, Zenon DEF Settle, HandBack
    <2>5. Live(n)
      BY Zenon DEF Settle, Live
    <2>6. PICK t \in TaskId : t = runs[n].task
      BY <2>5, RunFacts, Zenon
    <2>7. /\ tasks \in [TaskId -> Task] /\ tasks[t].status = "running" /\ tasks[t].attempt >= 1
      BY <2>6, Zenon DEF WorkersInv, StoreFacts, CommandInv, StoreInv, TypeOK, RunningIffLeased,
         AttemptsInBudget, LeaseValid, LeaseLive, HasLease
    <2>8. tasks'[t] = Requeued(tasks[t], TRUE)
      BY <2>4, <2>6, <2>7, Zenon DEF ReleaseLease, Requeue
    <2>9. tasks'[t].status = "pending" /\ tasks'[t].attempt = tasks[t].attempt - 1
      <3>1. tasks[t] \in Task /\ tasks[t].attempt \in Nat
        BY <2>7, Zenon DEF Task
      <3> QED
        BY <2>7, <2>8, <3>1 DEF Requeued, Task
    <2> QED
      BY <2>6, <2>9, Zenon
  <1>0. /\ clock \in Time /\ runs \in [ClaimId -> Goroutine]
        /\ \A m \in ClaimId : runs[m].renewErr => Live(m)
    BY Zenon DEF WorkersInv, SchedulerTypeOK, FailedRenewalsLost
  <1>1. clock' >= clock
    <2>1. ASSUME NEW w \in Worker, LoopStep(w) PROVE clock' = clock
      BY <2>1, Zenon DEF LoopStep, Sweep, CancelLost, SkipRecovery, ClaimNextCommand, ApplyCommand,
         ReadLease, FindRun, CancelPendingTask, CancelLocalRun, CancelRemoteRun, ApplyRetryTask,
         AckCommand, NackCommand, AcquireSlot, ClaimForSlot, StartClaim, Poll, Drain, envVars
    <2>2. ASSUME NEW n \in ClaimId,
                 Register(n) \/ Renew(n) \/ RenewExit(n) \/ Return(n) \/ Settle(n) \/ Leave(n)
          PROVE  clock' = clock
      BY <2>2, Zenon DEF Register, Renew, RenewExit, Return, Settle, Leave, envVars
    <2>3. ASSUME NEW w \in Worker, Stop(w) \/ Crash(w) \/ Start(w) PROVE clock' = clock
      BY <2>3, Zenon DEF Stop, Crash, Start
    <2>4. Client \/ UNCHANGED schedulerVars => clock' = clock
      BY Zenon DEF Client, schedulerVars, envVars
    <2>5. clock' = clock \/ clock' = clock + 1
      BY <2>1, <2>2, <2>3, <2>4, Zenon DEF SchedulerNext, Tick
    <2> QED
      BY <1>0, <2>5 DEF Time
  <1>2. ASSUME LeasesFall, ErrorsStay
        PROVE  /\ FailedRenewalsLost'
               /\ \A n \in ClaimId : ~(runs[n].pc = "returned" /\ runs'[n].pc = "leaving")
    BY <1>1, <1>2, <1>LostStaysLost, Zenon DEF ErrorsStay
  <1>3. ASSUME NEW n \in ClaimId, Renew(n)
        PROVE  /\ FailedRenewalsLost'
               /\ \A m \in ClaimId : ~(runs[m].pc = "returned" /\ runs'[m].pc = "leaving")
    BY <1>3, <1>RenewLoses, Zenon
  <1>4. ASSUME NEW n \in ClaimId, Settle(n)
        PROVE  /\ FailedRenewalsLost'
               /\ \A m \in ClaimId : m # n => runs'[m] = runs[m]
    <2> DEFINE r == [runs[n] EXCEPT !.pc = "leaving"]
    <2>1. runs' = [runs EXCEPT ![n] = r]
      BY <1>4, Zenon DEF Settle
    <2>2. r.renewErr = runs[n].renewErr /\ r.task = runs[n].task /\ r.pc = "leaving"
      BY <1>0, Zenon DEF Goroutine
    <2> HIDE DEF r
    <2>3. \A m \in ClaimId : runs'[m] = IF m = n THEN r ELSE runs[m]
      BY <1>0, <2>1, Zenon
    <2>4. \A m \in ClaimId : runs'[m].renewErr =>
             runs[m].renewErr /\ runs'[m].task = runs[m].task /\ runs'[m].pc # "none"
      BY <1>0, <2>2, <2>3, Zenon DEF Live
    <2>5. LeasesFall
      BY <1>4, <1>DropFalls, <1>SameFalls, <1>ReleaseFalls, <1>FailFalls, Zenon
         DEF Settle, HandBack, CompleteTask
    <2> QED
      BY <1>1, <2>3, <2>4, <2>5, <1>LostStaysLost, Zenon
  <1>5. CASE UNCHANGED schedulerVars
    BY <1>0, <1>2, <1>5, <1>SameErrors, <1>SameFalls, Zenon DEF schedulerVars, workerVars, allVars
  <1>6. ASSUME NEW n \in ClaimId, Settle(n), NEW m \in ClaimId,
               runs[m].pc = "returned", runs'[m].pc = "leaving"
        PROVE  m = n
    BY <1>4, <1>6, Zenon
  <1> QED
    BY <1>2, <1>3, <1>4, <1>5, <1>6, <1>LoopRests, <1>RunRests, <1>OutsideRests, <1>SettleHandsBack, Zenon
       DEF SchedulerNext

-----------------------------------------------------------------------------
(* Steps of a loop. *)

\* A step that ends runs drops leases and touches no other.
LEMMA StopStepLeases ==
  ASSUME StopStep, NEW t \in TaskId
  PROVE  leases'[t] = leases[t] \/ leases'[t] = NoLease
  <1>1. Stays(t) \/ Stops(t)
    BY Zenon DEF StopStep
  <1>2. Stays(t) => leases'[t] = leases[t]
    BY Zenon DEF Stays
  <1>3. Stops(t) => leases'[t] = NoLease
    BY Zenon DEF Stops
  <1> QED
    BY <1>1, <1>2, <1>3, Zenon

\* A step that only ends runs in the store, or leaves the tasks alone, makes no
\* lease live.
LEMMA NoNewLease ==
  ASSUME WorkersInv, StopStep \/ UNCHANGED storeVars, RunsKeep(runs'), clock' = clock
  PROVE  LeasesSteady
  <1> SUFFICES ASSUME NEW t \in TaskId, LeaseLive(t, clock)'
               PROVE  /\ LeaseLive(t, clock)
                      /\ leases'[t].token = leases[t].token
                      /\ runs[leases[t].token].pc \in AtWork => runs'[leases[t].token].pc \in AtWork
    BY Zenon DEF LeasesSteady
  <1>1. leases'[t] = leases[t]
    <2>1. CASE UNCHANGED storeVars
      BY <2>1, Zenon DEF storeVars
    <2>2. CASE StopStep
      BY <2>2, StopStepLeases DEF NoLease, LeaseLive, HasLease
    <2> QED
      BY <2>1, <2>2, Zenon
  <1>2. LeaseLive(t, clock)
    BY <1>1, Zenon DEF LeaseLive, HasLease
  <1>3. leases[t].token \in ClaimId
    BY <1>2, TokensAreClaimIds, Zenon DEF LeaseLive, WorkersInv
  <1> QED
    BY <1>1, <1>2, <1>3, Zenon DEF RunsKeep

\* A step of a loop outside dispatch preserves the invariant.
LEMMA LoopQuiet ==
  ASSUME WorkersInv, NEW w \in Worker, Next \/ UNCHANGED allVars, LoopMoves(w),
         StopStep \/ UNCHANGED storeVars,
         loop[w].pc \notin Dispatching, loop'[w].pc \notin Dispatching,
         RunsKeep(runs'), UNCHANGED <<slots, active>>, clock' = clock, abandoned' = abandoned,
         CommandsSteady
  PROVE  Kept
  <1>1. StoreGrows
    BY StoreFactsStep, Zenon DEF WorkersInv
  <1>2. /\ loop' \in [Worker -> LoopRecord] /\ LoopsOK'
        /\ \A v \in Worker : v # w => loop'[v] = loop[v]
    BY <1>1, OneLoop, Zenon
  <1>3. runs' \in [ClaimId -> Goroutine] /\ RunsOK'
    BY <1>1, RunsKept, Zenon
  <1>4. SchedulerTypeOK'
    BY <1>2, <1>3, Zenon DEF WorkersInv, SchedulerTypeOK
  <1>5. LeasesSteady
    BY NoNewLease, Zenon
  <1>6. \A n \in ClaimId :
          /\ runs'[n].worker = runs[n].worker
          /\ runs'[n].task = runs[n].task
          /\ runs'[n].pc = runs[n].pc
    BY Zenon DEF RunsKeep
  <1> QED
    BY <1>2, <1>3, <1>4, <1>5, <1>6, SteadyKeeps, Zenon DEF Steady

\* The same for a step that does not touch the commands.
LEMMA LoopQuietTasks ==
  ASSUME WorkersInv, NEW w \in Worker, (StoreNext /\ StopStep) \/ UNCHANGED storeVars,
         UNCHANGED commandVars, LoopMoves(w),
         loop[w].pc \notin Dispatching, loop'[w].pc \notin Dispatching,
         loop'[w].cmd = loop[w].cmd \/ loop[w].pc \notin Handling,
         RunsKeep(runs'), UNCHANGED <<slots, active>>, clock' = clock, abandoned' = abandoned
  PROVE  Kept
  <1>1. Next \/ UNCHANGED allVars
    BY Zenon DEF Next, allVars
  <1>2. \A v \in Worker : v # w => loop'[v] = loop[v]
    BY Zenon DEF LoopMoves, WorkersInv, SchedulerTypeOK
  <1>3. loop[w].pc \notin Handling => loop[w].cmd.id = 0
    BY Zenon DEF WorkersInv, LoopsOK, LoopOK
  <1>4. \A k \in CommandId : k # 0
    BY DEF CommandId
  <1>5. CommandsSteady
    BY <1>2, <1>3, <1>4, Zenon DEF CommandsSteady, commandVars
  <1> QED
    BY <1>1, <1>5, LoopQuiet, Zenon

\* A loop with nothing in its hands.
LEMMA AtFields ==
  ASSUME NEW pc \in LoopPc
  PROVE  /\ At(pc) \in LoopRecord
         /\ At(pc).pc = pc /\ At(pc).cmd = NoCmd /\ At(pc).now = 0 /\ At(pc).claim = 0
         /\ NoCmd.id = 0 /\ NoCmd.token = 0
  <1>1. NoCmd \in Cmd /\ NoCmd.id = 0 /\ NoCmd.token = 0
    BY Zenon DEF NoCmd, Cmd, Kind
  <1>2. {} \in SUBSET TaskId /\ {} \in SUBSET Lost
    OBVIOUS
  <1> QED
    BY <1>1, <1>2, Zenon DEF At, LoopRecord

\* Going on with nothing in hand.
LEMMA GotoMoves ==
  ASSUME WorkersInv, NEW w \in Worker, NEW pc \in LoopPc, pc \notin Handling,
         pc \notin {"cancelLost", "start"}, Goto(w, pc)
  PROVE  LoopMoves(w) /\ loop'[w].pc = pc /\ loop'[w].cmd.id = 0
  <1> DEFINE m == At(pc)
  <1>1. m \in LoopRecord /\ m.pc = pc /\ m.cmd.id = 0
    BY AtFields, Zenon
  <1>2. loop' = [loop EXCEPT ![w] = m]
    BY Zenon DEF Goto
  <1> HIDE DEF m
  <1>3. loop'[w] = m /\ loop' = [loop EXCEPT ![w] = loop'[w]]
    BY <1>2, Zenon DEF WorkersInv, SchedulerTypeOK
  <1>4. LoopOK(w, loop[w])'
    BY <1>1, <1>3, Zenon DEF LoopOK, Handling
  <1> QED
    BY <1>1, <1>3, <1>4, Zenon DEF LoopMoves

\* Going on with the command in hand.
LEMMA StepMoves ==
  ASSUME WorkersInv, StoreGrows, NEW w \in Worker, NEW pc \in {"ack", "nack", "lease"},
         loop[w].pc \in Handling, loop[w].pc # "apply", pc = "lease" => loop[w].cmd.kind # "retry",
         Step(w, pc)
  PROVE  LoopMoves(w) /\ loop'[w].pc = pc /\ loop'[w].cmd = loop[w].cmd
  <1> DEFINE m == [loop[w] EXCEPT !.pc = pc]
  <1>1. loop[w] \in LoopRecord /\ LoopOK(w, loop[w]) /\ pc \in LoopPc
    BY Zenon DEF WorkersInv, SchedulerTypeOK, LoopsOK, LoopPc, Handling
  <1>2. m \in LoopRecord /\ m.pc = pc /\ m.cmd = loop[w].cmd /\ m.now = loop[w].now
    BY <1>1, Zenon DEF LoopRecord
  <1>3. loop' = [loop EXCEPT ![w] = m]
    BY Zenon DEF Step, WorkersInv, SchedulerTypeOK
  <1> HIDE DEF m
  <1>4. loop'[w] = m /\ loop' = [loop EXCEPT ![w] = loop'[w]]
    BY <1>3, Zenon DEF WorkersInv, SchedulerTypeOK
  <1>5. LoopOK(w, loop[w])'
    BY <1>1, <1>2, <1>4, Zenon DEF LoopOK, Handling, StoreGrows
  <1> QED
    BY <1>2, <1>4, <1>5, Zenon DEF LoopMoves

-----------------------------------------------------------------------------
(* Calls to the store with a token that was given out. *)

LEMMA CancelIsStoreStep ==
  ASSUME StoreFacts, NEW t \in TaskId, NEW token, NEW now \in Time,
         token = 0 \/ Given(t, token), CancelTask(t, token, now)
  PROVE  StoreNext /\ StopStep
  <1>1. StopStep
    BY CancelTaskStops, CoreOfStore, Zenon DEF StoreFacts, CommandInv
  <1>2. CASE token = 0
    <2>1. CancelTask(t, 0, now)
      BY <1>2, Zenon DEF CancelTask
    <2> QED
      BY <1>1, <2>1, Zenon DEF StoreNext
  <1>3. CASE Given(t, token)
    <2>1. PICK c \in claims : c.task = t /\ c.token = token
      BY <1>3, Zenon DEF Given
    <2>2. CancelTask(c.task, c.token, now)
      BY <2>1, Zenon DEF CancelTask
    <2> QED
      BY <1>1, <2>2, Zenon DEF StoreNext
  <1> QED
    BY <1>2, <1>3, Zenon

LEMMA FailIsStoreStep ==
  ASSUME StoreFacts, NEW t \in TaskId, NEW token, NEW retryable \in BOOLEAN, NEW now \in Time,
         Given(t, token), FailTask(t, token, retryable, now)
  PROVE  StoreNext /\ StopStep
  <1>1. StopStep
    BY FailTaskStops, CoreOfStore, Zenon DEF StoreFacts, CommandInv
  <1>2. PICK c \in claims : c.task = t /\ c.token = token
    BY Zenon DEF Given
  <1>3. FailTask(c.task, c.token, retryable, now)
    BY <1>2, Zenon DEF FailTask
  <1> QED
    BY <1>1, <1>3, Zenon DEF StoreNext

LEMMA CompleteIsStoreStep ==
  ASSUME StoreFacts, NEW t \in TaskId, NEW token, NEW emits \in BOOLEAN, NEW now \in Time,
         Given(t, token), CompleteTask(t, token, emits, now)
  PROVE  StoreNext /\ StopStep
  <1>1. StopStep
    BY CompleteTaskStops, CoreOfStore DEF StoreFacts, CommandInv
  <1>2. PICK c \in claims : c.task = t /\ c.token = token
    BY DEF Given
  <1>3. CompleteTask(c.task, c.token, emits, now)
    BY <1>2, Zenon DEF CompleteTask
  <1> QED
    BY <1>1, <1>3, Zenon DEF StoreNext

LEMMA ReleaseIsStoreStep ==
  ASSUME StoreFacts, NEW t \in TaskId, NEW token, Given(t, token), ReleaseLease(t, token)
  PROVE  StoreNext /\ StopStep
  <1>1. StopStep
    BY ReleaseLeaseStops, CoreOfStore, Zenon DEF StoreFacts, CommandInv
  <1>2. PICK c \in claims : c.task = t /\ c.token = token
    BY Zenon DEF Given
  <1>3. ReleaseLease(c.task, c.token)
    BY <1>2, Zenon DEF ReleaseLease
  <1> QED
    BY <1>1, <1>3, Zenon DEF StoreNext

LEMMA RenewIsStoreStep ==
  ASSUME StoreFacts, NEW t \in TaskId, NEW token, NEW ttl \in TTLs, NEW now \in Time,
         Given(t, token), RenewLease(t, token, ttl, now)
  PROVE  StoreNext
  <1>1. PICK c \in claims : c.task = t /\ c.token = token
    BY Zenon DEF Given
  <1>2. RenewLease(c.task, c.token, ttl, now)
    BY <1>1, Zenon DEF RenewLease
  <1> QED
    BY <1>2, Zenon DEF StoreNext

-----------------------------------------------------------------------------
(* The loop: recovery. *)

LEMMA SweepKeeps ==
  ASSUME WorkersInv, NEW w \in Worker, Sweep(w)
  PROVE  Kept
  <1> DEFINE lost == {[task |-> t, run |-> tasks[t].run.id] :
                        t \in {x \in TaskId : LeaseExpired(x, clock)}}
             m == [At("cancelLost") EXCEPT !.now = clock, !.lost = lost]
  <1>1. clock \in Time /\ clock \in Nat
    BY DEF WorkersInv, SchedulerTypeOK, Time
  <1>2. lost \in SUBSET Lost
    <2>1. TypeOK
      BY Zenon DEF WorkersInv, StoreFacts, CommandInv, StoreInv
    <2>2. \A t \in TaskId : tasks[t] \in Task
      BY <2>1, Zenon DEF TypeOK
    <2>3. \A t \in TaskId : tasks[t].run.id \in Nat
      BY <2>2, Zenon DEF Task, RunRef
    <2> QED
      BY <2>3 DEF Lost
  <1>3. loop' = [loop EXCEPT ![w] = m]
    BY Zenon DEF Sweep
  <1> HIDE DEF lost
  <1>4. m \in LoopRecord /\ m.pc = "cancelLost" /\ m.cmd.id = 0 /\ m.now = clock
    <2>1. "cancelLost" \in LoopPc
      BY Zenon DEF LoopPc
    <2>2. At("cancelLost") \in LoopRecord /\ At("cancelLost").pc = "cancelLost"
          /\ At("cancelLost").cmd.id = 0
      BY <2>1, AtFields, Zenon
    <2> QED
      BY <1>1, <1>2, <2>2, Zenon DEF LoopRecord
  <1> HIDE DEF m
  <1>5. loop'[w] = m /\ loop' = [loop EXCEPT ![w] = loop'[w]]
    BY <1>3, Zenon DEF WorkersInv, SchedulerTypeOK
  <1>6. LoopOK(w, loop[w])'
    BY <1>1, <1>4, <1>5, Zenon DEF LoopOK, Handling
  <1>7. StoreNext /\ StopStep
    <2>1. RecoverLeases(TaskId, clock) /\ RecoverExpiredLeases(clock)
      BY Zenon DEF Sweep, RecoverExpiredLeases
    <2>2. PICK now \in Time : now = clock
      BY <1>1, Zenon
    <2>3. RecoverLeases(TaskId, now)
      BY <2>1, <2>2 DEF RecoverLeases, LeaseExpired
    <2>4. StopStep
      BY <2>3, RecoverLeasesStops, CoreOfStore, Zenon DEF WorkersInv, StoreFacts, CommandInv
    <2>5. RecoverExpiredLeases(now)
      BY <2>3, Zenon DEF RecoverExpiredLeases
    <2> QED
      BY <2>4, <2>5, Zenon DEF StoreNext
  <1>8. /\ loop[w].pc \notin Dispatching /\ loop'[w].pc \notin Dispatching /\ loop[w].pc \notin Handling
        /\ UNCHANGED commandVars /\ UNCHANGED <<slots, active>> /\ runs' = runs
        /\ clock' = clock /\ abandoned' = abandoned
    BY <1>4, <1>5, Zenon DEF Sweep, envVars, Dispatching, Handling
  <1>9. RunsKeep(runs')
    BY <1>8, SameRunsKeep, Zenon
  <1> QED
    BY <1>4, <1>5, <1>6, <1>7, <1>8, <1>9, LoopQuietTasks, Zenon DEF LoopMoves

LEMMA CancelLostKeeps ==
  ASSUME WorkersInv, NEW w \in Worker, CancelLost(w)
  PROVE  Kept
  <1>1. PICK now \in Time : now = loop[w].now
    BY Zenon DEF CancelLost, WorkersInv, LoopsOK, LoopOK
  <1>2. PICK before \in Int : before = now - ClaimTimeout
    BY <1>1, SchedulerConstants DEF Time
  <1>3. RecoverClaimedCommands(before)
    BY <1>1, <1>2, Zenon DEF CancelLost, RecoverClaimedCommands, RecoverCommands
  <1>4. before <= MaxTime
    BY <1>2, SchedulerConstants, StoreConstants DEF Time
  <1>5. /\ UNCHANGED storeVars /\ UNCHANGED <<nextCommand, nanos, commandClaims>>
        /\ \A k \in CommandId : commands'[k] \in {commands[k], Unclaimed(commands[k])}
    BY <1>3, Zenon DEF RecoverClaimedCommands, RecoverCommands
  <1>6. commands \in [CommandId -> Command]
    BY Zenon DEF WorkersInv, StoreFacts, CommandInv, CommandTypeOK
  <1>7. Next \/ UNCHANGED allVars
    <2>1. CASE before \in Time
      BY <1>3, <2>1, Zenon DEF Next, CommandNext
    <2>2. CASE before \notin Time
      <3>1. before < 1
        BY <1>4, <2>2, StoreConstants DEF Time
      <3>2. \A k \in CommandId : ~(commands[k].status = "claimed" /\ commands[k].claimedAt <= before)
        BY <1>6, <3>1 DEF WorkersInv, StoreFacts, CommandTokens, Command
      <3>3. commands' = commands
        BY <1>3, <1>6, <3>2, Zenon DEF RecoverClaimedCommands, RecoverCommands
      <3> QED
        BY <1>5, <3>3, Zenon DEF allVars, commandVars
    <2> QED
      BY <2>1, <2>2, Zenon
  <1>8. LoopMoves(w) /\ loop'[w].pc = "commands" /\ loop'[w].cmd.id = 0
    BY GotoMoves, Zenon DEF CancelLost, LoopPc, Handling
  <1>9. RunsKeep(runs')
    BY CanceledKeeps, Zenon DEF CancelLost, Cause
  <1>10. /\ loop[w].pc = "cancelLost" /\ UNCHANGED <<slots, active>>
         /\ clock' = clock /\ abandoned' = abandoned
    BY Zenon DEF CancelLost, envVars
  <1>11. loop[w].cmd.id = 0
    BY <1>10, Zenon DEF WorkersInv, LoopsOK, LoopOK, Handling
  <1>12. CommandsSteady
    <2>1. \A k \in CommandId : commands'[k].status = "claimed" => commands'[k] = commands[k]
      BY <1>5, <1>6, UnclaimedFields, Zenon
    <2>2. \A v \in Worker : v # w => loop'[v] = loop[v]
      BY <1>8, Zenon DEF LoopMoves, WorkersInv, SchedulerTypeOK
    <2>3. \A k \in CommandId : k # 0
      BY DEF CommandId
    <2> QED
      BY <1>11, <2>1, <2>2, <2>3, Zenon DEF CommandsSteady
  <1>13. loop[w].pc \notin Dispatching /\ loop'[w].pc \notin Dispatching
    BY <1>8, <1>10, Zenon DEF Dispatching
  <1> QED
    BY <1>5, <1>7, <1>8, <1>9, <1>10, <1>12, <1>13, LoopQuiet, Zenon

\* The steps that only look and go on: SkipRecovery, Poll, Drain, Start.
LEMMA GotoKeeps ==
  ASSUME WorkersInv, NEW w \in Worker, NEW pc \in {"top", "commands", "dispatch", "wait", "drain", "down"},
         Goto(w, pc), loop[w].pc \notin Handling \cup Dispatching,
         UNCHANGED <<allVars, slots, active, runs, clock, abandoned>>
  PROVE  Kept
  <1>1. LoopMoves(w) /\ loop'[w].pc = pc
    BY GotoMoves, Zenon DEF LoopPc, Handling
  <1>2. RunsKeep(runs')
    BY SameRunsKeep, Zenon
  <1>3. UNCHANGED storeVars /\ UNCHANGED commandVars
    BY Zenon DEF allVars
  <1>4. loop'[w].pc \notin Dispatching
    BY <1>1, Zenon DEF Dispatching
  <1> QED
    BY <1>1, <1>2, <1>3, <1>4, LoopQuietTasks, Zenon

LEMMA IdleStepsKeep ==
  ASSUME WorkersInv, NEW w \in Worker, SkipRecovery(w) \/ Poll(w) \/ Drain(w) \/ Start(w)
  PROVE  Kept
  <1>1. CASE SkipRecovery(w)
    BY <1>1, GotoKeeps, Zenon DEF SkipRecovery, envVars, Handling, Dispatching
  <1>2. CASE Poll(w)
    BY <1>2, GotoKeeps, Zenon DEF Poll, envVars, Handling, Dispatching
  <1>3. CASE Drain(w)
    BY <1>3, GotoKeeps, Zenon DEF Drain, envVars, Handling, Dispatching
  <1>4. CASE Start(w)
    BY <1>4, GotoKeeps, Zenon DEF Start, envVars, Handling, Dispatching
  <1> QED
    BY <1>1, <1>2, <1>3, <1>4, Zenon

-----------------------------------------------------------------------------
(* The loop: commands. *)

\* What a loop knows of the command in its hands.
LEMMA InHand ==
  ASSUME WorkersInv, NEW w \in Worker, loop[w].pc \in Handling
  PROVE  /\ loop[w] \in LoopRecord /\ loop[w].cmd \in Cmd
         /\ loop[w].cmd.id \in CommandId /\ loop[w].cmd.task \in TaskId
         /\ [command |-> loop[w].cmd.id, token |-> loop[w].cmd.token, worker |-> w] \in commandClaims
         /\ loop[w].pc # "apply" => loop[w].now \in Time
  BY Zenon DEF WorkersInv, SchedulerTypeOK, LoopsOK, LoopOK, LoopRecord

LEMMA ClaimNextCommandKeeps ==
  ASSUME WorkersInv, NEW w \in Worker, ClaimNextCommand(w)
  PROVE  Kept
  <1>1. /\ loop[w].pc = "commands" /\ UNCHANGED <<slots, active, runs>>
        /\ clock' = clock /\ abandoned' = abandoned
        /\ loop[w].pc \notin Handling \cup Dispatching
    BY Zenon DEF ClaimNextCommand, envVars, Handling, Dispatching
  <1>2. CASE Goto(w, "dispatch") /\ UNCHANGED allVars
    BY <1>1, <1>2, GotoKeeps, Zenon
  <1>3. CASE Goto(w, "drain") /\ UNCHANGED allVars
    BY <1>1, <1>3, GotoKeeps, Zenon
  <1> DEFINE chosen == CHOOSE j \in CommandId : commands'[j].token = nanos'
             cmd == [id |-> chosen, token |-> commands'[chosen].token,
                     kind |-> commands'[chosen].kind, task |-> commands'[chosen].task,
                     run |-> commands'[chosen].run]
             m == [At("apply") EXCEPT !.cmd = cmd]
  <1>4. CASE /\ ClaimPendingCommand(w, clock)
             /\ nanos' = nanos => Goto(w, "dispatch")
             /\ nanos' # nanos => loop' = [loop EXCEPT ![w] = m]
    <2>1. PICK now \in Time : now = clock
      BY Zenon DEF WorkersInv, SchedulerTypeOK
    <2>2. ClaimPendingCommand(w, now)
      BY <1>4, <2>1 DEF ClaimPendingCommand, ClaimSeen
    <2>3. Next
      BY <2>2, Zenon DEF Next, CommandNext
    <2>4. StoreFacts' /\ StoreGrows
      BY <2>3, StoreFactsStep, Zenon DEF WorkersInv
    <2>5. ClaimOutcome(w, now)
      BY <2>2, ClaimsHaveOutcome, Zenon
    <2>6. /\ \A k \in CommandId : Pending(k) =>
               Refreshed(k).status = "pending" /\ Refreshed(k).token = commands[k].token
          /\ nanos \in Nat /\ commands \in [CommandId -> Command]
          /\ \A k \in CommandId : commands[k].token \in Nat /\ commands[k].token <= nanos /\ k # 0
      BY RefreshedFields, SMTT(30)
         DEF WorkersInv, StoreFacts, CommandInv, CommandTypeOK, Command, CommandTokens, CommandId
    <2>7. RunsKeep(runs') /\ loop[w].cmd.id = 0
      BY <1>1, SameRunsKeep, Zenon DEF WorkersInv, LoopsOK, LoopOK
    <2>8. ASSUME NEW seen \in SUBSET CommandId, \A j \in seen : Pending(j), OnlyRefresh(seen)
          PROVE  Kept
      <3>1. UNCHANGED storeVars /\ nanos' = nanos
        BY <2>8, Zenon DEF OnlyRefresh
      <3>2. LoopMoves(w) /\ loop'[w].pc = "dispatch"
        BY <1>4, <3>1, GotoMoves, Zenon DEF LoopPc, Handling
      <3>3. \A v \in Worker : v # w => loop'[v] = loop[v]
        BY <3>2, Zenon DEF LoopMoves, WorkersInv, SchedulerTypeOK
      <3>4. \A k \in CommandId : commands'[k].status = "claimed" => commands'[k] = commands[k]
        BY <2>6, <2>8, Zenon DEF OnlyRefresh
      <3>5. CommandsSteady
        BY <2>6, <2>7, <3>3, <3>4, Zenon DEF CommandsSteady
      <3> QED
        BY <1>1, <2>3, <2>7, <3>1, <3>2, <3>5, LoopQuiet, Zenon DEF Dispatching
    <2>9. ASSUME NEW k \in CommandId, NEW seen \in SUBSET CommandId, Pending(k),
                 k \notin seen, \A j \in seen : Pending(j), ClaimSeen(k, w, now, seen)
          PROVE  Kept
      <3>1. /\ UNCHANGED storeVars /\ nanos' = nanos + 1 /\ nanos' # nanos
            /\ [command |-> k, token |-> nanos + 1, worker |-> w] \in commandClaims'
        BY <2>6, <2>9 DEF ClaimSeen
      <3>2. \A j \in CommandId : j # k =>
              commands'[j] = IF j \in seen THEN Refreshed(j) ELSE commands[j]
        BY <2>9, Zenon DEF ClaimSeen
      <3>3. commands'[k].token = nanos + 1 /\ commands'[k].status = "claimed"
        <4>1. commands'[k] = Claimed(Refreshed(k), w, now, nanos + 1) /\ Refreshed(k) \in Command
          BY <2>9, RefreshedFields, Zenon DEF ClaimSeen, WorkersInv, StoreFacts
        <4> QED
          BY <4>1, Zenon DEF Claimed, Command
      <3>4. \A j \in CommandId : j # k => commands'[j].token <= nanos /\ commands'[j].token \in Nat
        BY <2>6, <2>9, <3>2, Zenon
      <3>5. chosen = k
        BY <2>6, <3>1, <3>3, <3>4, SMTT(30)
      <3>6. commands'[k] \in Command /\ commands'[k].task \in TaskId
        BY <2>4, <3>3, Zenon DEF StoreFacts, CommandInv, CommandTypeOK
      <3>7. cmd \in Cmd /\ cmd.id = k /\ cmd.token = nanos + 1 /\ cmd.task \in TaskId
        <4>1. k \in Nat
          BY DEF CommandId
        <4> QED
          BY <3>3, <3>5, <3>6, <4>1, Zenon DEF Cmd, Command
      <3>8. loop' = [loop EXCEPT ![w] = m]
        BY <1>4, <3>1, Zenon
      <3> HIDE DEF cmd, chosen
      <3>9. m \in LoopRecord /\ m.pc = "apply" /\ m.cmd = cmd
        <4>1. "apply" \in LoopPc
          BY Zenon DEF LoopPc, Handling
        <4>2. At("apply") \in LoopRecord /\ At("apply").pc = "apply"
          BY <4>1, AtFields, Zenon
        <4> QED
          BY <3>7, <4>2, Zenon DEF LoopRecord
      <3> HIDE DEF m
      <3>10. loop'[w] = m /\ loop' = [loop EXCEPT ![w] = loop'[w]]
             /\ \A v \in Worker : v # w => loop'[v] = loop[v]
        BY <3>8, Zenon DEF WorkersInv, SchedulerTypeOK
      <3>11. LoopOK(w, loop[w])'
        BY <3>1, <3>7, <3>9, <3>10, Zenon DEF LoopOK, Handling
      <3>12. CommandsSteady
        <4>1. \A j \in CommandId : j # k /\ commands'[j].status = "claimed" => commands'[j] = commands[j]
          BY <2>6, <2>9, <3>2, Zenon
        <4>2. loop'[w].cmd.id = k /\ loop'[w].cmd.token = commands'[k].token
          BY <3>3, <3>7, <3>9, <3>10, Zenon
        <4> QED
          BY <2>6, <2>7, <3>10, <4>1, <4>2, Zenon DEF CommandsSteady
      <3>13. LoopMoves(w) /\ loop'[w].pc \notin Dispatching
        BY <3>9, <3>10, <3>11, Zenon DEF LoopMoves, Dispatching
      <3> QED
        BY <1>1, <2>3, <2>7, <3>1, <3>12, <3>13, LoopQuiet, Zenon
    <2> QED
      BY <2>5, <2>8, <2>9, Zenon DEF ClaimOutcome
  <1> QED
    BY <1>2, <1>3, <1>4, Zenon DEF ClaimNextCommand

\* The loop looks at the store and remembers what it saw.
LEMMA LookKeeps ==
  ASSUME WorkersInv, NEW w \in Worker, loop[w].pc \in Handling, LoopMoves(w),
         loop'[w].pc \in Handling, loop'[w].cmd = loop[w].cmd, UNCHANGED allVars,
         RunsKeep(runs'), UNCHANGED <<slots, active, envVars>>
  PROVE  Kept
  <1>1. UNCHANGED storeVars /\ UNCHANGED commandVars /\ clock' = clock /\ abandoned' = abandoned
        /\ slots' = slots /\ active' = active
    BY Zenon DEF allVars, envVars
  <1>2. loop[w].pc \notin Dispatching /\ loop'[w].pc \notin Dispatching
    BY Zenon DEF Handling, Dispatching
  <1> QED
    BY <1>1, <1>2, LoopQuietTasks, Zenon

LEMMA ApplyCommandKeeps ==
  ASSUME WorkersInv, NEW w \in Worker, ApplyCommand(w)
  PROVE  Kept
  <1> DEFINE cmd == loop[w].cmd
             task == tasks[cmd.task]
             p == CASE cmd.kind = "cancel" /\ task.status = "pending" -> "cancelPending"
                    [] cmd.kind = "cancel" /\ task.status = "running" -> "lease"
                    [] cmd.kind = "abort" /\ task.status = "running"
                         /\ cmd.run \in {0, task.run.id} -> "local"
                    [] cmd.kind = "retry" /\ task.status \in {"failed", "canceled"} -> "retry"
                    [] OTHER -> "ack"
             r == IF p \in {"lease", "local"} THEN task.run.id ELSE 0
             m == [loop[w] EXCEPT !.pc = p, !.now = clock, !.run = r]
  <1>1. loop[w].pc = "apply" /\ UNCHANGED allVars /\ runs' = runs /\ UNCHANGED <<slots, active, envVars>>
    BY ZenonT(40) DEF ApplyCommand
  <1>2. /\ p \in {"cancelPending", "lease", "local", "retry", "ack"}
        /\ p = "lease" => cmd.kind = "cancel"
        /\ p = "local" => cmd.kind = "abort"
    OBVIOUS
  <1>3. loop' = [loop EXCEPT ![w] = m]
    BY ZenonT(40) DEF ApplyCommand, WorkersInv, SchedulerTypeOK
  <1> HIDE DEF p
  <1>4. /\ loop[w] \in LoopRecord /\ cmd.id \in CommandId /\ cmd.task \in TaskId
        /\ [command |-> cmd.id, token |-> cmd.token, worker |-> w] \in commandClaims
        /\ loop[w].pc \in Handling
    BY <1>1, InHand, Zenon DEF Handling
  <1>5. r \in Nat /\ clock \in Nat /\ clock \in Time
    <2>1. clock \in Time
      BY Zenon DEF WorkersInv, SchedulerTypeOK
    <2>2. TypeOK
      BY Zenon DEF WorkersInv, StoreFacts, CommandInv, StoreInv
    <2>3. task \in Task
      BY <1>4, <2>2, Zenon DEF TypeOK
    <2>4. task.run.id \in Nat
      BY <2>3, Zenon DEF Task, RunRef
    <2> QED
      BY <2>1, <2>4 DEF Time
  <1> HIDE DEF r
  <1>6. m \in LoopRecord /\ m.pc = p /\ m.cmd = cmd /\ m.now = clock
    BY <1>2, <1>4, <1>5, Zenon DEF LoopRecord, LoopPc, Handling
  <1> HIDE DEF m
  <1>7. loop'[w] = m /\ loop' = [loop EXCEPT ![w] = loop'[w]]
    BY <1>3 DEF WorkersInv, SchedulerTypeOK
  <1>8. commandClaims' = commandClaims
    BY <1>1, Zenon DEF allVars, commandVars
  <1>9. LoopOK(w, loop[w])'
    BY <1>2, <1>4, <1>5, <1>6, <1>7, <1>8, Zenon DEF LoopOK, Handling
  <1>10. LoopMoves(w) /\ loop'[w].pc \in Handling
    BY <1>2, <1>6, <1>7, <1>9, Zenon DEF LoopMoves, Handling
  <1> QED
    BY <1>1, <1>4, <1>6, <1>7, <1>10, LookKeeps, SameRunsKeep, ZenonT(40)

LEMMA ReadLeaseKeeps ==
  ASSUME WorkersInv, NEW w \in Worker, ReadLease(w)
  PROVE  Kept
  <1> DEFINE cmd == loop[w].cmd
             lease == leases[cmd.task].token
             p == CASE lease = 0 -> "nack"
                    [] lease # 0 /\ cmd.kind = "cancel" -> "local"
                    [] lease # 0 /\ cmd.kind = "abort" -> "remote"
             m == [loop[w] EXCEPT !.lease = lease, !.pc = p]
  <1>1. loop[w].pc = "lease" /\ UNCHANGED allVars /\ runs' = runs /\ UNCHANGED <<slots, active, envVars>>
    BY Zenon DEF ReadLease
  <1>2. /\ loop[w] \in LoopRecord /\ cmd \in Cmd /\ cmd.id \in CommandId /\ cmd.task \in TaskId
        /\ [command |-> cmd.id, token |-> cmd.token, worker |-> w] \in commandClaims
        /\ loop[w].pc \in Handling /\ loop[w].now \in Time
    BY <1>1, InHand, Zenon DEF Handling
  <1>3. cmd.kind \in {"cancel", "abort"}
    BY <1>1, <1>2, Zenon DEF WorkersInv, LoopsOK, LoopOK, Cmd, Kind
  <1>4. /\ p \in {"nack", "local", "remote"}
        /\ p \in {"local", "remote"} => lease # 0
    BY <1>3, Zenon
  <1>5. loop' = [loop EXCEPT ![w] = m]
    <2>1. loop' = [loop EXCEPT ![w].lease = lease, ![w].pc = p]
      BY Zenon DEF ReadLease
    <2>2. loop \in [Worker -> LoopRecord]
      BY Zenon DEF WorkersInv, SchedulerTypeOK
    <2> HIDE DEF p, lease
    <2> QED
      BY <2>1, <2>2, Zenon
  <1> HIDE DEF p
  <1>6. lease \in Nat /\ (lease # 0 => Given(cmd.task, lease))
    BY <1>2, Zenon DEF WorkersInv, StoreFacts, CommandInv, StoreInv, TypeOK, Lease, LeasesWereGiven,
                HasLease, Given
  <1> HIDE DEF lease
  <1>7. m \in LoopRecord /\ m.pc = p /\ m.cmd = cmd /\ m.now = loop[w].now /\ m.lease = lease
    BY <1>2, <1>4, <1>6, Zenon DEF LoopRecord, LoopPc, Handling
  <1> HIDE DEF m
  <1>8. loop'[w] = m /\ loop' = [loop EXCEPT ![w] = loop'[w]]
    BY <1>5 DEF WorkersInv, SchedulerTypeOK
  <1>9. commandClaims' = commandClaims /\ claims' = claims
    BY <1>1, Zenon DEF allVars, commandVars, storeVars
  <1>10. LoopOK(w, loop[w])'
    BY <1>2, <1>4, <1>6, <1>7, <1>8, <1>9, Zenon DEF LoopOK, Handling, Given
  <1>11. LoopMoves(w) /\ loop'[w].pc \in Handling
    BY <1>4, <1>7, <1>8, <1>10, Zenon DEF LoopMoves, Handling
  <1> QED
    BY <1>1, <1>2, <1>7, <1>8, <1>11, LookKeeps, SameRunsKeep, Zenon

LEMMA FindRunKeeps ==
  ASSUME WorkersInv, NEW w \in Worker, FindRun(w)
  PROVE  Kept
  <1> DEFINE cmd == loop[w].cmd
             here == LocalRun(w, cmd.task, loop[w].run)
             p == IF here # 0 THEN "cancelLocal" ELSE "remote"
             m == [loop[w] EXCEPT !.local = here, !.pc = p]
  <1>1. loop[w].pc = "local" /\ UNCHANGED allVars /\ UNCHANGED <<slots, active, envVars>>
    BY Zenon DEF FindRun
  <1>2. /\ loop[w] \in LoopRecord /\ cmd.id \in CommandId /\ cmd.task \in TaskId
        /\ [command |-> cmd.id, token |-> cmd.token, worker |-> w] \in commandClaims
        /\ loop[w].pc \in Handling /\ loop[w].now \in Time
    BY <1>1, InHand, Zenon DEF Handling
  <1>3. commandClaims' = commandClaims /\ claims' = claims /\ StoreGrows
    <2>1. UNCHANGED allVars => StoreGrows
      BY StoreFactsStep, Zenon DEF WorkersInv
    <2> QED
      BY <1>1, <2>1, Zenon DEF allVars, commandVars, storeVars
  <1>4. ASSUME NEW pc \in {"ack", "lease"}, cmd.kind = "abort", Step(w, pc), RunsKeep(runs')
        PROVE  Kept
    <2>1. LoopMoves(w) /\ loop'[w].pc = pc /\ loop'[w].cmd = loop[w].cmd
      BY <1>1, <1>2, <1>3, <1>4, StepMoves, Zenon
    <2> QED
      BY <1>1, <1>2, <1>4, <2>1, LookKeeps, Zenon DEF Handling
  <1>5. CASE cmd.kind = "abort" /\ runs' = Canceled({here}, "abort") /\ Step(w, "ack")
    BY <1>4, <1>5, CanceledKeeps, Zenon DEF Cause
  <1>6. CASE cmd.kind = "abort" /\ Step(w, "lease") /\ UNCHANGED runs
    BY <1>4, <1>6, SameRunsKeep, Zenon
  <1>7. CASE /\ cmd.kind = "cancel"
             /\ loop' = [loop EXCEPT ![w].local = here, ![w].pc = p]
             /\ UNCHANGED runs
    <2>1. loop' = [loop EXCEPT ![w] = m]
      BY <1>7, Zenon DEF WorkersInv, SchedulerTypeOK
    <2>2. p \in {"cancelLocal", "remote"}
      OBVIOUS
    <2>3. here \in Nat
      BY <1>2, Zenon DEF LocalRun, WorkersInv, SchedulerTypeOK
    <2> HIDE DEF here, p
    <2>4. /\ m \in LoopRecord /\ m.pc = p /\ m.cmd = cmd /\ m.now = loop[w].now
          /\ m.lease = loop[w].lease
      BY <1>2, <2>2, <2>3, Zenon DEF LoopRecord, LoopPc, Handling
    <2>5. Given(cmd.task, loop[w].lease)
      BY <1>1, <1>7, Zenon DEF WorkersInv, LoopsOK, LoopOK
    <2> HIDE DEF m
    <2>6. loop'[w] = m /\ loop' = [loop EXCEPT ![w] = loop'[w]]
      BY <2>1 DEF WorkersInv, SchedulerTypeOK
    <2>7. LoopOK(w, loop[w])'
      BY <1>2, <1>3, <2>2, <2>4, <2>5, <2>6, Zenon DEF LoopOK, Handling, Given
    <2>8. LoopMoves(w) /\ loop'[w].pc \in Handling
      BY <2>2, <2>4, <2>6, <2>7, Zenon DEF LoopMoves, Handling
    <2> QED
      BY <1>1, <1>2, <1>7, <2>4, <2>6, <2>8, LookKeeps, SameRunsKeep, Zenon
  <1> QED
    BY <1>5, <1>6, <1>7, Zenon DEF FindRun

\* The loop acts on the task of its command, and goes on to answer.
LEMMA ActKeeps ==
  ASSUME WorkersInv, NEW w \in Worker, loop[w].pc \in Handling, loop[w].pc # "apply",
         (StoreNext /\ StopStep) \/ UNCHANGED storeVars, UNCHANGED commandVars,
         NEW pc \in {"ack", "nack"}, Step(w, pc), RunsKeep(runs'),
         UNCHANGED <<slots, active, envVars>>
  PROVE  Kept
  <1>1. Next \/ UNCHANGED allVars
    BY Zenon DEF Next, allVars
  <1>2. StoreGrows
    BY <1>1, StoreFactsStep, Zenon DEF WorkersInv
  <1>3. LoopMoves(w) /\ loop'[w].pc = pc /\ loop'[w].cmd = loop[w].cmd
    BY <1>2, StepMoves, Zenon
  <1>4. clock' = clock /\ abandoned' = abandoned
        /\ loop[w].pc \notin Dispatching /\ loop'[w].pc \notin Dispatching
    BY <1>3, Zenon DEF envVars, Dispatching, Handling
  <1> QED
    BY <1>3, <1>4, LoopQuietTasks, Zenon

\* Canceling the task of the command with the token read, or learning why not.
LEMMA CancelOrExplainActs ==
  ASSUME WorkersInv, NEW w \in Worker, loop[w].pc \in {"cancelPending", "cancelLocal", "remote"},
         NEW token, token = 0 \/ Given(loop[w].cmd.task, token), CancelOrExplain(w, token)
  PROVE  /\ (StoreNext /\ StopStep) \/ UNCHANGED storeVars
         /\ Step(w, "ack") \/ Step(w, "nack")
  <1>1. loop[w].cmd.task \in TaskId /\ loop[w].now \in Time
    BY InHand, Zenon DEF Handling
  <1>2. PICK t \in TaskId, now \in Time : t = loop[w].cmd.task /\ now = loop[w].now
    BY <1>1, Zenon
  <1>3. CASE CancelTask(loop[w].cmd.task, token, loop[w].now) /\ Step(w, "ack")
    <2>1. CancelTask(t, token, now)
      BY <1>2, <1>3, Zenon DEF CancelTask, LeaseLive, HasLease, SetStatus, DropLease
    <2>2. token = 0 \/ Given(t, token)
      BY <1>2, Zenon
    <2> QED
      BY <1>3, <2>1, <2>2, CancelIsStoreStep, Zenon DEF WorkersInv
  <1> QED
    BY <1>3, Zenon DEF CancelOrExplain

LEMMA CancelPendingTaskKeeps ==
  ASSUME WorkersInv, NEW w \in Worker, CancelPendingTask(w)
  PROVE  Kept
  <1>1. /\ loop[w].pc = "cancelPending" /\ CancelOrExplain(w, 0) /\ UNCHANGED commandVars
        /\ runs' = runs /\ UNCHANGED <<slots, active, envVars>>
    BY Zenon DEF CancelPendingTask
  <1>2. /\ (StoreNext /\ StopStep) \/ UNCHANGED storeVars
        /\ Step(w, "ack") \/ Step(w, "nack")
    BY <1>1, CancelOrExplainActs, Zenon
  <1> QED
    BY <1>1, <1>2, ActKeeps, SameRunsKeep, Zenon DEF Handling

\* The lease a loop goes by when it cancels or fails a run elsewhere.
LEMMA LeaseInHand ==
  ASSUME WorkersInv, NEW w \in Worker, loop[w].pc \in {"cancelLocal", "remote"}
  PROVE  \E token \in Nat : token = loop[w].lease /\ Given(loop[w].cmd.task, token)
  <1>1. Given(loop[w].cmd.task, loop[w].lease) /\ loop[w].lease \in Nat
    BY Zenon DEF WorkersInv, LoopsOK, LoopOK, SchedulerTypeOK, LoopRecord
  <1> QED
    BY <1>1, Zenon DEF Given

LEMMA CancelLocalRunKeeps ==
  ASSUME WorkersInv, NEW w \in Worker, CancelLocalRun(w)
  PROVE  Kept
  <1>1. /\ loop[w].pc = "cancelLocal" /\ CancelOrExplain(w, loop[w].lease) /\ UNCHANGED commandVars
        /\ runs' \in {Canceled({loop[w].local}, "command"), runs}
        /\ UNCHANGED <<slots, active, envVars>>
    BY Zenon DEF CancelLocalRun
  <1>2. PICK token \in Nat : token = loop[w].lease /\ Given(loop[w].cmd.task, token)
    BY <1>1, LeaseInHand, Zenon
  <1>3. CancelOrExplain(w, token)
    BY <1>1, <1>2, Zenon DEF CancelOrExplain, CancelTask
  <1>4. /\ (StoreNext /\ StopStep) \/ UNCHANGED storeVars
        /\ Step(w, "ack") \/ Step(w, "nack")
    BY <1>1, <1>2, <1>3, CancelOrExplainActs, Zenon
  <1>5. RunsKeep(runs')
    BY <1>1, SameRunsKeep, CanceledKeeps, Zenon DEF Cause
  <1> QED
    BY <1>1, <1>4, <1>5, ActKeeps, Zenon DEF Handling

LEMMA CancelRemoteRunKeeps ==
  ASSUME WorkersInv, NEW w \in Worker, CancelRemoteRun(w)
  PROVE  Kept
  <1>1. /\ loop[w].pc = "remote" /\ UNCHANGED commandVars
        /\ runs' = runs /\ UNCHANGED <<slots, active, envVars>>
    BY Zenon DEF CancelRemoteRun
  <1>2. PICK token \in Nat : token = loop[w].lease /\ Given(loop[w].cmd.task, token)
    BY <1>1, LeaseInHand, Zenon
  <1>3. PICK t \in TaskId, now \in Time : t = loop[w].cmd.task /\ now = clock
    BY <1>1, InHand, Zenon DEF Handling, WorkersInv, SchedulerTypeOK
  <1>4. ASSUME NEW pc \in {"ack", "nack"}, Step(w, pc),
               (StoreNext /\ StopStep) \/ UNCHANGED storeVars
        PROVE  Kept
    BY <1>1, <1>4, ActKeeps, SameRunsKeep, Zenon DEF Handling
  <1>5. CASE Step(w, "nack") /\ UNCHANGED storeVars
    BY <1>4, <1>5, Zenon
  <1>6. CASE CancelOrExplain(w, loop[w].lease)
    <2>1. CancelOrExplain(w, token)
      BY <1>2, <1>6, Zenon DEF CancelOrExplain, CancelTask
    <2> QED
      BY <1>1, <1>2, <1>4, <2>1, CancelOrExplainActs, Zenon
  <1>7. CASE FailTask(loop[w].cmd.task, loop[w].lease, FALSE, clock) /\ Step(w, "ack")
    <2>1. FailTask(t, token, FALSE, now)
      BY <1>2, <1>3, <1>7, Zenon DEF FailTask, LeaseValid, LeaseLive
    <2>2. Given(t, token)
      BY <1>2, <1>3, Zenon
    <2>3. StoreNext /\ StopStep
      BY <2>1, <2>2, FailIsStoreStep, Zenon DEF WorkersInv
    <2> QED
      BY <1>4, <1>7, <2>3, Zenon
  <1>8. CASE /\ Step(w, IF Exists(loop[w].cmd.task) THEN "ack" ELSE "nack")
             /\ UNCHANGED storeVars
    <2>1. PICK pc \in {"ack", "nack"} : pc = IF Exists(loop[w].cmd.task) THEN "ack" ELSE "nack"
      OBVIOUS
    <2>2. Step(w, pc)
      BY <1>8, <2>1, Zenon DEF Step
    <2> QED
      BY <1>4, <1>8, <2>2, Zenon
  <1> QED
    BY <1>5, <1>6, <1>7, <1>8, Zenon DEF CancelRemoteRun

LEMMA ApplyRetryTaskKeeps ==
  ASSUME WorkersInv, NEW w \in Worker, ApplyRetryTask(w)
  PROVE  Kept
  <1>1. /\ loop[w].pc = "retry" /\ UNCHANGED commandVars
        /\ runs' = runs /\ UNCHANGED <<slots, active, envVars>>
    BY Zenon DEF ApplyRetryTask
  <1>2. PICK t \in TaskId : t = loop[w].cmd.task
    BY <1>1, InHand, Zenon DEF Handling
  <1>3. ASSUME NEW pc \in {"ack", "nack"}, Step(w, pc),
               (StoreNext /\ StopStep) \/ UNCHANGED storeVars
        PROVE  Kept
    BY <1>1, <1>3, ActKeeps, SameRunsKeep, Zenon DEF Handling
  <1>4. CASE RetryTask(loop[w].cmd.task) /\ Step(w, "ack")
    <2>1. RetryTask(t)
      BY <1>2, <1>4, Zenon DEF RetryTask, DropLease
    <2>2. StopStep
      BY <2>1, RetryTaskStops, CoreOfStore, Zenon DEF WorkersInv, StoreFacts, CommandInv
    <2>3. StoreNext
      BY <2>1, Zenon DEF StoreNext
    <2> QED
      BY <1>3, <1>4, <2>2, <2>3, Zenon
  <1>5. CASE /\ Step(w, IF Exists(loop[w].cmd.task) THEN "ack" ELSE "nack")
             /\ UNCHANGED storeVars
    <2>1. PICK pc \in {"ack", "nack"} : pc = IF Exists(loop[w].cmd.task) THEN "ack" ELSE "nack"
      OBVIOUS
    <2>2. Step(w, pc)
      BY <1>5, <2>1, Zenon DEF Step
    <2> QED
      BY <1>3, <1>5, <2>2, Zenon
  <1> QED
    BY <1>4, <1>5, Zenon DEF ApplyRetryTask

\* The claim on the command in hand, by its own names.
LEMMA ClaimInHand ==
  ASSUME WorkersInv, NEW w \in Worker, loop[w].pc \in Handling
  PROVE  \E cc \in commandClaims :
            /\ cc.command \in CommandId /\ cc.command = loop[w].cmd.id
            /\ cc.token = loop[w].cmd.token /\ cc.worker = w
  <1> DEFINE cc == [command |-> loop[w].cmd.id, token |-> loop[w].cmd.token, worker |-> w]
  <1>1. cc \in commandClaims /\ cc.command = loop[w].cmd.id /\ cc.token = loop[w].cmd.token
        /\ cc.worker = w /\ loop[w].cmd.id \in CommandId
    BY InHand, Zenon
  <1> HIDE DEF cc
  <1> QED
    BY <1>1, Zenon

\* The loop lets go of a command that is not claimed under its token any more.
LEMMA LetGoKeeps ==
  ASSUME WorkersInv, NEW w \in Worker, loop[w].pc \in Handling, Next \/ UNCHANGED allVars,
         UNCHANGED storeVars, NEW pc \in {"commands", "dispatch"}, Goto(w, pc),
         \A k \in CommandId : commands'[k].status = "claimed" =>
            /\ commands'[k] = commands[k]
            /\ ~(k = loop[w].cmd.id /\ commands[k].token = loop[w].cmd.token),
         UNCHANGED <<slots, active, runs, envVars>>
  PROVE  Kept
  <1>1. LoopMoves(w) /\ loop'[w].pc = pc
    BY GotoMoves, Zenon DEF LoopPc, Handling
  <1>2. \A v \in Worker : v # w => loop'[v] = loop[v]
    BY <1>1, Zenon DEF LoopMoves, WorkersInv, SchedulerTypeOK
  <1>3. CommandsSteady
    BY <1>2, Zenon DEF CommandsSteady
  <1>4. clock' = clock /\ abandoned' = abandoned /\ RunsKeep(runs')
        /\ loop[w].pc \notin Dispatching /\ loop'[w].pc \notin Dispatching
    BY <1>1, SameRunsKeep, Zenon DEF envVars, Dispatching, Handling
  <1> QED
    BY <1>1, <1>3, <1>4, LoopQuiet, Zenon

LEMMA AckCommandKeeps ==
  ASSUME WorkersInv, NEW w \in Worker, AckCommand(w)
  PROVE  Kept
  <1>1. loop[w].pc = "ack" /\ loop[w].pc \in Handling /\ UNCHANGED <<slots, active, runs, envVars>>
    BY Zenon DEF AckCommand, Handling
  <1>2. PICK cc \in commandClaims :
            /\ cc.command \in CommandId /\ cc.command = loop[w].cmd.id
            /\ cc.token = loop[w].cmd.token /\ cc.worker = w
    BY <1>1, ClaimInHand, Zenon
  <1>3. CASE HandleCommand(loop[w].cmd.id, loop[w].cmd.token, w) /\ Goto(w, "commands")
    <2>1. HandleCommand(cc.command, cc.token, cc.worker)
      BY <1>2, <1>3, Zenon DEF HandleCommand, ClaimHeld
    <2>2. Next /\ UNCHANGED storeVars
      BY <2>1, Zenon DEF Next, CommandNext, HandleCommand
    <2>3. commands \in [CommandId -> Command]
      BY Zenon DEF WorkersInv, StoreFacts, CommandInv, CommandTypeOK
    <2>4. \A k \in CommandId : k # cc.command => commands'[k] = commands[k]
      BY <2>1, <2>3, Zenon DEF HandleCommand
    <2>5. commands'[cc.command].status = "handled"
      BY <1>2, <2>1, <2>3, Zenon DEF HandleCommand, Command
    <2> QED
      BY <1>1, <1>2, <1>3, <2>2, <2>4, <2>5, LetGoKeeps, Zenon
  <1>4. CASE Step(w, "nack") /\ UNCHANGED allVars
    <2>1. UNCHANGED storeVars /\ UNCHANGED commandVars
      BY <1>4, Zenon DEF allVars
    <2> QED
      BY <1>1, <1>4, <2>1, ActKeeps, SameRunsKeep, Zenon
  <1> QED
    BY <1>3, <1>4, Zenon DEF AckCommand

LEMMA NackCommandKeeps ==
  ASSUME WorkersInv, NEW w \in Worker, NackCommand(w)
  PROVE  Kept
  <1>1. /\ loop[w].pc \in Handling /\ Goto(w, "dispatch")
        /\ UNCHANGED <<slots, active, runs, envVars>>
    BY Zenon DEF NackCommand, Handling
  <1>2. PICK cc \in commandClaims :
            /\ cc.command \in CommandId /\ cc.command = loop[w].cmd.id
            /\ cc.token = loop[w].cmd.token /\ cc.worker = w
    BY <1>1, ClaimInHand, Zenon
  <1>3. CASE ReleaseCommand(loop[w].cmd.id, loop[w].cmd.token)
    <2>1. ReleaseCommand(cc.command, cc.token)
      BY <1>2, <1>3, Zenon DEF ReleaseCommand, ClaimHeld
    <2>2. Next /\ UNCHANGED storeVars
      BY <2>1, Zenon DEF Next, CommandNext, ReleaseCommand
    <2>3. commands \in [CommandId -> Command]
      BY DEF WorkersInv, StoreFacts, CommandInv, CommandTypeOK
    <2>4. \A k \in CommandId : k # cc.command => commands'[k] = commands[k]
      BY <2>1, <2>3, Zenon DEF ReleaseCommand
    <2>5. commands'[cc.command].status = "pending"
      BY <1>2, <2>1, <2>3, Zenon DEF ReleaseCommand, Unclaimed, Command
    <2> QED
      BY <1>1, <1>2, <2>2, <2>4, <2>5, LetGoKeeps, Zenon
  <1>4. CASE ~ClaimHeld(loop[w].cmd.id, loop[w].cmd.token) /\ UNCHANGED allVars
    <2>1. UNCHANGED storeVars /\ commands' = commands
      BY <1>4, Zenon DEF allVars, commandVars
    <2> QED
      BY <1>1, <1>4, <2>1, LetGoKeeps, Zenon DEF ClaimHeld
  <1> QED
    BY <1>3, <1>4, Zenon DEF NackCommand

-----------------------------------------------------------------------------
(* The loop: dispatch. *)

\* The goroutines are where they were, and so is what they rely on.
LEMMA RunsAlone ==
  ASSUME WorkersInv, StoreGrows, runs' = runs
  PROVE  /\ RunsOK' /\ \A v \in Worker : LiveOn(v)' = LiveOn(v)
         /\ \A n : Live(n)' <=> Live(n)
  <1>1. RunsOK'
    BY SameRunsKeep, RunsKept, Zenon
  <1> QED
    BY <1>1, Zenon DEF LiveOn, Live

\* A task is granted: the loop holds a claim that nobody has started.
LEMMA GrantedKeeps ==
  ASSUME WorkersInv, NEW w \in Worker, loop[w].pc = "claim", StoreNext,
         NEW u \in TaskId, NEW ttl \in TTLs, NEW now \in Time, NEW given \in SUBSET TaskId,
         Grant(u, w, ttl, now, given), UNCHANGED commandVars,
         UNCHANGED <<slots, active, runs, envVars>>,
         loop' = [loop EXCEPT ![w] = [At("start") EXCEPT !.claim = nextLease']]
  PROVE  Kept
  <1> DEFINE n == nextLease'
             m == [At("start") EXCEPT !.claim = n]
             new == [task |-> u, token |-> nextLease + 1, run |-> nextRun + 1,
                     attempt |-> tasks[u].attempt + 1, worker |-> w,
                     blockedBy |-> tasks[u].blockedBy]
  <1>1. UNCHANGED <<slots, active, runs, clock, abandoned>> /\ commands' = commands
    BY Zenon DEF envVars, commandVars
  <1>2. StoreFacts' /\ StoreGrows
    <2>1. Next
      BY Zenon DEF Next
    <2> QED
      BY <2>1, StoreFactsStep, Zenon DEF WorkersInv
  <1>3. /\ n = nextLease + 1 /\ nextLease \in Nat
        /\ leases'[u].token = n
        /\ \A t \in TaskId : t # u => leases'[t] = leases[t] \/ leases'[t].token = 0
    <2>1. leases \in [TaskId -> Lease] /\ nextLease \in Nat
      BY Zenon DEF WorkersInv, StoreFacts, CommandInv, StoreInv, TypeOK
    <2> QED
      BY <2>1, Zenon DEF Grant, LeasesGivenUp, NoLease
  <1>4. \E c \in claims' : c.token = n /\ c.worker = w
    <2>1. new \in claims' /\ new.token = nextLease + 1 /\ new.worker = w
      BY Zenon DEF Grant
    <2> HIDE DEF new
    <2> QED
      BY <1>3, <2>1, Zenon
  <1>5. n \in ClaimId /\ n \in Nat
    BY <1>2, <1>3, StoreConstants DEF StoreFacts, TokensAreUnique, ClaimId
  <1>6. ~Live(n)
    <2> SUFFICES ASSUME Live(n) PROVE FALSE
      OBVIOUS
    <2>1. PICK c \in claims : c.token = n
      BY <1>5, Zenon DEF WorkersInv, RunsOK, RunOK, Live
    <2>2. c.token \in 1..nextLease
      BY Zenon DEF WorkersInv, StoreFacts, CommandInv, StoreInv, TypeOK
    <2> QED
      BY <1>3, <2>1, <2>2
  <1>7. loop' = [loop EXCEPT ![w] = m]
    OBVIOUS
  <1> HIDE DEF n
  <1>8. m \in LoopRecord /\ m.pc = "start" /\ m.cmd.id = 0 /\ m.claim = n
    <2>1. "start" \in LoopPc
      BY Zenon DEF LoopPc
    <2>2. At("start") \in LoopRecord /\ At("start").pc = "start" /\ At("start").cmd.id = 0
      BY <2>1, AtFields, Zenon
    <2> QED
      BY <1>5, <2>2, Zenon DEF LoopRecord
  <1> HIDE DEF m
  <1>9. loop'[w] = m /\ loop' = [loop EXCEPT ![w] = loop'[w]]
    BY <1>7, Zenon DEF WorkersInv, SchedulerTypeOK
  <1>10. LoopOK(w, loop[w])'
    BY <1>4, <1>8, <1>9, Zenon DEF LoopOK, Handling
  <1>11. /\ loop' \in [Worker -> LoopRecord] /\ LoopsOK'
         /\ \A v \in Worker : v # w => loop'[v] = loop[v]
    BY <1>2, <1>8, <1>9, <1>10, OneLoop, Zenon DEF LoopMoves
  <1>12. /\ RunsOK' /\ \A v \in Worker : LiveOn(v)' = LiveOn(v)
         /\ \A x : Live(x)' <=> Live(x)
    BY <1>1, <1>2, RunsAlone, Zenon
  <1>13. SchedulerTypeOK'
    BY <1>1, <1>11, Zenon DEF WorkersInv, SchedulerTypeOK
  <1>14. StartsFresh'
    <2> SUFFICES ASSUME NEW v \in Worker, loop'[v].pc = "start" PROVE ~Live(loop[v].claim)'
      BY Zenon DEF StartsFresh
    <2>1. CASE v = w
      BY <1>1, <1>6, <1>8, <1>9, <2>1, Zenon DEF Live
    <2>2. CASE v # w
      BY <1>1, <1>11, <2>2, Zenon DEF WorkersInv, StartsFresh, Live
    <2> QED
      BY <2>1, <2>2, Zenon
  <1>15. SlotsBounded' /\ SlotsAccountedFor'
    <2>1. \A v \in Worker : (loop'[v].pc \in {"claim", "start"}) <=> (loop[v].pc \in {"claim", "start"})
      BY <1>8, <1>9, <1>11, Zenon
    <2> QED
      BY <1>1, <1>12, <2>1, Zenon DEF WorkersInv, SlotsBounded, SlotsAccountedFor
  <1>16. RegistryIsExact'
    BY <1>1, <1>12 DEF WorkersInv, RegistryIsExact
  <1>17. LiveLeaseIsWorkedOn'
    <2> SUFFICES ASSUME NEW t \in TaskId, LeaseLive(t, clock)'
                 PROVE  \/ runs'[leases'[t].token].pc \in AtWork
                        \/ \E v \in Worker : loop'[v].pc = "start" /\ loop'[v].claim = leases'[t].token
                        \/ leases'[t].token \in abandoned'.leases
      BY Zenon DEF LiveLeaseIsWorkedOn, AtWork
    <2>1. CASE t = u
      BY <1>3, <1>8, <1>9, <2>1, Zenon
    <2>2. CASE t # u
      <3>1. leases'[t] = leases[t] /\ LeaseLive(t, clock)
        BY <1>1, <1>3, <2>2, Zenon DEF LeaseLive, HasLease
      <3>2. \/ runs[leases[t].token].pc \in AtWork
            \/ \E v \in Worker : loop[v].pc = "start" /\ loop[v].claim = leases[t].token
            \/ leases[t].token \in abandoned.leases
        BY <3>1, Zenon DEF WorkersInv, LiveLeaseIsWorkedOn, AtWork
      <3> QED
        BY <1>1, <1>11, <3>1, <3>2, Zenon
    <2> QED
      BY <2>1, <2>2, Zenon
  <1>18. ClaimedCommandIsWorkedOn'
    <2>1. loop[w].cmd.id = 0
      BY Zenon DEF WorkersInv, LoopsOK, LoopOK, Handling
    <2>2. \A k \in CommandId : k # 0
      BY DEF CommandId
    <2> QED
      BY <1>1, <1>11, <2>1, <2>2, Zenon DEF WorkersInv, ClaimedCommandIsWorkedOn
  <1> QED
    BY <1>2, <1>11, <1>12, <1>13, <1>14, <1>15, <1>16, <1>17, <1>18, Zenon DEF WorkersInv, Kept, Next

\* A token belongs to the lease of the task it was given for, or to none.
LEMMA OwnLease ==
  ASSUME StoreFacts, NEW t \in TaskId, NEW n, Given(t, n), NEW u \in TaskId,
         HasLease(u), leases[u].token = n
  PROVE  u = t
  <1>1. PICK c \in claims : c.task = u /\ c.token = n
    BY Zenon DEF StoreFacts, LeasesWereGiven
  <1>2. PICK d \in claims : d.task = t /\ d.token = n
    BY Zenon DEF Given
  <1> QED
    BY <1>1, <1>2, Zenon DEF StoreFacts, TokensAreUnique

-----------------------------------------------------------------------------
(* The goroutine of a claim. *)

\* Only goroutine n moves: it is registered and stays so.
RunMoves(n) ==
    /\ runs' \in [ClaimId -> Goroutine]
    /\ \A m \in ClaimId : m # n => runs'[m] = runs[m]
    /\ runs[n].pc \in {"running", "returned"}
    /\ runs'[n].pc \in {"running", "returned", "leaving"}
    /\ runs'[n].worker = runs[n].worker
    /\ runs'[n].task = runs[n].task
    /\ runs'[n].renewing => runs'[n].pc \in {"running", "returned"}

LEMMA RunQuiet ==
  ASSUME WorkersInv, NEW n \in ClaimId, Next \/ UNCHANGED allVars, UNCHANGED commandVars,
         RunMoves(n), LeasesSteady, UNCHANGED <<loop, slots, active, envVars>>
  PROVE  Kept
  <1>1. StoreGrows
    BY StoreFactsStep, Zenon DEF WorkersInv
  <1>2. UNCHANGED <<loop, slots, active, clock, abandoned>> /\ commands' = commands
    BY Zenon DEF envVars, commandVars
  <1>3. SchedulerTypeOK'
    BY <1>2, Zenon DEF RunMoves, WorkersInv, SchedulerTypeOK
  <1>4. LoopsOK'
    <2> SUFFICES ASSUME NEW w \in Worker PROVE LoopOK(w, loop[w])'
      BY Zenon DEF LoopsOK
    <2>1. LoopOK(w, loop[w])
      BY Zenon DEF WorkersInv, LoopsOK
    <2>2. \A t, token : Given(t, token) => Given(t, token)'
      BY <1>1, Zenon DEF Given, StoreGrows
    <2> QED
      BY <1>1, <1>2, <2>1, <2>2, Zenon DEF LoopOK, StoreGrows
  <1>5. RunsOK'
    <2> SUFFICES ASSUME NEW m \in ClaimId PROVE RunOK(m, runs[m])'
      BY Zenon DEF RunsOK
    <2>1. RunOK(m, runs[m])
      BY Zenon DEF WorkersInv, RunsOK
    <2>2. CASE m = n
      BY <1>1, <2>1, <2>2, Zenon DEF RunOK, RunMoves, StoreGrows
    <2>3. CASE m # n
      BY <1>1, <2>1, <2>3, Zenon DEF RunOK, RunMoves, StoreGrows
    <2> QED
      BY <2>2, <2>3, Zenon
  <1>6. CommandsSteady
    BY <1>2, Zenon DEF CommandsSteady
  <1>7. \A m \in ClaimId :
          /\ runs'[m].worker = runs[m].worker
          /\ runs'[m].task = runs[m].task
          /\ \A pc \in {"none", "starting"} : (runs'[m].pc = pc) <=> (runs[m].pc = pc)
    BY Zenon DEF RunMoves
  <1> QED
    BY <1>2, <1>3, <1>4, <1>5, <1>6, <1>7, SteadyKeeps, Zenon DEF Steady

\* The goroutine moves on, still at work, and the leases are left alone.
LEMMA RunGoesOn ==
  ASSUME WorkersInv, NEW n \in ClaimId, UNCHANGED storeVars, UNCHANGED commandVars,
         RunMoves(n), runs'[n].pc \in AtWork, UNCHANGED <<loop, slots, active, envVars>>
  PROVE  Kept
  <1>1. UNCHANGED allVars /\ leases' = leases /\ clock' = clock
    BY Zenon DEF allVars, storeVars, envVars
  <1>2. LeasesSteady
    <2> SUFFICES ASSUME NEW t \in TaskId, LeaseLive(t, clock)'
                 PROVE  /\ LeaseLive(t, clock)
                        /\ leases'[t].token = leases[t].token
                        /\ runs[leases[t].token].pc \in AtWork => runs'[leases[t].token].pc \in AtWork
      BY Zenon DEF LeasesSteady
    <2>1. LeaseLive(t, clock) /\ leases'[t].token = leases[t].token
      BY <1>1, Zenon DEF LeaseLive, HasLease
    <2>2. leases[t].token \in ClaimId
      BY <2>1, TokensAreClaimIds, Zenon DEF LeaseLive, WorkersInv
    <2> QED
      BY <2>1, <2>2, Zenon DEF RunMoves
  <1> QED
    BY <1>1, <1>2, RunQuiet, Zenon

\* A goroutine that renews or runs is registered.
LEMMA Registered ==
  ASSUME WorkersInv, NEW n \in ClaimId, runs[n].renewing \/ runs[n].pc \in {"running", "returned"}
  PROVE  /\ runs[n].pc \in {"running", "returned"} /\ runs[n] \in Goroutine
         /\ runs[n].worker \in Worker /\ runs[n].task \in TaskId /\ Given(runs[n].task, n)
  <1>1. runs[n].pc \in {"running", "returned"}
    BY Zenon DEF WorkersInv, RunsOK, RunOK
  <1>2. Live(n)
    BY <1>1, Zenon DEF Live
  <1> QED
    BY <1>1, <1>2, RunFacts, Zenon

LEMMA RenewKeeps ==
  ASSUME WorkersInv, NEW n \in ClaimId, Renew(n)
  PROVE  Kept
  <1>1. runs[n].renewing /\ UNCHANGED commandVars /\ UNCHANGED <<loop, slots, active, envVars>>
    BY Zenon DEF Renew
  <1>2. /\ runs[n].pc \in {"running", "returned"} /\ runs[n] \in Goroutine
        /\ runs[n].worker \in Worker /\ runs[n].task \in TaskId /\ Given(runs[n].task, n)
    BY <1>1, Registered, Zenon
  <1>3. runs \in [ClaimId -> Goroutine]
    BY Zenon DEF WorkersInv, SchedulerTypeOK
  <1>4. ASSUME NEW ttl \in TTLs, RenewLease(runs[n].task, n, ttl, clock), UNCHANGED runs
        PROVE  Kept
    <2>1. PICK t \in TaskId, now \in Time : t = runs[n].task /\ now = clock
      BY <1>2, Zenon DEF WorkersInv, SchedulerTypeOK
    <2>2. RenewLease(t, n, ttl, now)
      BY <1>4, <2>1, Zenon DEF RenewLease, LeaseLive
    <2>3. Given(t, n)
      BY <1>2, <2>1, Zenon
    <2>4. StoreNext
      BY <2>2, <2>3, RenewIsStoreStep, Zenon DEF WorkersInv
    <2>5. RunMoves(n)
      BY <1>2, <1>3, <1>4, Zenon DEF RunMoves
    <2>6. LeasesSteady
      <3>1. leases \in [TaskId -> Lease] /\ clock' = clock
        BY <1>1, Zenon DEF WorkersInv, StoreFacts, CommandInv, StoreInv, TypeOK, envVars
      <3>2. /\ \A u \in TaskId : u # t => leases'[u] = leases[u]
            /\ leases'[t].token = leases[t].token /\ LeaseLive(t, clock)
        BY <2>1, <2>2, <3>1, Zenon DEF RenewLease, LeaseLive, Lease
      <3> QED
        BY <1>4, <3>1, <3>2, Zenon DEF LeasesSteady, LeaseLive, HasLease
    <2> QED
      BY <1>1, <2>4, <2>5, <2>6, RunQuiet, Zenon DEF Next
  <1>5. CASE /\ runs' = [Canceled({n}, "renewal") EXCEPT
                           ![n].renewErr = TRUE, ![n].renewing = FALSE]
             /\ UNCHANGED storeVars
    <2> DEFINE K == Canceled({n}, "renewal")
               r == [K[n] EXCEPT !.renewErr = TRUE, !.renewing = FALSE]
    <2>1. RunsKeep(K) /\ \A m \in ClaimId : m # n => K[m] = runs[m]
      BY CanceledKeeps, Zenon DEF Cause, Canceled
    <2>2. K \in [ClaimId -> Goroutine] /\ K[n].pc = runs[n].pc /\ K[n].worker = runs[n].worker
          /\ K[n].task = runs[n].task
      BY <2>1, Zenon DEF RunsKeep
    <2>3. /\ r \in Goroutine /\ r.pc = K[n].pc /\ r.worker = K[n].worker /\ r.task = K[n].task
          /\ r.renewing = FALSE
      BY <2>2, ZenonT(40) DEF Goroutine
    <2>4. runs' = [K EXCEPT ![n] = r]
      BY <1>5, <2>2, Zenon
    <2> HIDE DEF r, K
    <2>5. RunMoves(n) /\ runs'[n].pc \in AtWork
      BY <1>2, <2>1, <2>2, <2>3, <2>4, Zenon DEF RunMoves, AtWork
    <2> QED
      BY <1>1, <1>5, <2>5, RunGoesOn, Zenon
  <1> QED
    BY <1>4, <1>5, Zenon DEF Renew

LEMMA RenewExitKeeps ==
  ASSUME WorkersInv, NEW n \in ClaimId, RenewExit(n)
  PROVE  Kept
  <1> DEFINE r == [runs[n] EXCEPT !.renewing = FALSE]
  <1>1. runs[n].renewing /\ UNCHANGED allVars /\ UNCHANGED <<loop, slots, active, envVars>>
    BY Zenon DEF RenewExit
  <1>2. runs[n].pc \in {"running", "returned"} /\ runs[n] \in Goroutine
    BY <1>1, Registered, Zenon
  <1>3. runs \in [ClaimId -> Goroutine]
    BY DEF WorkersInv, SchedulerTypeOK
  <1>4. /\ r \in Goroutine /\ r.pc = runs[n].pc /\ r.worker = runs[n].worker
        /\ r.task = runs[n].task /\ r.renewing = FALSE
    BY <1>2, Zenon DEF Goroutine
  <1>5. runs' = [runs EXCEPT ![n] = r]
    BY Zenon DEF RenewExit
  <1> HIDE DEF r
  <1>6. RunMoves(n) /\ runs'[n].pc \in AtWork
    BY <1>2, <1>3, <1>4, <1>5, Zenon DEF RunMoves, AtWork
  <1> QED
    BY <1>1, <1>6, RunGoesOn, Zenon DEF allVars

LEMMA ReturnKeeps ==
  ASSUME WorkersInv, NEW n \in ClaimId, Return(n)
  PROVE  Kept
  <1>1. runs[n].pc = "running" /\ UNCHANGED allVars /\ UNCHANGED <<loop, slots, active, envVars>>
    BY Zenon DEF Return
  <1>2. PICK result \in {"ok", "retryable", "fatal", "canceled"} :
          runs' = [runs EXCEPT ![n].pc = "returned", ![n].result = result]
    BY Zenon DEF Return
  <1> DEFINE r == [runs[n] EXCEPT !.pc = "returned", !.result = result]
  <1>3. runs \in [ClaimId -> Goroutine] /\ runs[n] \in Goroutine
    BY Zenon DEF WorkersInv, SchedulerTypeOK
  <1>4. r \in Goroutine /\ r.pc = "returned" /\ r.worker = runs[n].worker /\ r.task = runs[n].task
    BY <1>3, Zenon DEF Goroutine
  <1>5. runs' = [runs EXCEPT ![n] = r]
    BY <1>2, <1>3, Zenon
  <1> HIDE DEF r
  <1>6. RunMoves(n) /\ runs'[n].pc \in AtWork
    BY <1>1, <1>3, <1>4, <1>5, Zenon DEF RunMoves, AtWork
  <1> QED
    BY <1>1, <1>6, RunGoesOn, Zenon DEF allVars

\* A goroutine that has told the store how it ended, or found that it need not,
\* leaves no live lease of its own behind.
LEMMA SettledKeeps ==
  ASSUME WorkersInv, NEW n \in ClaimId, runs[n].pc = "returned", ~runs[n].renewing,
         runs' = [runs EXCEPT ![n].pc = "leaving"], UNCHANGED commandVars,
         UNCHANGED <<loop, slots, active, envVars>>,
         (StoreNext /\ StopStep) \/ UNCHANGED storeVars,
         LeaseLive(runs[n].task, clock)' => leases[runs[n].task].token # n
  PROVE  Kept
  <1> DEFINE r == [runs[n] EXCEPT !.pc = "leaving"]
  <1>1. runs[n] \in Goroutine /\ runs[n].task \in TaskId /\ Given(runs[n].task, n)
    BY Registered, Zenon
  <1>2. runs \in [ClaimId -> Goroutine]
    BY Zenon DEF WorkersInv, SchedulerTypeOK
  <1>3. /\ r \in Goroutine /\ r.pc = "leaving" /\ r.worker = runs[n].worker
        /\ r.task = runs[n].task /\ r.renewing = runs[n].renewing
    BY <1>1, Zenon DEF Goroutine
  <1>4. runs' = [runs EXCEPT ![n] = r]
    OBVIOUS
  <1> HIDE DEF r
  <1>5. RunMoves(n)
    BY <1>2, <1>3, <1>4, Zenon DEF RunMoves
  <1>6. PICK t \in TaskId : t = runs[n].task
    BY <1>1, Zenon
  <1>7. clock' = clock
    BY Zenon DEF envVars
  <1>8. LeasesSteady
    <2> SUFFICES ASSUME NEW u \in TaskId, LeaseLive(u, clock)'
                 PROVE  /\ LeaseLive(u, clock)
                        /\ leases'[u].token = leases[u].token
                        /\ runs[leases[u].token].pc \in AtWork => runs'[leases[u].token].pc \in AtWork
      BY Zenon DEF LeasesSteady
    <2>1. leases'[u] = leases[u]
      <3>1. CASE UNCHANGED storeVars
        BY <3>1, Zenon DEF storeVars
      <3>2. CASE StopStep
        BY <3>2, StopStepLeases DEF NoLease, LeaseLive, HasLease
      <3> QED
        BY <3>1, <3>2, Zenon
    <2>2. LeaseLive(u, clock) /\ HasLease(u)
      BY <1>7, <2>1, Zenon DEF LeaseLive, HasLease
    <2>3. leases[u].token \in ClaimId
      BY <2>2, TokensAreClaimIds, Zenon DEF WorkersInv
    <2>4. leases[u].token # n
      <3> SUFFICES ASSUME leases[u].token = n PROVE FALSE
        OBVIOUS
      <3>1. Given(t, n)
        BY <1>1, <1>6, Zenon
      <3>2. u = t
        BY <2>2, <3>1, OwnLease, Zenon DEF WorkersInv
      <3>3. u = runs[n].task
        BY <1>6, <3>2, Zenon
      <3>4. ~LeaseLive(runs[n].task, clock)'
        BY <3>3, Zenon
      <3>5. runs'[n].task = runs[n].task
        BY <1>5, Zenon DEF RunMoves
      <3> QED
        BY <3>3, <3>4, <3>5, Zenon DEF LeaseLive, HasLease
    <2> QED
      BY <1>5, <2>1, <2>2, <2>3, <2>4, Zenon DEF RunMoves
  <1>9. Next \/ UNCHANGED allVars
    BY Zenon DEF Next, allVars
  <1> QED
    BY <1>5, <1>8, <1>9, RunQuiet, Zenon

LEMMA SettleKeeps ==
  ASSUME WorkersInv, NEW n \in ClaimId, Settle(n)
  PROVE  Kept
  <1>1. /\ runs[n].pc = "returned" /\ ~runs[n].renewing
        /\ runs' = [runs EXCEPT ![n].pc = "leaving"] /\ UNCHANGED commandVars
        /\ UNCHANGED <<loop, slots, active, envVars>>
    BY Zenon DEF Settle
  <1>2. runs[n].task \in TaskId /\ Given(runs[n].task, n) /\ runs[n] \in Goroutine
    BY <1>1, Registered, Zenon
  <1>3. PICK t \in TaskId, now \in Time, retryable \in BOOLEAN :
          t = runs[n].task /\ now = clock /\ retryable = (runs[n].result = "retryable")
    BY <1>2, Zenon DEF WorkersInv, SchedulerTypeOK
  <1>4. Given(t, n)
    BY <1>2, <1>3, Zenon
  <1>5. leases \in [TaskId -> Lease]
    BY Zenon DEF WorkersInv, StoreFacts, CommandInv, StoreInv, TypeOK
  <1>6. ASSUME (StoreNext /\ StopStep) \/ UNCHANGED storeVars,
               leases'[t] = NoLease \/ leases[t].token # n \/ ~LeaseLive(t, clock)'
        PROVE  Kept
    <2>1. runs'[n].task = t
      <3>1. runs \in [ClaimId -> Goroutine]
        BY Zenon DEF WorkersInv, SchedulerTypeOK
      <3> QED
        BY <1>1, <1>2, <1>3, <3>1, Zenon DEF Goroutine
    <2>2. LeaseLive(runs[n].task, clock)' => leases[runs[n].task].token # n
      <3>1. runs[n].task = t /\ (leases'[t] = NoLease => leases'[t].token = 0)
        BY <1>3 DEF NoLease
      <3> QED
        BY <1>6, <2>1, <3>1, Zenon DEF LeaseLive, HasLease
    <2> QED
      BY <1>1, <1>6, <2>2, SettledKeeps, Zenon
  <1>7. CASE HandBack(n)
    <2>1. CASE ReleaseLease(runs[n].task, n)
      <3>1. ReleaseLease(t, n)
        BY <1>3, <2>1, Zenon DEF ReleaseLease, HasLease, Requeue, DropLease
      <3>2. leases'[t] = NoLease
        BY <1>5, <3>1, Zenon DEF ReleaseLease, Requeue, DropLease
      <3> QED
        BY <1>4, <1>6, <3>1, <3>2, ReleaseIsStoreStep, Zenon DEF WorkersInv
    <2>2. CASE leases[runs[n].task].token # n /\ UNCHANGED storeVars
      BY <1>3, <1>6, <2>2, Zenon
    <2> QED
      BY <1>7, <2>1, <2>2, Zenon DEF HandBack
  <1>8. CASE CompleteTask(runs[n].task, n, TRUE, clock)
    <2>1. CompleteTask(t, n, TRUE, now)
      BY <1>3, <1>8, Zenon DEF CompleteTask, LeaseValid, LeaseLive
    <2>2. leases'[t] = NoLease
      BY <1>5, <2>1, Zenon DEF CompleteTask, DropLease
    <2> QED
      BY <1>4, <1>6, <2>1, <2>2, CompleteIsStoreStep, Zenon DEF WorkersInv
  <1>9. CASE FailTask(runs[n].task, n, runs[n].result = "retryable", clock)
    <2>1. FailTask(t, n, retryable, now)
      BY <1>3, <1>9, Zenon DEF FailTask, LeaseValid, LeaseLive
    <2>2. leases'[t] = NoLease
      BY <1>5, <2>1, Zenon DEF FailTask, Requeue, DropLease
    <2> QED
      BY <1>4, <1>6, <2>1, <2>2, FailIsStoreStep, Zenon DEF WorkersInv
  <1>10. CASE ~LeaseValid(runs[n].task, n, clock) /\ UNCHANGED storeVars
    <2>1. leases' = leases /\ clock' = clock
      BY <1>1, <1>10, Zenon DEF storeVars, envVars
    <2>2. ASSUME LeaseLive(t, clock)', leases[t].token = n PROVE FALSE
      <3>1. LeaseLive(t, clock) /\ HasLease(t)
        BY <2>1, <2>2, Zenon DEF LeaseLive, HasLease
      <3>2. tasks[t].status = "running"
        BY <3>1, Zenon DEF WorkersInv, StoreFacts, CommandInv, StoreInv, RunningIffLeased
      <3>3. LeaseValid(t, n, clock)
        BY <2>2, <3>1, <3>2, Zenon DEF LeaseValid, Exists
      <3> QED
        BY <1>3, <1>10, <3>3, Zenon DEF LeaseValid, LeaseLive, HasLease, Exists
    <2> QED
      BY <1>6, <1>10, <2>2, Zenon
  <1> QED
    BY <1>7, <1>8, <1>9, <1>10, Zenon DEF Settle

\* The store and the loops are left alone.
LEMMA LoopsAlone ==
  ASSUME WorkersInv, UNCHANGED allVars, UNCHANGED <<loop, abandoned>>
  PROVE  /\ StoreFacts' /\ StoreGrows /\ LoopsOK' /\ ClaimedCommandIsWorkedOn'
         /\ leases' = leases /\ claims' = claims
  <1>1. StoreFacts' /\ StoreGrows
    BY StoreFactsStep, Zenon DEF WorkersInv
  <1>2. leases' = leases /\ claims' = claims /\ commands' = commands
    BY Zenon DEF allVars, storeVars, commandVars
  <1>3. LoopsOK'
    BY <1>1, Zenon DEF WorkersInv, LoopsOK, LoopOK, Given, StoreGrows
  <1>4. ClaimedCommandIsWorkedOn'
    BY <1>2, Zenon DEF WorkersInv, ClaimedCommandIsWorkedOn
  <1> QED
    BY <1>1, <1>2, <1>3, <1>4, Zenon

-----------------------------------------------------------------------------
(* The environment. *)

\* A step that leaves loops and goroutines where they are, but for causes.
LEMMA OutsideKeeps ==
  ASSUME WorkersInv, Next \/ UNCHANGED allVars, RunsKeep(runs'), clock' \in Time,
         UNCHANGED <<loop, slots, active, abandoned>>, LeasesSteady,
         \A k \in CommandId : commands'[k].status = "claimed" => commands'[k] = commands[k]
  PROVE  Kept
  <1>1. StoreGrows
    BY StoreFactsStep, Zenon DEF WorkersInv
  <1>2. runs' \in [ClaimId -> Goroutine] /\ RunsOK'
    BY <1>1, RunsKept, Zenon
  <1>3. SchedulerTypeOK'
    BY <1>2, Zenon DEF WorkersInv, SchedulerTypeOK
  <1>4. LoopsOK'
    BY <1>1, Zenon DEF WorkersInv, LoopsOK, LoopOK, Given, StoreGrows
  <1>5. CommandsSteady
    BY Zenon DEF CommandsSteady
  <1>6. \A m \in ClaimId :
          /\ runs'[m].worker = runs[m].worker
          /\ runs'[m].task = runs[m].task
          /\ \A pc \in {"none", "starting"} : (runs'[m].pc = pc) <=> (runs[m].pc = pc)
    BY Zenon DEF RunsKeep
  <1> QED
    BY <1>2, <1>3, <1>4, <1>5, <1>6, SteadyKeeps, Zenon DEF Steady

LEMMA StopKeeps ==
  ASSUME WorkersInv, NEW w \in Worker, Stop(w)
  PROVE  Kept
  <1>1. /\ UNCHANGED allVars /\ UNCHANGED <<loop, slots, active, abandoned>> /\ clock' = clock
        /\ runs' = Canceled(LiveOn(w), "shutdown")
    BY Zenon DEF Stop
  <1>2. RunsKeep(runs')
    BY <1>1, CanceledKeeps, Zenon DEF Cause
  <1>3. UNCHANGED storeVars /\ commands' = commands
    BY <1>1, Zenon DEF allVars, commandVars
  <1>4. LeasesSteady
    BY <1>1, <1>2, <1>3, NoNewLease, Zenon
  <1>5. clock' \in Time
    BY <1>1, Zenon DEF WorkersInv, SchedulerTypeOK
  <1> QED
    BY <1>1, <1>2, <1>3, <1>4, <1>5, OutsideKeeps, Zenon

LEMMA TickKeeps ==
  ASSUME WorkersInv, Tick
  PROVE  Kept
  <1>1. /\ UNCHANGED allVars /\ UNCHANGED <<loop, slots, active, abandoned>> /\ runs' = runs
        /\ clock' = clock + 1 /\ clock < MaxTime
    BY Zenon DEF Tick, workerVars
  <1>2. RunsKeep(runs')
    BY <1>1, SameRunsKeep, Zenon
  <1>3. leases' = leases /\ commands' = commands
    BY <1>1, Zenon DEF allVars, storeVars, commandVars
  <1>4. clock \in Nat /\ clock' \in Time
    BY <1>1, StoreConstants DEF WorkersInv, SchedulerTypeOK, Time
  <1>5. \A t \in TaskId : leases[t].expiresAt \in Nat
    BY Zenon DEF WorkersInv, StoreFacts, CommandInv, StoreInv, TypeOK, Lease
  <1>6. LeasesSteady
    BY <1>1, <1>3, <1>4, <1>5, SMTT(30) DEF LeasesSteady, LeaseLive, HasLease
  <1> QED
    BY <1>1, <1>2, <1>3, <1>4, <1>6, OutsideKeeps, Zenon

LEMMA ClientKeeps ==
  ASSUME WorkersInv, Client
  PROVE  Kept
  <1>1. UNCHANGED <<loop, slots, active, abandoned>> /\ clock' = clock /\ runs' = runs
    BY Zenon DEF Client, workerVars, envVars
  <1>2. RunsKeep(runs')
    BY <1>1, SameRunsKeep, Zenon
  <1>3. clock' \in Time
    BY <1>1, Zenon DEF WorkersInv, SchedulerTypeOK
  <1>4. leases \in [TaskId -> Lease] /\ commands \in [CommandId -> Command] /\ nextRun \in Nat
    BY Zenon DEF WorkersInv, StoreFacts, CommandInv, CommandTypeOK, StoreInv, TypeOK
  <1>5. ASSUME StoreNext, UNCHANGED commandVars,
               \A t \in TaskId : leases'[t] \in {leases[t], NoLease}
        PROVE  Kept
    <2>1. commands' = commands
      BY <1>5, Zenon DEF commandVars
    <2>2. LeasesSteady
      <3> SUFFICES ASSUME NEW t \in TaskId, LeaseLive(t, clock)'
                   PROVE  LeaseLive(t, clock) /\ leases'[t] = leases[t]
        BY <1>1, Zenon DEF LeasesSteady
      <3>1. leases'[t].token # 0
        BY Zenon DEF LeaseLive, HasLease
      <3>2. leases'[t] = leases[t]
        BY <1>5, <3>1 DEF NoLease
      <3> QED
        BY <1>1, <3>2, Zenon DEF LeaseLive, HasLease
    <2> QED
      BY <1>1, <1>2, <1>3, <1>5, <2>1, <2>2, OutsideKeeps, Zenon DEF Next
  <1>6. ASSUME NEW D \in SUBSET TaskId, NEW limit \in AttemptLimits, CreateTask({}, D, limit),
               UNCHANGED commandVars
        PROVE  Kept
    <2>1. StoreNext
      BY <1>6, Zenon DEF StoreNext
    <2>2. leases' = leases
      BY <1>6, Zenon DEF CreateTask
    <2> QED
      BY <1>5, <1>6, <2>1, <2>2, Zenon
  <1>7. ASSUME NEW t \in TaskId, DeleteTask(t), UNCHANGED commandVars
        PROVE  Kept
    <2>1. StoreNext
      BY <1>7, Zenon DEF StoreNext
    <2>2. \A u \in TaskId : leases'[u] \in {leases[u], NoLease}
      BY <1>4, <1>7, Zenon DEF DeleteTask, DropLease
    <2> QED
      BY <1>5, <1>7, <2>1, <2>2, Zenon
  <1>8. ASSUME NEW kind \in Kind, NEW t \in TaskId, CreateCommand(kind, t, 0)
        PROVE  Kept
    <2>1. UNCHANGED storeVars
      BY <1>8, Zenon DEF CreateCommand
    <2>2. 0 \in 0..nextRun
      BY <1>4
    <2>3. Next
      BY <1>8, <2>2, Zenon DEF Next, CommandNext
    <2>4. ASSUME NEW k \in CommandId, commands'[k].status = "claimed" PROVE commands'[k] = commands[k]
      <3>1. CASE k = nextCommand + 1
        <4>1. commands'[k].status = "pending"
          BY <1>4, <1>8, <3>1, NoCommandFields, Zenon DEF CreateCommand, NoCommand
        <4> QED
          BY <2>4, <4>1, Zenon
      <3>2. CASE k # nextCommand + 1
        BY <1>4, <1>8, <3>2, Zenon DEF CreateCommand
      <3> QED
        BY <3>1, <3>2, Zenon
    <2>5. LeasesSteady
      BY <1>1, <1>2, <2>1, NoNewLease, Zenon
    <2> QED
      BY <1>1, <1>2, <1>3, <2>3, <2>4, <2>5, OutsideKeeps, Zenon
  <1> QED
    BY <1>6, <1>7, <1>8, Zenon DEF Client
=============================================================================
