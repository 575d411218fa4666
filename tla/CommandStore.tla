---------------------------- MODULE CommandStore ----------------------------
(***************************************************************************)
(* The command half of the orchestrator's store                            *)
(* (ext/orchestrator/memory/commands.go), over the tasks and leases of     *)
(* TaskStore, with which it shares one mutex.                              *)
(*                                                                         *)
(* A command is addressed to the worker of a run when it is created, and   *)
(* readdressed every time a claim looks at it, because the run may have    *)
(* ended and another worker may have taken the task in the meantime.       *)
(* `commandClaims' is the set of all claimed commands handed to workers;   *)
(* a worker may handle or release its claim at any later time, any number  *)
(* of times.                                                               *)
(*                                                                         *)
(* The claim token is printed from the command's id and the claimant's     *)
(* clock in nanoseconds, while the age of a claim is measured in lease     *)
(* times.  So one reading of the clock is two values here: `nanos', which  *)
(* is taken to be different at each claim, and the coarse instant `now'.   *)
(* (With a clock so coarse that two claims of one command read the same    *)
(* nanosecond, tokens would repeat.)                                       *)
(***************************************************************************)
EXTENDS TaskStore

CONSTANTS
    MaxCommands,    \* bound: commands ever created
    MaxReadings     \* bound: command claims ever granted

ASSUME CommandConstants == MaxCommands \in Nat /\ MaxReadings \in Nat

CommandId == 1..MaxCommands

VARIABLES
    commands,       \* [CommandId -> Command]
    nextCommand,    \* the last command id issued
    nanos,          \* the last nanosecond reading a claim used
    commandClaims   \* every claimed command a worker has received

commandVars == <<commands, nextCommand, nanos, commandClaims>>
allVars == <<storeVars, commandVars>>

Kind == {"cancel", "abort", "retry"}
Command == [status: {"absent", "pending", "claimed", "handled"},
            kind: Kind, task: Nat, run: Nat, target: Worker \cup {NoWorker},
            token: Nat, claimedAt: Nat, claimedBy: Worker \cup {NoWorker},
            handledBy: Worker \cup {NoWorker}]
CommandClaim == [command: CommandId, token: Nat, worker: Worker]

NoCommand == [status |-> "absent", kind |-> "cancel", task |-> 0, run |-> 0,
              target |-> NoWorker, token |-> 0, claimedAt |-> 0,
              claimedBy |-> NoWorker, handledBy |-> NoWorker]

Init ==
    /\ StoreInit
    /\ commands = [k \in CommandId |-> NoCommand]
    /\ nextCommand = 0
    /\ nanos = 0
    /\ commandClaims = {}

-----------------------------------------------------------------------------
(* Addressing. *)

\* validateCommandTargetLocked: whom a new command is for.  Only an abort
\* checks that the run asked for is the task's current one.
ValidTarget(kind, t, run) ==
    CASE kind = "cancel" -> tasks[t].status \in {"pending", "running"}
      [] kind = "abort" -> tasks[t].status = "running" /\ run \in {0, tasks[t].run.id}
      [] kind = "retry" -> tasks[t].status \in {"failed", "canceled"}

\* Variant: an abort follows the task to whoever runs it now.
RefreshedFollowing(k) ==
    IF commands[k].kind = "abort" /\ tasks[commands[k].task].status = "running"
    THEN [commands[k] EXCEPT !.target = tasks[commands[k].task].run.worker]
    ELSE commands[k]

\* Variant: the address is never brought up to date.
RefreshedNever(k) == commands[k]

\* refreshCommandTargetLocked: command k, readdressed.
Refreshed(k) ==
    LET command == commands[k]
        task == tasks[command.task]
    IN  IF task.status = "absent"
        THEN [command EXCEPT !.target = NoWorker, !.run = 0]
        ELSE CASE command.kind = "cancel" /\ task.status = "running" ->
                    [command EXCEPT !.target = task.run.worker, !.run = task.run.id]
               [] command.kind = "cancel" /\ task.status = "pending" ->
                    [command EXCEPT !.target = NoWorker, !.run = 0]
               [] command.kind = "abort" /\ task.status = "running" ->
                    LET run == IF command.run = 0 THEN task.run.id ELSE command.run
                    IN  [command EXCEPT !.run = run,
                            !.target = IF task.run.id = run THEN task.run.worker ELSE NoWorker]
               [] command.kind = "abort" /\ task.status # "running" ->
                    [command EXCEPT !.target = NoWorker]
               [] command.kind = "retry" ->
                    [command EXCEPT !.target = NoWorker,
                                    !.run = IF task.run.id = 0 THEN 0 ELSE @]
               [] OTHER -> command

Pending(k) == commands[k].status = "pending"

\* Command k, once readdressed, is for worker w or for anyone.
ForWorker(k, w) == Refreshed(k).target \in {NoWorker, w}

-----------------------------------------------------------------------------
(* The methods. *)

CreateCommand(kind, t, run) ==
    LET k == nextCommand + 1
        current == tasks[t].run
    IN  /\ nextCommand < MaxCommands
        /\ Exists(t)
        /\ ValidTarget(kind, t, run)
        /\ nextCommand' = k
        /\ commands' = [commands EXCEPT ![k] =
              [NoCommand EXCEPT
                  !.status = "pending", !.kind = kind, !.task = t,
                  !.run = IF run = 0 \/ kind = "abort" THEN current.id ELSE run,
                  !.target = IF tasks[t].status = "running" THEN current.worker
                                                            ELSE NoWorker]]
        /\ UNCHANGED <<storeVars, nanos, commandClaims>>

\* ClaimedBy, ClaimedAt and ClaimToken: worker w's name and claim on a command.
Claimed(command, w, now, token) ==
    [command EXCEPT !.status = "claimed", !.claimedBy = w,
                    !.claimedAt = now, !.token = token]

\* Worker w claims command k; the pending commands in `seen' are readdressed.
ClaimSeen(k, w, now, seen) ==
    /\ nanos < MaxReadings
    /\ nanos' = nanos + 1
    /\ commands' = [j \in CommandId |->
          CASE j = k -> Claimed(Refreshed(k), w, now, nanos + 1)
            [] j # k /\ j \in seen -> Refreshed(j)
            [] OTHER -> commands[j]]
    /\ commandClaims' = commandClaims \cup {[command |-> k, token |-> nanos + 1, worker |-> w]}
    /\ UNCHANGED <<storeVars, nextCommand>>

\* No command is for worker; those it looked at are readdressed all the same.
OnlyRefresh(seen) ==
    /\ commands' = [j \in CommandId |-> IF j \in seen THEN Refreshed(j) ELSE commands[j]]
    /\ UNCHANGED <<storeVars, nextCommand, nanos, commandClaims>>

ClaimPendingCommand(w, now) ==
    LET pending == {k \in CommandId : Pending(k)}
        mine == {k \in pending : ForWorker(k, w)}
    IN  \/ \E k \in mine :
              /\ \A j \in mine : k <= j
              /\ ClaimSeen(k, w, now, {j \in pending : j < k})
        \/ mine = {} /\ OnlyRefresh(pending)

ClaimCommand(k, w, now) ==
    /\ Pending(k)
    /\ IF ForWorker(k, w) THEN ClaimSeen(k, w, now, {}) ELSE OnlyRefresh({k})

ClaimHeld(k, token) == commands[k].status = "claimed" /\ commands[k].token = token

\* Variant: handling does not look at the token.
HandleAnyClaim(k, token, w) ==
    /\ commands[k].status = "claimed"
    /\ commands' = [commands EXCEPT ![k].status = "handled", ![k].handledBy = w,
                                    ![k].token = 0]
    /\ UNCHANGED <<storeVars, nextCommand, nanos, commandClaims>>

HandleCommand(k, token, w) ==
    /\ ClaimHeld(k, token)
    /\ commands' = [commands EXCEPT ![k].status = "handled", ![k].handledBy = w,
                                    ![k].token = 0]
    /\ UNCHANGED <<storeVars, nextCommand, nanos, commandClaims>>

\* A claim is undone: the command is pending again, with nobody's name on it.
Unclaimed(command) ==
    [command EXCEPT !.status = "pending", !.claimedBy = NoWorker,
                    !.claimedAt = 0, !.token = 0]

ReleaseCommand(k, token) ==
    /\ ClaimHeld(k, token)
    /\ commands' = [commands EXCEPT ![k] = Unclaimed(@)]
    /\ UNCHANGED <<storeVars, nextCommand, nanos, commandClaims>>

\* recoverClaimedCommandLocked, for the commands of S claimed at `before' or
\* earlier.
RecoverCommands(S, before) ==
    /\ commands' = [k \in CommandId |->
          IF k \in S /\ commands[k].status = "claimed" /\ commands[k].claimedAt <= before
          THEN Unclaimed(commands[k]) ELSE commands[k]]
    /\ UNCHANGED <<storeVars, nextCommand, nanos, commandClaims>>

RecoverClaimedCommands(before) == RecoverCommands(CommandId, before)
RecoverClaimedCommand(k, before) == RecoverCommands({k}, before)

-----------------------------------------------------------------------------

CommandNext ==
    \/ \E kind \in Kind, t \in TaskId, run \in 0..nextRun : CreateCommand(kind, t, run)
    \/ \E w \in Worker, now \in Time :
          \/ ClaimPendingCommand(w, now)
          \/ \E k \in CommandId : ClaimCommand(k, w, now)
    \/ \E cc \in commandClaims :
          \/ HandleCommand(cc.command, cc.token, cc.worker)
          \/ ReleaseCommand(cc.command, cc.token)
    \/ \E before \in Time : RecoverClaimedCommands(before)
    \/ \E k \in CommandId, before \in Time : RecoverClaimedCommand(k, before)

Next ==
    \/ CommandNext
    \/ StoreNext /\ UNCHANGED commandVars

Spec == Init /\ [][Next]_allVars

-----------------------------------------------------------------------------
(* Properties. *)

\* Only one of the claims handed out for a command is ever good, and it is the
\* claimant's; so the worker that acknowledges a command is the one whose claim
\* stands, not one whose claim was released or recovered.
OnlyClaimantHandles ==
    /\ \A cc \in commandClaims :
          ClaimHeld(cc.command, cc.token) => commands[cc.command].claimedBy = cc.worker
    /\ \A k \in CommandId :
          commands[k].status = "handled" => commands[k].handledBy = commands[k].claimedBy

\* An abort stays pinned to its run: if it is addressed to a worker, that
\* worker was given the very run the command names.
AbortPinnedToItsRun ==
    \A k \in CommandId :
        commands[k].kind = "abort" /\ commands[k].target # NoWorker =>
            \E c \in claims : /\ c.task = commands[k].task
                              /\ c.run = commands[k].run
                              /\ c.worker = commands[k].target

\* A cancel of a running task is claimed by the worker running it, whoever
\* that was when the command was created.
CancelReachesRunner ==
    [][\A k \in CommandId :
          /\ commands[k].kind = "cancel"
          /\ commands[k].status = "pending" /\ commands'[k].status = "claimed"
          /\ tasks[commands[k].task].status = "running"
          => commands'[k].claimedBy = tasks[commands[k].task].run.worker]_allVars

=============================================================================
