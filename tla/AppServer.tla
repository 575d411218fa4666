----------------------------- MODULE AppServer -----------------------------
(***************************************************************************)
(* The turns of the app server and the exact revert of a file change.      *)
(* One daemon process serves several connections.  Each has a              *)
(* RuntimeService, which runs agent turns in goroutines; they share the    *)
(* store and one WorkspaceMutationCoordinator, which keeps the start of a  *)
(* turn and a revert apart.  The process crashes at any moment; started    *)
(* again, it terminates the turns that nobody runs any more.               *)
(*                                                                         *)
(* Turn 1 ended before the model begins and changed one file; its recovery *)
(* record is `record'.  Interrupting a turn is left out: it makes the run  *)
(* end, and here a run may end at any time.                                *)
(***************************************************************************)
EXTENDS ExactRevert, FiniteSets

CONSTANTS Conn, NoConn,     \* connections
          RetryKey,         \* idempotency keys of turn/retry
          MaxTurns, MaxCrashes

ASSUME ServerConstants ==
    /\ NoConn \notin Conn
    /\ "none" \notin RetryKey
    /\ MaxTurns \in Nat \ {0}
    /\ MaxCrashes \in Nat

VARIABLES up,         \* the process runs
          crashes,
          thread,     \* status of the thread
          turns,      \* turns[t]: what the store has on turn t
          lease,      \* who holds the coordinator's mutex for a start
          calls,      \* calls[c]: the start or retry under way
          runs,       \* runs[t]: the service whose goroutine runs turn t
          service,    \* service[c]: open, closing (in Shutdown), closed
          stranded,   \* turns whose final status could not be written
          reserved,   \* the coordinator's revert reservation
          revert,     \* the item/fileChange/revert request under way
          record      \* the FileChangeRecovery of turn 1's change

turnVars == <<thread, turns, lease, calls, runs, service, stranded>>
requestVars == <<reserved, revert, record>>
serverVars == <<up, crashes, thread, turns, lease, calls, runs, service,
                stranded, reserved, revert, record>>
allVars == <<revertVars, serverVars>>

Turn == 1..MaxTurns

\* "gone" turns were rolled back; "over" stands for completed, failed and
\* interrupted.
NoTurn == [status |-> "none", of |-> 0, key |-> "none"]
Ended == [NoTurn EXCEPT !.status = "over"]
Active == {t \in Turn : turns[t].status \in {"queued", "running"}}

NoCall == [pc |-> "idle", turn |-> 0, of |-> 0, key |-> "none"]
NoRevert == [pc |-> "idle", key |-> "none"]

ServerInit ==
    /\ RevertInit
    /\ up = TRUE
    /\ crashes = 0
    /\ thread = "active"
    /\ turns = [t \in Turn |-> IF t = 1 THEN Ended ELSE NoTurn]
    /\ lease = NoConn
    /\ calls = [c \in Conn |-> NoCall]
    /\ runs = [t \in Turn |-> NoConn]
    /\ service = [c \in Conn |-> "open"]
    /\ stranded = {}
    /\ reserved = FALSE
    /\ revert = NoRevert
    /\ record = [status |-> "available", key |-> "none"]

-----------------------------------------------------------------------------
(* Starting and retrying turns. *)

Fresh(t) ==
    /\ turns[t].status = "none"
    /\ \A u \in Turn : u < t => turns[u].status # "none"

\* The turn that was already created for the key.
Prepared(key) ==
    {t \in Turn : turns[t].key = key /\ turns[t].status \notin {"none", "gone"}}

\* The bound on turns: a request that would create a turn finds room for it.
Room(key) ==
    \/ \E t \in Turn : Fresh(t)
    \/ key # "none" /\ Prepared(key) # {}

\* Start and Retry take the service's start mutex and the coordinator's
\* mutex, and keep both until the turn runs; they fail during a revert and
\* once the service shuts down.
AcquireStartLease(c, of, key) ==
    /\ calls[c].pc = "idle"
    /\ service[c] = "open"
    /\ Room(key)
    /\ lease = NoConn
    /\ ~reserved
    /\ lease' = c
    /\ calls' = [calls EXCEPT
                   ![c] = [pc |-> "create", turn |-> 0, of |-> of, key |-> key]]
    /\ UNCHANGED <<thread, turns, runs, service, stranded>>

EndCall(c) ==
    /\ calls' = [calls EXCEPT ![c] = NoCall]
    /\ lease' = NoConn

Enqueue(c, t) ==
    /\ Fresh(t)
    /\ turns' = [turns EXCEPT ![t] = [status |-> "queued", of |-> calls[c].of,
                                      key |-> calls[c].key]]
    /\ calls' = [calls EXCEPT
                   ![c] = [pc |-> "start", turn |-> t, of |-> calls[c].of,
                           key |-> calls[c].key]]
    /\ UNCHANGED lease

CreateTurn(c) ==
    /\ calls[c].pc = "create"
    /\ calls[c].key = "none"
    /\ IF thread = "active"
         THEN \E t \in Turn : Enqueue(c, t)
         ELSE EndCall(c) /\ UNCHANGED turns
    /\ UNCHANGED <<thread, runs, service, stranded>>

\* A key that has a turn gives that turn, or a conflict; it starts nothing.
PrepareTurnRetry(c) ==
    /\ calls[c].pc = "create"
    /\ calls[c].key # "none"
    /\ IF /\ thread = "active"
          /\ turns[calls[c].of].status = "over"
          /\ Prepared(calls[c].key) = {}
         THEN \E t \in Turn : Enqueue(c, t)
         ELSE EndCall(c) /\ UNCHANGED turns
    /\ UNCHANGED <<thread, runs, service, stranded>>

\* AppendItem and StartTurn.
StartTurn(c) ==
    /\ calls[c].pc = "start"
    /\ thread = "active"
    /\ turns' = [turns EXCEPT ![calls[c].turn].status = "running"]
    /\ calls' = [calls EXCEPT ![c].pc = "register"]
    /\ UNCHANGED <<thread, lease, runs, service, stranded>>

\* Variant: the error is returned and the turn left as it is.
FailUnownedTurnQuietly(c) ==
    /\ calls[c].pc = "start"
    /\ EndCall(c)
    /\ UNCHANGED <<thread, turns, runs, service, stranded, faults>>

\* One of the two fails (the request was canceled, or the store fails), and
\* failUnownedTurn writes the turn's end, if it can.
FailUnownedTurn(c) ==
    /\ calls[c].pc = "start"
    /\ \/ /\ turns' = [turns EXCEPT ![calls[c].turn].status = "over"]
          /\ UNCHANGED <<stranded, faults>>
       \/ /\ faults < MaxFaults
          /\ faults' = faults + 1
          /\ stranded' = stranded \cup {calls[c].turn}
          /\ UNCHANGED turns
    /\ EndCall(c)
    /\ UNCHANGED <<thread, runs, service>>

\* The turn is entered in the table of active turns, its goroutine starts and
\* the lease is released.
Register(c) ==
    /\ calls[c].pc = "register"
    /\ runs' = [runs EXCEPT ![calls[c].turn] = c]
    /\ EndCall(c)
    /\ UNCHANGED <<thread, turns, service, stranded>>

RunsOf(c) == {t \in Turn : runs[t] = c}

\* run ends: complete writes the status, unless the store has been closed or
\* fails; then the entry in the table goes.
Complete(t) ==
    /\ runs[t] # NoConn
    /\ runs' = [runs EXCEPT ![t] = NoConn]
    /\ \/ /\ service[runs[t]] # "closed"
          /\ turns' = [turns EXCEPT ![t].status = "over"]
          /\ UNCHANGED <<stranded, faults>>
       \/ /\ IF service[runs[t]] = "closed" THEN UNCHANGED faults
             ELSE faults < MaxFaults /\ faults' = faults + 1
          /\ stranded' = stranded \cup {t}
          /\ UNCHANGED turns
    /\ service' = IF service[runs[t]] = "closed" /\ RunsOf(runs[t]) = {t}
                    THEN [service EXCEPT ![runs[t]] = "open"] ELSE service
    /\ UNCHANGED <<thread, lease, calls>>

\* A connection ends.  Shutdown takes the start mutex and cancels the runs;
\* it waits for them, but no longer than its context allows.  Then the
\* connection's store is closed.  With no run left, c stands for the next
\* connection, which has a service and a store of its own.
Shutdown(c) ==
    /\ service[c] = "open"
    /\ calls[c].pc = "idle"
    /\ service' = [service EXCEPT ![c] = "closing"]
    /\ UNCHANGED <<thread, turns, lease, calls, runs, stranded>>

CloseStore(c) ==
    /\ service[c] = "closing"
    /\ service' = [service EXCEPT
                      ![c] = IF RunsOf(c) = {} THEN "open" ELSE "closed"]
    /\ UNCHANGED <<thread, turns, lease, calls, runs, stranded>>

-----------------------------------------------------------------------------
(* The thread. *)

\* ArchiveThread and UnarchiveThread take no lease; a thread with an active
\* turn is not archived.
SetThreadStatus(s) ==
    /\ thread # "deleted"
    /\ s \in {"archived", "deleted"} => Active = {}
    /\ thread # s
    /\ thread' = s
    /\ UNCHANGED <<turns, lease, calls, runs, service, stranded, record>>

\* DeleteThread is called under a workspace mutation lease.
DeleteThread ==
    /\ lease = NoConn
    /\ ~reserved
    /\ SetThreadStatus("deleted")

\* RollbackThread, under a lease too and only without active turns, removes
\* the last n turns with their items and recovery records.
Existing == {t \in Turn : turns[t].status \notin {"none", "gone"}}

LastTurns(n) == {t \in Existing : Cardinality({u \in Existing : u > t}) < n}

RollbackThread(n) ==
    /\ lease = NoConn
    /\ ~reserved
    /\ Active = {}
    /\ thread # "deleted"
    /\ LastTurns(n) # {}
    /\ turns' = [t \in Turn |-> IF t \in LastTurns(n)
                                 THEN [turns[t] EXCEPT !.status = "gone"]
                                 ELSE turns[t]]
    /\ record' = IF 1 \in LastTurns(n)
                   THEN [status |-> "deleted", key |-> "none"] ELSE record
    /\ UNCHANGED <<thread, lease, calls, runs, service, stranded>>

-----------------------------------------------------------------------------
(* Reverting the file change. *)

Release == reserved' = FALSE /\ revert' = NoRevert

\* Variant: the reservation is made without the mutex.
ReserveUnlocked(k) ==
    /\ ~reserved
    /\ Active = {}
    /\ reserved' = TRUE
    /\ revert' = [pc |-> "load", key |-> k]
    /\ UNCHANGED <<record, op>>

\* Under the mutex the request reserves the workspace, unless another one has
\* or a turn is active.  What it read before is read again afterwards.
ReserveWorkspaceRevert(k) ==
    /\ lease = NoConn
    /\ ~reserved
    /\ Active = {}
    /\ reserved' = TRUE
    /\ revert' = [pc |-> "load", key |-> k]
    /\ UNCHANGED <<record, op>>

\* A pending revert is resumed by its own key only; a new one needs the file
\* as the change left it.
LoadFileChange ==
    /\ revert.pc = "load"
    /\ IF /\ thread # "deleted"
          /\ \/ record.status = "available" /\ target = change.after
             \/ record.status = "pending" /\ record.key = revert.key
         THEN revert' = [revert EXCEPT !.pc = "prepare"] /\ UNCHANGED reserved
         ELSE Release
    /\ UNCHANGED <<record, op>>

\* The key is bound to the record before the file is touched.
PrepareFileChangeRevert ==
    /\ revert.pc = "prepare"
    /\ record' = [status |-> "pending", key |-> revert.key]
    /\ revert' = [revert EXCEPT !.pc = "file"]
    /\ op' = [pc |-> "check", key |-> revert.key]
    /\ UNCHANGED reserved

\* The file was restored; the store may fail to record it.
CompleteFileChangeRevert ==
    /\ revert.pc = "file"
    /\ op.pc = "done"
    /\ \/ record' = [record EXCEPT !.status = "reverted"] /\ UNCHANGED faults
       \/ /\ faults < MaxFaults
          /\ faults' = faults + 1
          /\ UNCHANGED record
    /\ op' = NoOp
    /\ Release

\* Variant: the key is released whatever has become of the file.
AbortAlways ==
    /\ revert.pc = "file"
    /\ op.pc = "failed"
    /\ record' = [status |-> "available", key |-> "none"]
    /\ op' = NoOp
    /\ Release

\* The file could not be restored.  The key is released if the file is found
\* as the change left it, unless the request has been canceled.
AbortIfUnchanged ==
    /\ revert.pc = "file"
    /\ op.pc = "failed"
    /\ \/ /\ target = change.after
          /\ record' = [status |-> "available", key |-> "none"]
       \/ UNCHANGED record
    /\ op' = NoOp
    /\ Release

-----------------------------------------------------------------------------
(* Crash and restart. *)

Crash ==
    /\ up
    /\ crashes < MaxCrashes
    /\ crashes' = crashes + 1
    /\ up' = FALSE
    /\ lease' = NoConn
    /\ calls' = [c \in Conn |-> NoCall]
    /\ runs' = [t \in Turn |-> NoConn]
    /\ service' = [c \in Conn |-> "open"]
    /\ op' = NoOp
    /\ Release
    /\ UNCHANGED <<thread, turns, stranded, record, change, target, box, edits,
                   faults, replaced>>

\* RecoverOrphanedTurns, before any connection is served.
RecoverOrphanedTurns ==
    /\ ~up
    /\ up' = TRUE
    /\ turns' = [t \in Turn |-> IF t \in Active
                                 THEN [turns[t] EXCEPT !.status = "over"]
                                 ELSE turns[t]]
    /\ stranded' = {}
    /\ UNCHANGED <<crashes, thread, lease, calls, runs, service, requestVars,
                   revertVars>>

-----------------------------------------------------------------------------

TurnStep ==
    /\ \E c \in Conn :
         \/ AcquireStartLease(c, 0, "none")
         \/ \E t \in Existing, k \in RetryKey : AcquireStartLease(c, t, k)
         \/ CreateTurn(c)
         \/ PrepareTurnRetry(c)
         \/ StartTurn(c)
         \/ Register(c)
         \/ Shutdown(c)
         \/ CloseStore(c)
    /\ UNCHANGED <<up, crashes, requestVars, revertVars>>

\* Steps that write a turn's end, which may fail.
EndStep ==
    /\ \/ \E c \in Conn : FailUnownedTurn(c)
       \/ \E t \in Turn : Complete(t)
    /\ UNCHANGED <<up, crashes, requestVars, change, target, box, op, edits,
                   replaced>>

ThreadStep ==
    /\ \/ \E s \in {"active", "archived"} : SetThreadStatus(s)
       \/ DeleteThread
       \/ \E n \in Turn : RollbackThread(n)
    /\ UNCHANGED <<up, crashes, reserved, revert, revertVars>>

RequestStep ==
    /\ \/ (\E k \in Key : ReserveWorkspaceRevert(k)) /\ UNCHANGED faults
       \/ LoadFileChange /\ UNCHANGED faults
       \/ PrepareFileChangeRevert /\ UNCHANGED faults
       \/ CompleteFileChangeRevert
       \/ AbortIfUnchanged /\ UNCHANGED faults
    /\ UNCHANGED <<up, crashes, turnVars, change, target, box, edits, replaced>>

FileStep == (RevertFileStep \/ EditFile) /\ UNCHANGED serverVars

ServerNext ==
    \/ up /\ (TurnStep \/ EndStep \/ ThreadStep \/ RequestStep)
    \/ FileStep
    \/ Crash
    \/ RecoverOrphanedTurns

ServerSpec == ServerInit /\ [][ServerNext]_allVars

-----------------------------------------------------------------------------

\* While a revert has the workspace (from its reservation to its last write)
\* no turn is queued or running in the store, and no agent runs.
RevertExcludesTurns ==
    reserved => Active = {} /\ \A t \in Turn : runs[t] = NoConn

\* In a running daemon every queued or running turn has somebody who will end
\* it, a start under way or a goroutine; else it would block every revert and
\* the archiving of its thread.  The exception is a turn whose end could not
\* be written: the store failed, or was closed while the run went on.
TurnsAreOwned ==
    up => \A t \in Active :
            \/ \E c \in Conn : calls[c].turn = t
            \/ runs[t] # NoConn
            \/ t \in stranded

\* Until somebody else writes the file or an operation fails, a revert is all
\* or nothing, however often the process crashes, also while it repairs: with
\* the record available the file is the changed one, with the record reverted
\* it is restored, and while it is pending one of the two is in place, or the
\* changed file is in the quarantine from which the same key puts it back.
RevertIsAllOrNothing ==
    edits = 0 /\ faults = 0 =>
      CASE record.status = "available" -> target = change.after
        [] record.status = "reverted" ->
             target = change.before /\ ~box[record.key].dir
        [] record.status = "pending" ->
             \/ target \in {change.before, change.after}
             \/ target = "absent" /\ box[record.key].current = change.after
        [] OTHER -> TRUE
=============================================================================
