-------------------------- MODULE AppServerProofs --------------------------
(***************************************************************************)
(* The safety properties of AppServer and ExactRevert, for any             *)
(* connections, keys, contents and bounds.                                 *)
(***************************************************************************)
EXTENDS AppServer, TLAPS

-----------------------------------------------------------------------------
(* Turns, the start lease and the revert reservation. *)

CallRecord == [pc: {"idle", "create", "start", "register"}, turn: Nat,
               of: Nat, key: RetryKey \cup {"none"}]

TurnRecord == [status: {"none", "queued", "running", "over", "gone"},
               of: Nat, key: RetryKey \cup {"none"}]

TurnTypeOK ==
    /\ turns \in [Turn -> TurnRecord]
    /\ calls \in [Conn -> CallRecord]
    /\ runs \in [Turn -> Conn \cup {NoConn}]
    /\ up \in BOOLEAN
    /\ reserved \in BOOLEAN

\* A start or retry under way holds the lease, and the turn it created is
\* as far as the call is.
CallsHoldLease ==
    \A c \in Conn :
        /\ calls[c].pc # "idle" => lease = c
        /\ calls[c].pc \in {"idle", "create"} => calls[c].turn = 0
        /\ calls[c].pc = "start" =>
             calls[c].turn \in Turn /\ turns[calls[c].turn].status = "queued"
        /\ calls[c].pc = "register" =>
             /\ calls[c].turn \in Turn
             /\ turns[calls[c].turn].status = "running"
             /\ runs[calls[c].turn] = NoConn

RunsAreRunning ==
    \A t \in Turn : runs[t] # NoConn => turns[t].status = "running"

\* A reservation finds no lease and no active turn, and none appears.
ReservedIsQuiet == reserved => lease = NoConn /\ Active = {}

\* A process that is down has lost everything it held.
DownIsEmpty ==
    ~up => /\ ~reserved
           /\ \A c \in Conn : calls[c].pc = "idle"
           /\ \A t \in Turn : runs[t] = NoConn

\* The inductive invariant of turns and reservation.
TurnInv ==
    /\ TurnTypeOK
    /\ CallsHoldLease
    /\ RunsAreRunning
    /\ ReservedIsQuiet
    /\ DownIsEmpty
    /\ TurnsAreOwned

USE ServerConstants DEF Turn

\* Writing a turn's status.
LEMMA StatusWritten ==
  ASSUME TurnTypeOK, NEW n \in Turn,
         NEW s \in {"none", "queued", "running", "over", "gone"},
         turns' = [turns EXCEPT ![n].status = s]
  PROVE  /\ turns' \in [Turn -> TurnRecord]
         /\ turns'[n].status = s
         /\ \A t \in Turn : t # n => turns'[t] = turns[t]
  <1>1. turns \in [Turn -> TurnRecord]
    BY Zenon DEF TurnTypeOK
  <1>2. turns[n] \in TurnRecord
    BY <1>1, Zenon
  <1>3. [turns[n] EXCEPT !.status = s] \in TurnRecord
    BY <1>2, Zenon DEF TurnRecord
  <1>4. turns' = [turns EXCEPT ![n] = [turns[n] EXCEPT !.status = s]]
    OBVIOUS
  <1>5. [turns[n] EXCEPT !.status = s].status = s
    BY <1>2, Zenon DEF TurnRecord
  <1> QED
    BY <1>1, <1>3, <1>4, <1>5, Zenon

\* Its variables at the start.
LEMMA InitTurns == ServerInit => TurnInv
  <1> SUFFICES ASSUME ServerInit PROVE TurnInv
    OBVIOUS
  <1> USE DEF ServerInit
  <1>1. TurnTypeOK
    BY Zenon DEF TurnTypeOK, TurnRecord, CallRecord, NoTurn, Ended, NoCall
  <1>2. CallsHoldLease
    BY Zenon DEF CallsHoldLease, NoCall
  <1>3. RunsAreRunning /\ DownIsEmpty
    BY Zenon DEF RunsAreRunning, DownIsEmpty
  <1>4. Active = {}
    BY Zenon DEF Active, NoTurn, Ended
  <1>5. ReservedIsQuiet /\ TurnsAreOwned
    BY <1>4, Zenon DEF ReservedIsQuiet, TurnsAreOwned
  <1> QED
    BY <1>1, <1>2, <1>3, <1>5, Zenon DEF TurnInv

\* The variables that TurnInv is about.
ownVars == <<up, turns, lease, calls, runs, stranded, reserved>>

\* Steps that change none of them, such as the operations on the file.
LEMMA TurnsUntouched ==
  ASSUME TurnInv, UNCHANGED ownVars PROVE TurnInv'
  BY Zenon DEF TurnInv, ownVars, TurnTypeOK, CallsHoldLease, RunsAreRunning,
         ReservedIsQuiet, DownIsEmpty, TurnsAreOwned, Active

\* acquireStartLease: nobody holds the lease and nothing is reserved.
LEMMA AcquireTurns ==
  ASSUME TurnInv, UNCHANGED <<up, requestVars>>, up,
         NEW c \in Conn, NEW of \in Nat, NEW key \in RetryKey \cup {"none"},
         AcquireStartLease(c, of, key)
  PROVE  TurnInv'
  <1> USE DEF AcquireStartLease, requestVars
  <1>1. TurnTypeOK'
    BY Zenon DEF TurnInv, TurnTypeOK, CallRecord
  <1>2. \A d \in Conn : d # c => /\ calls[d].pc = "idle" /\ calls[d].turn = 0
                                 /\ calls'[d] = calls[d]
    BY Zenon DEF TurnInv, TurnTypeOK, CallsHoldLease
  <1>3. calls'[c].pc = "create" /\ calls'[c].turn = 0 /\ calls[c].turn = 0
    <2>1. calls'[c].pc = "create" /\ calls'[c].turn = 0
      BY Zenon DEF TurnInv, TurnTypeOK
    <2>2. calls[c].turn = 0
      BY Zenon DEF TurnInv, CallsHoldLease
    <2> QED
      BY <2>1, <2>2, Zenon
  <1>4. CallsHoldLease'
    BY <1>2, <1>3, Zenon DEF CallsHoldLease
  <1>5. RunsAreRunning' /\ ReservedIsQuiet' /\ DownIsEmpty'
    BY Zenon DEF TurnInv, RunsAreRunning, ReservedIsQuiet, DownIsEmpty
  <1>6. TurnsAreOwned'
    <2> SUFFICES ASSUME NEW t \in Active'
                 PROVE  (\E d \in Conn : calls'[d].turn = t) \/ runs'[t] # NoConn
                        \/ t \in stranded'
      BY Zenon DEF TurnsAreOwned
    <2>1. t \in Active
      BY Zenon DEF Active
    <2>2. t # 0
      BY DEF Active
    <2>3. CASE \E d \in Conn : calls[d].turn = t
      BY <2>2, <2>3, <1>2, <1>3, Zenon
    <2> QED
      BY <2>1, <2>3, Zenon DEF TurnInv, TurnsAreOwned
  <1> QED
    BY <1>1, <1>4, <1>5, <1>6, Zenon DEF TurnInv

\* A call that has the lease is the only one.
LEMMA OneCall ==
  ASSUME TurnInv, NEW c \in Conn, calls[c].pc # "idle"
  PROVE  /\ lease = c
         /\ ~reserved
         /\ up
         /\ \A d \in Conn : d # c => calls[d].pc = "idle" /\ calls[d].turn = 0
  BY Zenon DEF TurnInv, TurnTypeOK, CallsHoldLease, ReservedIsQuiet, DownIsEmpty

\* A call that ends without having created a turn.
LEMMA CallEnds ==
  ASSUME TurnInv, UNCHANGED <<up, requestVars, turns, runs, stranded>>,
         NEW c \in Conn, calls[c].pc = "create", EndCall(c)
  PROVE  TurnInv'
  <1> USE DEF EndCall, requestVars
  <1>1. TurnTypeOK'
    BY Zenon DEF TurnInv, TurnTypeOK, CallRecord, NoCall
  <1>2. /\ calls[c].turn = 0
        /\ calls'[c].pc = "idle" /\ calls'[c].turn = 0
        /\ \A d \in Conn : d # c => /\ calls[d].pc = "idle" /\ calls[d].turn = 0
                                    /\ calls'[d] = calls[d]
    BY OneCall, Zenon DEF TurnInv, TurnTypeOK, CallsHoldLease, NoCall
  <1>3. CallsHoldLease'
    BY <1>2, Zenon DEF CallsHoldLease
  <1>4. RunsAreRunning' /\ ReservedIsQuiet' /\ DownIsEmpty'
    BY OneCall, Zenon DEF TurnInv, RunsAreRunning, ReservedIsQuiet, DownIsEmpty
  <1>5. TurnsAreOwned'
    <2>1. \A t \in Active : t # 0
      BY DEF Active
    <2> QED
      BY <1>2, <2>1 DEF TurnInv, TurnsAreOwned, Active
  <1> QED
    BY <1>1, <1>3, <1>4, <1>5, Zenon DEF TurnInv

\* A call that creates a turn owns it.
LEMMA EnqueueTurns ==
  ASSUME TurnInv, UNCHANGED <<up, requestVars, runs, stranded>>,
         NEW c \in Conn, calls[c].pc = "create",
         NEW n \in Turn, Enqueue(c, n)
  PROVE  TurnInv'
  <1> USE DEF Enqueue, requestVars, Fresh
  <1>1. TurnTypeOK'
    <2>1. [status |-> "queued", of |-> calls[c].of, key |-> calls[c].key] \in TurnRecord
      BY Zenon DEF TurnInv, TurnTypeOK, CallRecord, TurnRecord
    <2>2. [pc |-> "start", turn |-> n, of |-> calls[c].of, key |-> calls[c].key] \in CallRecord
      BY DEF TurnInv, TurnTypeOK, CallRecord
    <2> QED
      BY <2>1, <2>2, Zenon DEF TurnInv, TurnTypeOK
  <1>2. /\ lease = c /\ ~reserved /\ up /\ calls[c].turn = 0
        /\ calls'[c].pc = "start" /\ calls'[c].turn = n
        /\ \A d \in Conn : d # c => /\ calls[d].pc = "idle" /\ calls[d].turn = 0
                                    /\ calls'[d] = calls[d]
    BY OneCall, Zenon DEF TurnInv, TurnTypeOK, CallsHoldLease
  <1>3. /\ turns'[n].status = "queued"
        /\ \A t \in Turn : t # n => turns'[t] = turns[t]
        /\ turns[n].status = "none"
    BY Zenon DEF TurnInv, TurnTypeOK
  <1>4. CallsHoldLease'
    BY <1>2, <1>3 DEF CallsHoldLease
  <1>5. RunsAreRunning'
    BY <1>3, Zenon DEF TurnInv, RunsAreRunning
  <1>6. ReservedIsQuiet' /\ DownIsEmpty'
    BY <1>2, Zenon DEF ReservedIsQuiet, DownIsEmpty
  <1>7. TurnsAreOwned'
    <2> SUFFICES ASSUME NEW t \in Active', t # n
                 PROVE  runs'[t] # NoConn \/ t \in stranded'
      BY <1>2, Zenon DEF TurnsAreOwned
    <2>1. t \in Active /\ t # 0
      BY <1>3 DEF Active
    <2> QED
      BY <2>1, <1>2, Zenon DEF TurnInv, TurnsAreOwned
  <1> QED
    BY <1>1, <1>4, <1>5, <1>6, <1>7, Zenon DEF TurnInv

\* CreateTurn and PrepareTurnRetry end the call or create a turn.
LEMMA CreateTurns ==
  ASSUME TurnInv, UNCHANGED <<up, requestVars>>,
         NEW c \in Conn, CreateTurn(c) \/ PrepareTurnRetry(c)
  PROVE  TurnInv'
  <1>1. calls[c].pc = "create" /\ UNCHANGED <<runs, stranded>>
    BY Zenon DEF CreateTurn, PrepareTurnRetry
  <1>2. CASE EndCall(c) /\ UNCHANGED turns
    BY <1>1, <1>2, CallEnds, Zenon
  <1>3. CASE \E t \in Turn : Enqueue(c, t)
    BY <1>1, <1>3, EnqueueTurns, Zenon
  <1> QED
    BY <1>2, <1>3, Zenon DEF CreateTurn, PrepareTurnRetry

\* A step of the call that owns turn n gives the turn another status.  The
\* call goes on, or it ends and the turn has another owner or is over.
LEMMA OwnTurns ==
  ASSUME TurnInv, UNCHANGED <<up, requestVars>>, NEW c \in Conn,
         calls[c].pc \in {"start", "register"},
         StartTurn(c) \/ FailUnownedTurn(c) \/ Register(c)
  PROVE  TurnInv'
  <1> DEFINE n == calls[c].turn
  <1>1. /\ lease = c /\ ~reserved /\ up /\ n \in Turn
        /\ \A d \in Conn : d # c => calls[d].pc = "idle" /\ calls[d].turn = 0
    BY OneCall, Zenon DEF TurnInv, CallsHoldLease
  <1>2. runs[n] = NoConn
    BY <1>1, Zenon DEF TurnInv, CallsHoldLease, RunsAreRunning
  <1>3. \A t \in Active : t # n => runs[t] # NoConn \/ t \in stranded
    <2> SUFFICES ASSUME NEW t \in Active, t # n
                 PROVE  runs[t] # NoConn \/ t \in stranded
      OBVIOUS
    <2>1. t # 0
      BY DEF Active
    <2> QED
      BY <1>1, <2>1, Zenon DEF TurnInv, TurnsAreOwned
  <1>4. CASE StartTurn(c)
    <2> USE <1>4 DEF StartTurn, requestVars
    <2>2. /\ turns'[n].status = "running"
          /\ \A t \in Turn : t # n => turns'[t] = turns[t]
          /\ turns' \in [Turn -> TurnRecord]
      BY <1>1, StatusWritten, Zenon DEF TurnInv
    <2>3. /\ calls'[c].pc = "register" /\ calls'[c].turn = n
          /\ \A d \in Conn : d # c => calls'[d] = calls[d]
          /\ calls' \in [Conn -> CallRecord]
      <3>1. calls \in [Conn -> CallRecord] /\ calls[c] \in CallRecord
        BY Zenon DEF TurnInv, TurnTypeOK
      <3>2. [calls[c] EXCEPT !.pc = "register"] \in CallRecord
        BY <3>1, Zenon DEF CallRecord
      <3>3. /\ [calls[c] EXCEPT !.pc = "register"].pc = "register"
            /\ [calls[c] EXCEPT !.pc = "register"].turn = n
        BY <3>1, Zenon DEF CallRecord
      <3>4. calls' = [calls EXCEPT ![c] = [calls[c] EXCEPT !.pc = "register"]]
        OBVIOUS
      <3> QED
        BY <3>1, <3>2, <3>3, <3>4, Zenon
    <2>1. TurnTypeOK'
      BY <2>2, <2>3, Zenon DEF TurnInv, TurnTypeOK
    <2>4. CallsHoldLease'
      BY <1>1, <1>2, <2>2, <2>3, Zenon DEF CallsHoldLease
    <2>5. RunsAreRunning'
      BY <2>2, Zenon DEF TurnInv, RunsAreRunning
    <2>6. ReservedIsQuiet' /\ DownIsEmpty'
      BY <1>1, Zenon DEF ReservedIsQuiet, DownIsEmpty
    <2>7. TurnsAreOwned'
      BY <1>3, <2>2, <2>3, Zenon DEF TurnsAreOwned, Active
    <2> QED
      BY <2>1, <2>4, <2>5, <2>6, <2>7, Zenon DEF TurnInv
  <1>5. CASE FailUnownedTurn(c) \/ Register(c)
    <2>1. EndCall(c) /\ UNCHANGED <<up, reserved>>
      BY <1>5, Zenon DEF FailUnownedTurn, Register, requestVars
    <2>2. /\ calls'[c].pc = "idle" /\ calls'[c].turn = 0
          /\ \A d \in Conn : d # c => calls'[d] = calls[d]
          /\ calls' \in [Conn -> CallRecord]
      BY <2>1, Zenon DEF TurnInv, TurnTypeOK, CallRecord, EndCall, NoCall
    <2>3. CallsHoldLease' /\ ReservedIsQuiet' /\ DownIsEmpty'
      BY <1>1, <2>1, <2>2 DEF CallsHoldLease, ReservedIsQuiet, DownIsEmpty
    <2>4. CASE FailUnownedTurn(c)
      <3> USE <2>4 DEF FailUnownedTurn
      <3>2. /\ \/ turns'[n].status = "over" /\ stranded' = stranded
               \/ turns' = turns /\ stranded' = stranded \cup {n}
            /\ \A t \in Turn : t # n => turns'[t] = turns[t]
            /\ turns' \in [Turn -> TurnRecord]
        BY <1>1, StatusWritten, Zenon DEF TurnInv, TurnTypeOK
      <3>1. TurnTypeOK'
        BY <1>1, <2>1, <2>2, <3>2, Zenon DEF TurnInv, TurnTypeOK
      <3>3. RunsAreRunning'
        BY <1>2, <3>2, Zenon DEF TurnInv, RunsAreRunning
      <3>4. TurnsAreOwned'
        BY <1>3, <3>2, Zenon DEF TurnsAreOwned, Active
      <3> QED
        BY <2>3, <3>1, <3>3, <3>4, Zenon DEF TurnInv
    <2>5. CASE Register(c)
      <3> USE <2>5 DEF Register
      <3>1. TurnTypeOK'
        BY <1>1, <2>1, <2>2, Zenon DEF TurnInv, TurnTypeOK
      <3>2. /\ runs'[n] = c /\ turns[n].status = "running"
            /\ \A t \in Turn : t # n => runs'[t] = runs[t]
        BY <1>1, Zenon DEF TurnInv, TurnTypeOK, CallsHoldLease
      <3>3. RunsAreRunning'
        BY <3>2, Zenon DEF TurnInv, RunsAreRunning
      <3>4. TurnsAreOwned'
        BY <1>3, <3>2, Zenon DEF TurnsAreOwned, Active
      <3> QED
        BY <2>3, <3>1, <3>3, <3>4, Zenon DEF TurnInv
    <2> QED
      BY <1>5, <2>4, <2>5, Zenon
  <1> QED
    BY <1>4, <1>5, Zenon

\* A run that ends leaves a turn that is over, or one that is stranded.
LEMMA CompleteTurns ==
  ASSUME TurnInv, up, UNCHANGED <<up, requestVars>>, NEW n \in Turn, Complete(n)
  PROVE  TurnInv'
  <1> USE DEF Complete, requestVars
  <1>1. /\ \/ turns'[n].status = "over" /\ stranded' = stranded
           \/ turns' = turns /\ stranded' = stranded \cup {n}
        /\ \A t \in Turn : t # n => turns'[t] = turns[t] /\ runs'[t] = runs[t]
        /\ runs'[n] = NoConn
        /\ turns' \in [Turn -> TurnRecord]
    BY StatusWritten, Zenon DEF TurnInv, TurnTypeOK
  <1>2. turns[n].status = "running"
    BY Zenon DEF TurnInv, RunsAreRunning
  <1>3. TurnTypeOK'
    BY <1>1, Zenon DEF TurnInv, TurnTypeOK
  <1>4. CallsHoldLease'
    <2>1. \A c \in Conn : calls[c].pc \in {"start", "register"} =>
                             calls[c].turn \in Turn \ {n}
      BY <1>2, Zenon DEF TurnInv, CallsHoldLease
    <2> QED
      BY <1>1, <2>1 DEF TurnInv, CallsHoldLease
  <1>5. RunsAreRunning' /\ DownIsEmpty'
    BY <1>1, Zenon DEF TurnInv, RunsAreRunning, DownIsEmpty
  <1>6. ReservedIsQuiet'
    BY <1>2, Zenon DEF TurnInv, ReservedIsQuiet, Active
  <1>7. TurnsAreOwned'
    BY <1>1, Zenon DEF TurnInv, TurnsAreOwned, Active
  <1> QED
    BY <1>3, <1>4, <1>5, <1>6, <1>7, Zenon DEF TurnInv

\* A reservation is made when there is neither lease nor active turn, and
\* given up at any time.
LEMMA ReservationTurns ==
  ASSUME TurnInv, up, UNCHANGED <<up, turns, lease, calls, runs, stranded>>,
         \/ reserved' = TRUE /\ lease = NoConn /\ Active = {}
         \/ reserved' = FALSE
         \/ reserved' = reserved
  PROVE  TurnInv'
  <1>1. Active' = Active
    BY Zenon DEF Active
  <1>2. TurnTypeOK'
    BY Zenon DEF TurnInv, TurnTypeOK
  <1>3. CallsHoldLease' /\ RunsAreRunning'
    BY Zenon DEF TurnInv, CallsHoldLease, RunsAreRunning
  <1>4. ReservedIsQuiet'
    BY <1>1, Zenon DEF TurnInv, ReservedIsQuiet
  <1>5. DownIsEmpty' /\ TurnsAreOwned'
    BY <1>1, Zenon DEF TurnInv, DownIsEmpty, TurnsAreOwned
  <1> QED
    BY <1>2, <1>3, <1>4, <1>5, Zenon DEF TurnInv

\* The steps of a revert request.
LEMMA RequestTurns ==
  ASSUME TurnInv, up, RequestStep PROVE TurnInv'
  <1>1. UNCHANGED <<up, turns, lease, calls, runs, stranded>>
    BY Zenon DEF RequestStep, turnVars
  <1>2. \/ reserved' = TRUE /\ lease = NoConn /\ Active = {}
        \/ reserved' = FALSE
        \/ reserved' = reserved
    BY Zenon DEF RequestStep, ReserveWorkspaceRevert, LoadFileChange,
           PrepareFileChangeRevert, CompleteFileChangeRevert, AbortIfUnchanged,
           Release
  <1> QED
    BY <1>1, <1>2, ReservationTurns, Zenon

\* Archiving, deleting and rolling back, which spares active turns.
LEMMA ThreadTurns ==
  ASSUME TurnInv, up, ThreadStep PROVE TurnInv'
  <1>1. UNCHANGED <<up, lease, calls, runs, stranded, reserved>>
    BY Zenon DEF ThreadStep, SetThreadStatus, DeleteThread, RollbackThread
  <1>2. CASE turns' = turns
    BY <1>1, <1>2, TurnsUntouched, Zenon DEF ownVars
  <1>3. ASSUME NEW n \in Turn, RollbackThread(n) PROVE TurnInv'
    <2> USE <1>3 DEF RollbackThread
    <2>1. \A t \in Turn : \/ turns'[t] = turns[t]
                           \/ turns'[t] = [turns[t] EXCEPT !.status = "gone"]
      BY Zenon DEF RollbackThread
    <2>2. \A t \in Turn : turns[t] \in TurnRecord
      BY Zenon DEF TurnInv, TurnTypeOK
    <2>3. \A t \in Turn : turns'[t] \in TurnRecord
      <3> SUFFICES ASSUME NEW t \in Turn PROVE turns'[t] \in TurnRecord
        OBVIOUS
      <3>1. turns[t] \in TurnRecord /\ [turns[t] EXCEPT !.status = "gone"] \in TurnRecord
        BY <2>2, Zenon DEF TurnRecord
      <3> QED
        BY <2>1, <3>1, Zenon
    <2>4. TurnTypeOK'
      BY <1>1, <2>3, Zenon DEF TurnInv, TurnTypeOK
    <2>5. \A t \in Turn : turns[t].status \notin {"queued", "running"}
      BY Zenon DEF Active
    <2>6. \A t \in Turn : turns'[t].status \notin {"queued", "running"}
      <3> SUFFICES ASSUME NEW t \in Turn
                   PROVE  turns'[t].status \notin {"queued", "running"}
        OBVIOUS
      <3>1. [turns[t] EXCEPT !.status = "gone"].status = "gone"
        BY <2>2, Zenon DEF TurnRecord
      <3> QED
        BY <2>1, <2>5, <3>1, Zenon
    <2>7. Active' = {}
      BY <2>6, Zenon DEF Active
    <2>8. CallsHoldLease'
      BY <1>1, <2>5, Zenon DEF TurnInv, CallsHoldLease
    <2>9. RunsAreRunning'
      BY <1>1, <2>5, Zenon DEF TurnInv, RunsAreRunning
    <2>10. ReservedIsQuiet' /\ DownIsEmpty' /\ TurnsAreOwned'
      BY <1>1, <2>7, Zenon DEF TurnInv, ReservedIsQuiet, DownIsEmpty, TurnsAreOwned
    <2> QED
      BY <2>4, <2>8, <2>9, <2>10, Zenon DEF TurnInv
  <1> QED
    BY <1>2, <1>3, Zenon DEF ThreadStep, SetThreadStatus, DeleteThread

\* The process ends; the store keeps its turns.
LEMMA CrashTurns ==
  ASSUME TurnInv, Crash PROVE TurnInv'
  <1> USE DEF Crash, Release
  <1>1. /\ \A c \in Conn : calls'[c] = NoCall
        /\ \A t \in Turn : runs'[t] = NoConn
    OBVIOUS
  <1>2. TurnTypeOK'
    BY Zenon DEF TurnInv, TurnTypeOK, CallRecord, NoCall
  <1>3. CallsHoldLease' /\ RunsAreRunning'
    BY <1>1, Zenon DEF CallsHoldLease, RunsAreRunning, NoCall
  <1>4. ReservedIsQuiet' /\ DownIsEmpty' /\ TurnsAreOwned'
    BY <1>1, Zenon DEF ReservedIsQuiet, DownIsEmpty, TurnsAreOwned, NoCall
  <1> QED
    BY <1>2, <1>3, <1>4, Zenon DEF TurnInv

\* The restart ends every active turn.
LEMMA RecoverTurns ==
  ASSUME TurnInv, RecoverOrphanedTurns PROVE TurnInv'
  <1> USE DEF RecoverOrphanedTurns, requestVars
  <1>1. \A t \in Turn : turns[t] \in TurnRecord
    BY Zenon DEF TurnInv, TurnTypeOK
  <1>2. \A t \in Turn : /\ turns'[t] \in TurnRecord
                         /\ turns'[t].status \notin {"queued", "running"}
    <2> SUFFICES ASSUME NEW t \in Turn
                 PROVE  /\ turns'[t] \in TurnRecord
                        /\ turns'[t].status \notin {"queued", "running"}
      OBVIOUS
    <2>1. /\ [turns[t] EXCEPT !.status = "over"] \in TurnRecord
          /\ [turns[t] EXCEPT !.status = "over"].status = "over"
      BY <1>1, Zenon DEF TurnRecord
    <2>2. CASE t \in Active
      BY <2>1, <2>2, Zenon
    <2>3. CASE t \notin Active
      BY <1>1, <2>3, Zenon DEF Active
    <2> QED
      BY <2>2, <2>3, Zenon
  <1>3. TurnTypeOK'
    BY <1>2, Zenon DEF TurnInv, TurnTypeOK
  <1>4. Active' = {}
    BY <1>2, Zenon DEF Active
  <1>5. /\ ~reserved' /\ up'
        /\ \A c \in Conn : calls'[c].pc = "idle"
        /\ \A t \in Turn : runs'[t] = NoConn
    BY Zenon DEF TurnInv, TurnTypeOK, DownIsEmpty
  <1>6. CallsHoldLease' /\ RunsAreRunning'
    BY <1>5, Zenon DEF TurnInv, CallsHoldLease, RunsAreRunning
  <1>7. ReservedIsQuiet' /\ DownIsEmpty' /\ TurnsAreOwned'
    BY <1>4, <1>5, Zenon DEF ReservedIsQuiet, DownIsEmpty, TurnsAreOwned
  <1> QED
    BY <1>3, <1>6, <1>7, Zenon DEF TurnInv

\* The starts, retries and shutdowns.
LEMMA StartTurns ==
  ASSUME TurnInv, up, TurnStep PROVE TurnInv'
  <1>1. UNCHANGED <<up, requestVars>>
    BY Zenon DEF TurnStep
  <1>2. ASSUME NEW c \in Conn,
               \/ AcquireStartLease(c, 0, "none")
               \/ \E t \in Existing, k \in RetryKey : AcquireStartLease(c, t, k)
        PROVE  TurnInv'
    BY <1>1, <1>2, AcquireTurns DEF Existing
  <1>3. ASSUME NEW c \in Conn, CreateTurn(c) \/ PrepareTurnRetry(c)
        PROVE  TurnInv'
    BY <1>1, <1>3, CreateTurns, Zenon
  <1>4. ASSUME NEW c \in Conn, StartTurn(c) \/ Register(c) PROVE TurnInv'
    <2>1. calls[c].pc \in {"start", "register"}
      BY <1>4, Zenon DEF StartTurn, Register
    <2> QED
      BY <1>1, <1>4, <2>1, OwnTurns, Zenon
  <1>5. ASSUME NEW c \in Conn, Shutdown(c) \/ CloseStore(c) PROVE TurnInv'
    <2>1. UNCHANGED ownVars
      BY <1>1, <1>5, Zenon DEF Shutdown, CloseStore, ownVars, requestVars
    <2> QED
      BY <2>1, TurnsUntouched, Zenon
  <1> QED
    BY <1>2, <1>3, <1>4, <1>5, Zenon DEF TurnStep

\* The ends of turns.
LEMMA EndTurns ==
  ASSUME TurnInv, up, EndStep PROVE TurnInv'
  <1>1. UNCHANGED <<up, requestVars>>
    BY Zenon DEF EndStep
  <1>2. ASSUME NEW c \in Conn, FailUnownedTurn(c) PROVE TurnInv'
    <2>1. calls[c].pc \in {"start", "register"}
      BY <1>2, Zenon DEF FailUnownedTurn
    <2> QED
      BY <1>1, <1>2, <2>1, OwnTurns, Zenon
  <1>3. ASSUME NEW t \in Turn, Complete(t) PROVE TurnInv'
    BY <1>1, <1>3, CompleteTurns, Zenon
  <1> QED
    BY <1>2, <1>3, Zenon DEF EndStep

\* Turns, start lease and reservation stay consistent in every step, for any
\* number of connections, turns and crashes.
THEOREM TurnsSafe == ServerSpec => []TurnInv
  <1>1. ASSUME TurnInv, [ServerNext]_allVars PROVE TurnInv'
    <2>1. CASE up /\ TurnStep
      BY <1>1, <2>1, StartTurns, Zenon
    <2>2. CASE up /\ EndStep
      BY <1>1, <2>2, EndTurns
    <2>3. CASE up /\ ThreadStep
      BY <1>1, <2>3, ThreadTurns
    <2>4. CASE up /\ RequestStep
      BY <1>1, <2>4, RequestTurns
    <2>5. CASE FileStep
      BY <1>1, <2>5, TurnsUntouched, Zenon DEF FileStep, serverVars, ownVars
    <2>6. CASE Crash
      BY <1>1, <2>6, CrashTurns, Zenon
    <2>7. CASE RecoverOrphanedTurns
      BY <1>1, <2>7, RecoverTurns
    <2>8. CASE UNCHANGED allVars
      BY <1>1, <2>8, TurnsUntouched, Zenon DEF allVars, serverVars, ownVars
    <2> QED
      BY <1>1, <2>1, <2>2, <2>3, <2>4, <2>5, <2>6, <2>7, <2>8, Zenon DEF ServerNext
  <1> QED
    BY <1>1, InitTurns, PTL DEF ServerSpec

\* reserveWorkspaceRevert and acquireStartLease keep reverts and turns apart:
\* while a revert has the workspace, no turn is active and no agent runs.
THEOREM ExclusionSafe == ServerSpec => []RevertExcludesTurns
  <1>1. TurnInv => RevertExcludesTurns
    BY Zenon DEF TurnInv, RevertExcludesTurns, ReservedIsQuiet, RunsAreRunning, Active
  <1> QED
    BY <1>1, TurnsSafe, PTL

\* No error path of Start, Retry or complete leaves an active turn that
\* nobody will end, unless its end could not be written.
THEOREM OwnershipSafe == ServerSpec => []TurnsAreOwned
  <1>1. TurnInv => TurnsAreOwned
    BY Zenon DEF TurnInv
  <1> QED
    BY <1>1, TurnsSafe, PTL

-----------------------------------------------------------------------------
(* The file, the quarantine and the record of the change. *)

Contents == Edit \cup {"absent", "old", "new", "partial"}

BoxRecord == [dir: BOOLEAN, current: Contents, replacement: Contents]

CallPc == {"check", "recover", "unquarantine", "clear", "verify", "begin",
           "write", "quarantine", "install", "discard", "uninstall", "restore",
           "unlink", "cleanup", "finish", "confirm", "failed", "done"}

OpRecord == [pc: CallPc \cup {"idle"}, key: Key \cup {"none"}]

RevertRecord == [pc: {"idle", "load", "prepare", "file"}, key: Key \cup {"none"}]

FileTypeOK ==
    /\ change \in Change
    /\ target \in Contents
    /\ box \in [Key -> BoxRecord]
    /\ op \in OpRecord
    /\ op.pc # "idle" => op.key \in Key
    /\ revert \in RevertRecord
    /\ revert.pc # "idle" => revert.key \in Key
    /\ edits \in Nat
    /\ faults \in Nat

\* Without its directory nothing is in a quarantine.
FilesNeedDirectory == \A k \in Key : ~box[k].dir => box[k].current = "absent"

\* What is in the quarantine b where a call at pc is about to drop it, the
\* file being t.
Fits(pc, b, t, r) ==
    /\ pc = "verify" => ~b.dir
    /\ pc \in {"write", "quarantine"} => b.dir
    /\ pc \in {"clear", "begin", "write", "quarantine", "finish"} =>
         b.current = "absent"
    /\ pc \in {"unquarantine", "install", "discard"} => b.current = change.after
    /\ pc = "unlink" /\ b.current \in Edit => b.current \in r \cup {t}

FileInv ==
    /\ FileTypeOK
    /\ FilesNeedDirectory
    /\ op.pc # "idle" => Fits(op.pc, Box, target, replaced)

\* A call of RevertFile has the workspace and the pending record.
CallHasRecord ==
    /\ revert.pc # "idle" => reserved
    /\ revert.pc = "prepare" =>
         \/ record.status = "available"
         \/ record.status = "pending" /\ record.key = revert.key
    /\ op.pc # "idle" => /\ revert.pc = "file"
                         /\ record = [status |-> "pending", key |-> op.key]
    /\ record.status \in {"pending", "reverted"} => record.key \in Key

\* What a call at pc has achieved, as long as nobody else interferes.
OnItsWay(pc, b, t) ==
    /\ pc \in {"unquarantine", "clear", "verify"} =>
         t \in {change.before, change.after}
    /\ pc \in {"begin", "write", "quarantine"} => t = change.after
    /\ pc = "install" => t = "absent" /\ b.replacement = change.before
    /\ pc \in {"discard", "finish", "confirm", "done"} => t = change.before
    /\ pc \in {"confirm", "done"} => ~b.dir
    /\ pc = "quarantine" =>
         /\ change.after # "absent"
         /\ b.replacement = change.before \/ change.before = "absent"
    /\ pc \notin {"restore", "uninstall", "unlink", "cleanup"}

\* The file is in place, or can be put back.
InPlace(b, t) ==
    t \in {change.before, change.after} \/ (t = "absent" /\ b.current = change.after)

RecordInv ==
    /\ CallHasRecord
    /\ edits = 0 /\ faults = 0 /\ op.pc # "idle" => OnItsWay(op.pc, Box, target)
    /\ RevertIsAllOrNothing

-----------------------------------------------------------------------------
(* The steps of a call. *)

\* The step takes the call to pc and its transaction directory to b, and does
\* not break what FileInv, EditsSurvive and RecordInv say of them.
StepTo(pc, b) ==
    /\ pc \in CallPc
    /\ b \in BoxRecord
    /\ op' = [op EXCEPT !.pc = pc]
    /\ box' = [box EXCEPT ![op.key] = b]
    /\ UNCHANGED <<change, edits, replaced>>
    /\ target' \in Contents
    /\ faults' \in Nat /\ (faults' = 0 => faults = 0)
    /\ ~b.dir => b.current = "absent"
    /\ Fits(pc, b, target', replaced)
    /\ \A e \in Edit : target = e \/ Box.current = e =>
         target' = e \/ b.current = e \/ e \in replaced \/ op.pc = "uninstall"
    /\ faults' = 0 /\ OnItsWay(op.pc, Box, target) /\ InPlace(Box, target) =>
         OnItsWay(pc, b, target') /\ InPlace(b, target')

\* The two recorded states differ and are nobody else's.
LEMMA Recorded ==
  ASSUME change \in Change
  PROVE  /\ change.before \in {"absent", "old"}
         /\ change.after \in {"absent", "new"}
         /\ change.before = "absent" => change.after = "new"
         /\ change.before \notin Edit
         /\ change.after \notin Edit
         /\ "absent" \notin Edit
         /\ change.before \in Contents
         /\ change.after \in Contents
  BY RevertConstants DEF Change, Contents

\* The directory of the call.
LEMMA BoxTyped ==
  ASSUME FileInv, op.pc # "idle"
  PROVE  /\ Box \in BoxRecord
         /\ Box.dir \in BOOLEAN
         /\ Box.current \in Contents
         /\ Box.replacement \in Contents
         /\ [box EXCEPT ![op.key] = Box] = box
         /\ ~Box.dir => Box.current = "absent"
         /\ Fits(op.pc, Box, target, replaced)
         /\ change \in Change
         /\ target \in Contents
         /\ faults \in Nat
  BY Zenon DEF FileInv, FileTypeOK, Box, FilesNeedDirectory, BoxRecord

\* Directories written by the steps.
LEMMA BoxWritten ==
  ASSUME NEW b \in BoxRecord, NEW v \in Contents
  PROVE  /\ [b EXCEPT !.current = v] \in BoxRecord
         /\ [b EXCEPT !.current = v].current = v
         /\ [b EXCEPT !.current = v].dir = b.dir
         /\ [b EXCEPT !.current = v].replacement = b.replacement
         /\ [b EXCEPT !.replacement = v] \in BoxRecord
         /\ [b EXCEPT !.replacement = v].current = b.current
         /\ [b EXCEPT !.replacement = v].dir = b.dir
         /\ [b EXCEPT !.replacement = v].replacement = v
  BY Zenon DEF BoxRecord

\* The empty directory.
LEMMA NoBoxTyped ==
  /\ NoBox \in BoxRecord
  /\ NoBox.current = "absent"
  /\ NoBox.dir = FALSE
  BY Zenon DEF NoBox, BoxRecord, Contents

\* Steps that only look.
LEMMA LookingSteps ==
  ASSUME FileInv, Check \/ Verify \/ Confirm
  PROVE  \E pc, b : StepTo(pc, b)
  <1>1. op.pc # "idle"
    BY Zenon DEF Check, Verify, Confirm
  <1>2. ASSUME NEW pc \in {"recover", "failed"}, Check, op' = [op EXCEPT !.pc = pc]
        PROVE  StepTo(pc, Box)
    BY <1>1, <1>2, BoxTyped, Recorded, Zenon
       DEF StepTo, Check, OnlyOp, Fits, OnItsWay, InPlace, CallPc
  <1>3. ASSUME NEW pc \in {"done", "begin", "failed"}, Verify,
               op' = [op EXCEPT !.pc = pc],
               pc = "done" => target = change.before,
               pc = "begin" => target = change.after,
               pc = "failed" => target \notin {change.before, change.after}
        PROVE  StepTo(pc, Box)
    BY <1>1, <1>3, BoxTyped, Recorded, NoBoxTyped, Zenon
       DEF StepTo, Verify, OnlyOp, Fits, OnItsWay, InPlace, CallPc
  <1>4. ASSUME NEW pc \in {"done", "failed"}, Confirm,
               op' = [op EXCEPT !.pc = pc],
               pc = "done" => target = change.before,
               pc = "failed" => target # change.before
        PROVE  StepTo(pc, Box)
    BY <1>1, <1>4, BoxTyped, Recorded, Zenon
       DEF StepTo, Confirm, OnlyOp, Fits, OnItsWay, InPlace, CallPc
  <1>5. CASE Check
    BY <1>2, <1>5, Zenon DEF Check, Then
  <1>6. CASE Verify
    BY <1>3, <1>6, Zenon DEF Verify, Then
  <1>7. CASE Confirm
    BY <1>4, <1>7, Zenon DEF Confirm, Then
  <1> QED
    BY <1>5, <1>6, <1>7, Zenon

\* Repairing what an earlier call left.
LEMMA RecoveringSteps ==
  ASSUME FileInv, Recover PROVE \E pc, b : StepTo(pc, b)
  <1>1. op.pc = "recover" /\ op.pc # "idle"
    BY Zenon DEF Recover
  <1> DEFINE b == [Box EXCEPT !.current = "absent"]
  <1>2. /\ b \in BoxRecord
        /\ b.current = "absent"
        /\ b.dir = Box.dir
        /\ b.replacement = Box.replacement
    <2>1. Box \in BoxRecord /\ "absent" \in Contents
      BY <1>1, BoxTyped, Zenon DEF Contents
    <2> QED
      BY <2>1, BoxWritten, Zenon
  <1> HIDE DEF b
  <1>3. ASSUME NEW pc \in {"verify", "clear", "failed"}, OnlyOp,
               op' = [op EXCEPT !.pc = pc],
               pc = "verify" => ~Box.dir,
               pc = "clear" => Box.current = "absent"
        PROVE  StepTo(pc, Box)
    BY <1>1, <1>3, BoxTyped, Recorded, NoBoxTyped, Zenon
       DEF StepTo, OnlyOp, Fits, OnItsWay, InPlace, CallPc
  <1>4. ASSUME Box.current = change.after, Box.current # "absent",
               target \in {change.before, change.after},
               op' = [op EXCEPT !.pc = "clear"], Boxed(b), OnlyBox
        PROVE  StepTo("clear", b)
    BY <1>1, <1>2, <1>4, BoxTyped, Recorded, NoBoxTyped, Zenon
       DEF StepTo, OnlyBox, Boxed, Fits, OnItsWay, InPlace, CallPc
  <1>5. ASSUME Box.current = change.after, target = "absent",
               target' = Box.current, OnlyTarget,
               op' = [op EXCEPT !.pc = "unquarantine"]
        PROVE  StepTo("unquarantine", Box)
    BY <1>1, <1>5, BoxTyped, Recorded, Zenon
       DEF StepTo, OnlyTarget, Fits, OnItsWay, InPlace, CallPc
  <1> QED
    BY <1>3, <1>4, <1>5, Zenon DEF Recover, Then, b

\* Steps that take the file out of the quarantine.
LEMMA EmptyingSteps ==
  ASSUME FileInv, Unquarantine \/ RemoveQuarantined \/ Unlink
  PROVE  \E pc, b : StepTo(pc, b)
  <1>1. op.pc # "idle"
    BY Zenon DEF Unquarantine, RemoveQuarantined, Unlink
  <1> DEFINE b == [Box EXCEPT !.current = "absent"]
  <1>2. /\ b \in BoxRecord
        /\ b.current = "absent"
        /\ b.dir = Box.dir
        /\ b.replacement = Box.replacement
    <2>1. "absent" \in Contents /\ Box \in BoxRecord
      BY <1>1, BoxTyped, Zenon DEF Contents
    <2> QED
      BY <2>1, BoxWritten, Zenon
  <1> HIDE DEF b
  <1>4. ASSUME Unquarantine, Boxed(b) PROVE StepTo("clear", b)
    BY <1>1, <1>2, <1>4, BoxTyped, Recorded, Zenon
       DEF StepTo, Unquarantine, Then, OnlyBox, Boxed, Fits, OnItsWay, InPlace, CallPc
  <1>5. ASSUME RemoveQuarantined, Boxed(b) PROVE StepTo("finish", b)
    BY <1>1, <1>2, <1>5, BoxTyped, Recorded, Zenon
       DEF StepTo, RemoveQuarantined, Then, OnlyBox, Boxed, Fits, OnItsWay, InPlace,
           CallPc
  <1>6. ASSUME Unlink, Boxed(b) PROVE StepTo("cleanup", b)
    BY <1>1, <1>2, <1>6, BoxTyped, Recorded, Zenon
       DEF StepTo, Unlink, Then, OnlyBox, Boxed, Fits, OnItsWay, InPlace, CallPc
  <1> QED
    BY <1>4, <1>5, <1>6, Zenon DEF Unquarantine, RemoveQuarantined, Unlink, b

\* Steps that remove the transaction directory.
LEMMA ClearingSteps ==
  ASSUME FileInv, Clear \/ Finish \/ CleanUp PROVE \E pc, b : StepTo(pc, b)
  <1>1. op.pc # "idle"
    BY Zenon DEF Clear, Finish, CleanUp
  <1> DEFINE b == [Box EXCEPT !.replacement = "absent"]
  <1>2. /\ b \in BoxRecord
        /\ b.current = Box.current
        /\ b.dir = Box.dir
    <2>1. "absent" \in Contents /\ Box \in BoxRecord
      BY <1>1, BoxTyped, Zenon DEF Contents
    <2> QED
      BY <2>1, BoxWritten, Zenon
  <1> HIDE DEF b
  <1>3. ASSUME Clear PROVE StepTo("verify", NoBox)
    BY <1>1, <1>3, BoxTyped, Recorded, NoBoxTyped, Zenon
       DEF StepTo, Clear, Then, OnlyBox, Boxed, Fits, OnItsWay, InPlace, CallPc
  <1>4. ASSUME Finish PROVE StepTo("confirm", NoBox)
    BY <1>1, <1>4, BoxTyped, Recorded, NoBoxTyped, Zenon
       DEF StepTo, Finish, Then, OnlyBox, Boxed, Fits, OnItsWay, InPlace, CallPc
  <1>5. ASSUME CleanUp, Box.current = "absent", Boxed(NoBox)
        PROVE  StepTo("failed", NoBox)
    BY <1>1, <1>5, BoxTyped, Recorded, NoBoxTyped, Zenon
       DEF StepTo, CleanUp, Then, OnlyBox, Boxed, Fits, OnItsWay, InPlace, CallPc
  <1>6. ASSUME CleanUp, Box.current # "absent", Boxed(b) PROVE StepTo("failed", b)
    BY <1>1, <1>2, <1>6, BoxTyped, Recorded, NoBoxTyped, Zenon
       DEF StepTo, CleanUp, Then, OnlyBox, Boxed, Fits, OnItsWay, InPlace, CallPc
  <1> QED
    BY <1>3, <1>4, <1>5, <1>6, Zenon DEF Clear, Finish, CleanUp, b

\* Preparing the new file.
LEMMA PreparingSteps ==
  ASSUME FileInv, BeginExactRevertTransaction \/ WriteReplacement
  PROVE  \E pc, b : StepTo(pc, b)
  <1>1. op.pc # "idle"
    BY Zenon DEF BeginExactRevertTransaction, WriteReplacement
  <1> DEFINE b == [Box EXCEPT !.replacement = change.before]
             n == [NoBox EXCEPT !.dir = TRUE]
             w == [dir |-> TRUE, current |-> "absent", replacement |-> "partial"]
  <1>2. /\ b \in BoxRecord
        /\ b.current = Box.current
        /\ b.dir = Box.dir
        /\ b.replacement = change.before
    BY <1>1, BoxTyped, BoxWritten, Recorded, Zenon
  <1>3. /\ n \in BoxRecord /\ n.dir /\ n.current = "absent"
        /\ w \in BoxRecord /\ w.dir /\ w.current = "absent"
    BY Zenon DEF BoxRecord, NoBox, Contents
  <1> HIDE DEF b, n, w
  <1>5. ASSUME BeginExactRevertTransaction, change.before = "absent", Boxed(n),
               Then("quarantine")
        PROVE  StepTo("quarantine", n)
    BY <1>1, <1>3, <1>5, BoxTyped, Recorded, Zenon
       DEF StepTo, BeginExactRevertTransaction, Then, OnlyBox, Boxed, Fits, OnItsWay,
           InPlace, CallPc
  <1>6. ASSUME BeginExactRevertTransaction, change.before # "absent", Boxed(w),
               Then("write")
        PROVE  StepTo("write", w)
    BY <1>1, <1>3, <1>6, BoxTyped, Recorded, Zenon
       DEF StepTo, BeginExactRevertTransaction, Then, OnlyBox, Boxed, Fits, OnItsWay,
           InPlace, CallPc
  <1>7. ASSUME NEW pc \in {"install", "quarantine"}, WriteReplacement, Boxed(b),
               Then(pc), pc = "install" <=> change.after = "absent"
        PROVE  StepTo(pc, b)
    BY <1>1, <1>2, <1>7, BoxTyped, Recorded, Zenon
       DEF StepTo, WriteReplacement, Then, OnlyBox, Boxed, Fits, OnItsWay, InPlace,
           CallPc
  <1>8. CASE BeginExactRevertTransaction
    BY <1>5, <1>6, <1>8, Zenon DEF BeginExactRevertTransaction, n, w
  <1>9. CASE WriteReplacement
    BY <1>7, <1>9, Zenon DEF WriteReplacement, b
  <1> QED
    BY <1>8, <1>9, Zenon

\* The rename into the quarantine.
LEMMA QuarantiningStep ==
  ASSUME FileInv, QuarantineExactRootFile PROVE \E pc, b : StepTo(pc, b)
  <1>1. op.pc = "quarantine" /\ op.pc # "idle"
    BY Zenon DEF QuarantineExactRootFile
  <1> DEFINE b == [Box EXCEPT !.current = target]
  <1>2. /\ b \in BoxRecord
        /\ b.current = target
        /\ b.dir = Box.dir
        /\ b.replacement = Box.replacement
    <2>1. Box \in BoxRecord /\ target \in Contents
      BY <1>1, BoxTyped, Zenon
    <2> QED
      BY <2>1, BoxWritten, Zenon
  <1>3. Box.dir /\ Box.current = "absent"
    BY <1>1, BoxTyped, Zenon DEF Fits
  <1> HIDE DEF b
  <1>4. ASSUME target = "absent", Then("cleanup"), OnlyOp
        PROVE  StepTo("cleanup", Box)
    BY <1>1, <1>3, <1>4, BoxTyped, Recorded, Zenon
       DEF StepTo, Then, OnlyOp, Fits, OnItsWay, InPlace, CallPc
  <1>5. ASSUME NEW pc \in {"restore", "discard", "install"}, target # "absent",
               Boxed(b), target' = "absent", Then(pc), Both,
               pc = "restore" <=> target # change.after,
               pc = "discard" => change.before = "absent",
               pc = "install" => change.before # "absent"
        PROVE  StepTo(pc, b)
    <2>1. OnItsWay(op.pc, Box, target) => OnItsWay(pc, b, target')
      BY <1>1, <1>2, <1>3, <1>5, BoxTyped, Recorded, Zenon DEF OnItsWay, Fits
    <2>2. (Fits(pc, b, target', replaced) /\ InPlace(b, target')) \/ pc = "restore"
      BY <1>2, <1>5, Zenon DEF Fits, InPlace
    <2>3. Fits(pc, b, target', replaced)
      BY <1>5, <2>2, Zenon DEF Fits
    <2>4. OnItsWay(op.pc, Box, target) => InPlace(b, target')
      BY <1>1, <1>5, <2>2, Zenon DEF OnItsWay
    <2>5. \A e \in Edit : target = e \/ Box.current = e => b.current = e
      BY <1>1, <1>2, <1>3, BoxTyped, Recorded, Zenon
    <2>6. pc \in CallPc /\ target' \in Contents /\ faults \in Nat
      BY <1>1, <1>5, BoxTyped, Zenon DEF CallPc, Contents
    <2> QED
      BY <1>2, <1>3, <1>5, <2>1, <2>3, <2>4, <2>5, <2>6, Zenon
         DEF StepTo, Then, Both, Boxed
  <1> QED
    BY <1>4, <1>5, Zenon DEF QuarantineExactRootFile, b

\* Steps that put a file in place or take it away.
LEMMA PlacingSteps ==
  ASSUME FileInv,
         InstallRootReplacement \/ Uninstall \/ RestoreQuarantinedRootFile
  PROVE  \E pc, b : StepTo(pc, b)
  <1>1. op.pc # "idle"
    BY Zenon DEF InstallRootReplacement, Uninstall, RestoreQuarantinedRootFile
  <1>2. /\ Box \in BoxRecord
        /\ Box.current \in Contents /\ Box.replacement \in Contents
        /\ "absent" \in Contents
        /\ [box EXCEPT ![op.key] = Box] = box
        /\ faults \in Nat
        /\ ~Box.dir => Box.current = "absent"
        /\ Fits(op.pc, Box, target, replaced)
        /\ target \in Contents
    BY <1>1, BoxTyped, Zenon DEF Contents
  <1>3. /\ change.before # "absent" \/ change.after # "absent"
        /\ "absent" \notin Edit
    BY <1>1, BoxTyped, Recorded, Zenon
  <1>4. ASSUME op.pc = "install", NEW pc \in {"finish", "discard"}, target = "absent",
               target' = Box.replacement, Then(pc), OnlyTarget,
               pc = "finish" <=> change.after = "absent"
        PROVE  StepTo(pc, Box)
    BY <1>2, <1>3, <1>4, Zenon
       DEF StepTo, Then, OnlyTarget, Fits, OnItsWay, InPlace, CallPc
  <1>5. ASSUME op.pc = "install", NEW pc \in {"cleanup", "restore"}, target # "absent",
               Then(pc), OnlyOp
        PROVE  StepTo(pc, Box)
    BY <1>2, <1>5, Zenon DEF StepTo, Then, OnlyOp, Fits, OnItsWay, CallPc
  <1>6. ASSUME op.pc = "uninstall", NEW pc \in {"cleanup", "restore"},
               target' = "absent", Then(pc), OnlyTarget
        PROVE  StepTo(pc, Box)
    BY <1>2, <1>6, Zenon DEF StepTo, Then, OnlyTarget, Fits, OnItsWay, CallPc
  <1>7. ASSUME op.pc = "restore", target = "absent", target' = Box.current,
               Then("unlink"), OnlyTarget
        PROVE  StepTo("unlink", Box)
    BY <1>2, <1>3, <1>7, Zenon DEF StepTo, Then, OnlyTarget, Fits, OnItsWay, CallPc
  <1>8. ASSUME op.pc = "restore", Then("cleanup"), OnlyOp
        PROVE  StepTo("cleanup", Box)
    BY <1>2, <1>8, Zenon DEF StepTo, Then, OnlyOp, Fits, OnItsWay, CallPc
  <1>9. CASE InstallRootReplacement
    <2>1. CASE target = "absent"
      BY <1>4, <1>9, <2>1, Zenon DEF InstallRootReplacement
    <2>2. CASE target # "absent"
      BY <1>5, <1>9, <2>2, Zenon DEF InstallRootReplacement
    <2> QED
      BY <2>1, <2>2, Zenon
  <1>10. CASE Uninstall
    BY <1>6, <1>10, Zenon DEF Uninstall
  <1>11. CASE RestoreQuarantinedRootFile
    BY <1>7, <1>8, <1>11, Zenon DEF RestoreQuarantinedRootFile
  <1> QED
    BY <1>9, <1>10, <1>11

\* An operation fails.
LEMMA FailingSteps ==
  ASSUME FileInv, OperationFails PROVE \E pc, b : StepTo(pc, b)
  <1>1. op.pc # "idle"
    BY Zenon DEF OperationFails
  <1>2. /\ Box \in BoxRecord
        /\ target \in Contents /\ "absent" \in Contents
        /\ [box EXCEPT ![op.key] = Box] = box
        /\ ~Box.dir => Box.current = "absent"
        /\ Fits(op.pc, Box, target, replaced)
        /\ change.after \notin Edit
    BY <1>1, BoxTyped, Recorded, Zenon DEF Contents
  <1>3. faults' \in Nat /\ faults' # 0
    BY <1>1, BoxTyped DEF OperationFails
  <1> DEFINE b == [Box EXCEPT !.current = target]
  <1>4. /\ b \in BoxRecord
        /\ b.current = target
        /\ b.dir = Box.dir
    BY <1>2, BoxWritten, Zenon
  <1> HIDE DEF b
  <1>5. OnError \in {"cleanup", "restore", "uninstall", "failed"}
    BY Zenon DEF OnError
  <1>6. ASSUME NEW pc \in {"cleanup", "restore", "uninstall", "failed"}, Then(pc),
               UNCHANGED <<target, box, change, edits, replaced>>
        PROVE  StepTo(pc, Box)
    BY <1>2, <1>3, <1>6, Zenon DEF StepTo, Then, Fits, CallPc
  <1>7. ASSUME op.pc = "quarantine", target = change.after, Boxed(b),
               target' = "absent", Then("cleanup"),
               UNCHANGED <<change, edits, replaced>>
        PROVE  StepTo("cleanup", b)
    <2>1. Box.dir /\ Box.current = "absent"
      BY <1>2, <1>7, Zenon DEF Fits
    <2>2. \A e \in Edit : target = e \/ Box.current = e => b.current = e
      BY <1>1, <1>4, <2>1, BoxTyped, Recorded, Zenon
    <2> QED
      BY <1>2, <1>3, <1>4, <1>7, <2>1, <2>2, Zenon DEF StepTo, Then, Boxed, Fits, CallPc
  <1> QED
    BY <1>5, <1>6, <1>7, Zenon DEF OperationFails, b

\* Every step of RevertFile is one of these.
LEMMA CallSteps ==
  ASSUME FileInv, RevertFileStep PROVE \E pc, b : StepTo(pc, b)
  BY LookingSteps, RecoveringSteps, EmptyingSteps, ClearingSteps, PreparingSteps,
     QuarantiningStep, PlacingSteps, FailingSteps, Zenon DEF RevertFileStep

\* A call is under way in every step of RevertFile.
LEMMA CallIsOpen ==
  ASSUME RevertFileStep PROVE op.pc # "idle"
  BY Zenon DEF RevertFileStep, Check, Recover, Unquarantine, Clear, Verify,
         BeginExactRevertTransaction, WriteReplacement, QuarantineExactRootFile,
         InstallRootReplacement, RemoveQuarantined, Uninstall,
         RestoreQuarantinedRootFile, Unlink, CleanUp, Finish, Confirm,
         OperationFails

-----------------------------------------------------------------------------
(* Files and record in every step of the server. *)

\* No contents are lost that nobody else has replaced.
Survival ==
    \A e \in Edit :
        Kept(e) /\ ~Kept(e)' => e \in replaced' \/ op.pc = "uninstall"

\* The daemon starts with the changed file in place.
LEMMA InitFiles ==
  ASSUME ServerInit PROVE FileInv /\ RecordInv
  <1>1. /\ change \in Change /\ target = change.after
        /\ op.pc = "idle" /\ op \in OpRecord
        /\ revert.pc = "idle" /\ revert \in RevertRecord
        /\ record.status = "available"
        /\ edits = 0 /\ faults = 0
    BY Zenon DEF ServerInit, RevertInit, NoOp, NoRevert, OpRecord, RevertRecord
  <1>2. box \in [Key -> BoxRecord] /\ FilesNeedDirectory
    BY NoBoxTyped, Zenon DEF ServerInit, RevertInit, FilesNeedDirectory
  <1>3. FileInv
    BY <1>1, <1>2, Recorded, Zenon DEF FileInv, FileTypeOK
  <1>4. CallHasRecord /\ RevertIsAllOrNothing
    BY <1>1, Zenon DEF CallHasRecord, RevertIsAllOrNothing
  <1> QED
    BY <1>1, <1>3, <1>4, Zenon DEF RecordInv

\* A step of RevertFile.
LEMMA CallFiles ==
  ASSUME FileInv, RecordInv, RevertFileStep, UNCHANGED serverVars
  PROVE  FileInv' /\ RecordInv' /\ Survival
  <1>1. PICK pc, b : StepTo(pc, b)
    BY CallSteps, Zenon
  <1>2. op.pc # "idle" /\ op.key \in Key /\ op \in OpRecord /\ box \in [Key -> BoxRecord]
    BY CallIsOpen, Zenon DEF FileInv, FileTypeOK
  <1>3. /\ op'.pc = pc /\ pc # "idle" /\ op'.key = op.key /\ op' \in OpRecord
        /\ revert' = revert /\ record' = record /\ reserved' = reserved
        /\ change' = change /\ edits' = edits /\ replaced' = replaced
    BY <1>1, <1>2, Zenon DEF StepTo, serverVars, OpRecord, CallPc
  <1>4. /\ box' \in [Key -> BoxRecord]
        /\ box'[op.key] = b
        /\ \A k \in Key \ {op.key} : box'[k] = box[k]
        /\ Box' = b
    BY <1>1, <1>2, <1>3, Zenon DEF StepTo, Box
  <1>5. FileTypeOK'
    BY <1>1, <1>2, <1>3, <1>4, Zenon DEF StepTo, FileInv, FileTypeOK
  <1>6. FilesNeedDirectory'
    BY <1>1, <1>4, Zenon DEF StepTo, FileInv, FilesNeedDirectory
  <1>7. Fits(op.pc, Box, target, replaced)'
    BY <1>1, <1>3, <1>4, Zenon DEF StepTo, Fits
  <1>8. FileInv'
    BY <1>5, <1>6, <1>7, Zenon DEF FileInv
  <1>9. record = [status |-> "pending", key |-> op.key] /\ record.status = "pending"
        /\ record.key = op.key
    BY <1>2 DEF RecordInv, CallHasRecord
  <1>10. CallHasRecord'
    BY <1>2, <1>3, Zenon DEF RecordInv, CallHasRecord
  <1>11. ASSUME edits' = 0, faults' = 0
         PROVE  OnItsWay(op.pc, Box, target)' /\ InPlace(Box, target)'
    <2>1. edits = 0 /\ faults = 0
      BY <1>1, <1>3, <1>11, Zenon DEF StepTo
    <2>2. OnItsWay(op.pc, Box, target) /\ InPlace(Box, target)
      BY <1>2, <1>9, <2>1, Zenon DEF RecordInv, RevertIsAllOrNothing, InPlace, Box
    <2>3. OnItsWay(pc, b, target') /\ InPlace(b, target')
      BY <1>1, <1>11, <2>2, Zenon DEF StepTo
    <2> QED
      BY <1>3, <1>4, <2>3, Zenon DEF OnItsWay, InPlace
  <1>12. RevertIsAllOrNothing'
    BY <1>3, <1>4, <1>9, <1>11, Zenon DEF RevertIsAllOrNothing, InPlace
  <1>13. Survival
    <2> SUFFICES ASSUME NEW e \in Edit, Kept(e), ~Kept(e)'
                 PROVE  e \in replaced' \/ op.pc = "uninstall"
      BY Zenon DEF Survival
    <2>1. target' # e /\ b.current # e
      BY <1>2, <1>4, Zenon DEF Kept
    <2>2. target = e \/ Box.current = e
      BY <1>2, <1>4, Zenon DEF Kept, Box
    <2> QED
      BY <1>1, <1>3, <2>1, <2>2, Zenon DEF StepTo
  <1> QED
    BY <1>8, <1>10, <1>11, <1>12, <1>13, Zenon DEF RecordInv

\* Somebody else writes or removes the file.
LEMMA EditFiles ==
  ASSUME FileInv, RecordInv, EditFile, UNCHANGED serverVars
  PROVE  FileInv' /\ RecordInv' /\ Survival
  <1> USE DEF EditFile
  <1>1. /\ UNCHANGED <<change, box, op, faults, revert, record, reserved>>
        /\ Box' = Box
        /\ edits' \in Nat /\ edits' # 0
        /\ target' \in Contents
    BY DEF serverVars, FileInv, FileTypeOK, Box, Contents
  <1>2. FileTypeOK' /\ FilesNeedDirectory'
    BY <1>1, Zenon DEF FileInv, FileTypeOK, FilesNeedDirectory
  <1>3. op.pc # "idle" => Fits(op.pc, Box, target, replaced)'
    BY <1>1, Zenon DEF FileInv, Fits
  <1>4. CallHasRecord'
    BY <1>1, Zenon DEF RecordInv, CallHasRecord
  <1>5. RevertIsAllOrNothing'
    BY <1>1, Zenon DEF RevertIsAllOrNothing
  <1>6. Survival
    BY <1>1, Zenon DEF Survival, Kept
  <1> QED
    BY <1>1, <1>2, <1>3, <1>4, <1>5, <1>6, Zenon DEF FileInv, RecordInv

\* Steps that leave files and requests alone, whether or not they fail.
LEMMA QuietFiles ==
  ASSUME FileInv, RecordInv, UNCHANGED <<requestVars, change, target, box, op, edits,
                                         replaced>>,
         faults' \in Nat, faults' = 0 => faults = 0
  PROVE  FileInv' /\ RecordInv'
  <1> USE DEF requestVars
  <1>1. Box' = Box
    BY Zenon DEF Box
  <1>2. FileInv'
    BY <1>1, Zenon DEF FileInv, FileTypeOK, FilesNeedDirectory, Fits
  <1>3. CallHasRecord'
    BY Zenon DEF RecordInv, CallHasRecord
  <1>4. edits' = 0 /\ faults' = 0 /\ op'.pc # "idle" => OnItsWay(op.pc, Box, target)'
    BY <1>1, Zenon DEF RecordInv, OnItsWay
  <1>5. RevertIsAllOrNothing'
    BY Zenon DEF RecordInv, RevertIsAllOrNothing
  <1> QED
    BY <1>2, <1>3, <1>4, <1>5, Zenon DEF RecordInv

\* Rolling the thread back deletes the record, but not during a revert.
LEMMA RollbackFiles ==
  ASSUME FileInv, RecordInv, NEW n \in Turn, RollbackThread(n),
         UNCHANGED <<reserved, revert, revertVars>>
  PROVE  FileInv' /\ RecordInv'
  <1>1. CASE record' = record
    BY <1>1, QuietFiles, Zenon DEF revertVars, requestVars, FileInv, FileTypeOK
  <1>2. CASE record' = [status |-> "deleted", key |-> "none"]
    <2>1. record'.status = "deleted"
      BY <1>2, Zenon
    <2>2. revert.pc = "idle" /\ op.pc = "idle"
      BY Zenon DEF RollbackThread, RecordInv, CallHasRecord
    <2>3. FileInv'
      BY <2>2, Zenon DEF revertVars, FileInv, FileTypeOK, FilesNeedDirectory
    <2>4. CallHasRecord' /\ RevertIsAllOrNothing'
      BY <2>1, <2>2, Zenon DEF revertVars, CallHasRecord, RevertIsAllOrNothing
    <2> QED
      BY <2>2, <2>3, <2>4, Zenon DEF revertVars, RecordInv
  <1> QED
    BY <1>1, <1>2, Zenon DEF RollbackThread

\* The end of a request, or of the process: the call is gone.
LEMMA ReleaseFiles ==
  ASSUME FileInv, UNCHANGED <<change, target, box, edits, replaced>>,
         faults' \in Nat, op' = NoOp, Release,
         RevertIsAllOrNothing',
         record'.status \in {"pending", "reverted"} => record'.key \in Key
  PROVE  FileInv' /\ RecordInv'
  <1>1. /\ op'.pc = "idle" /\ op' \in OpRecord
        /\ revert'.pc = "idle" /\ revert' \in RevertRecord
    BY Zenon DEF NoOp, Release, NoRevert, OpRecord, RevertRecord
  <1>2. FileInv'
    BY <1>1, Zenon DEF FileInv, FileTypeOK, FilesNeedDirectory
  <1>3. CallHasRecord'
    BY <1>1, Zenon DEF CallHasRecord
  <1> QED
    BY <1>1, <1>2, <1>3, Zenon DEF RecordInv

\* The steps of a revert request.
LEMMA RequestFiles ==
  ASSUME FileInv, RecordInv, RequestStep PROVE FileInv' /\ RecordInv'
  <1>1. /\ UNCHANGED <<change, target, box, edits, replaced>>
        /\ revert \in RevertRecord /\ faults \in Nat
    BY Zenon DEF RequestStep, FileInv, FileTypeOK
  <1>2. ASSUME UNCHANGED <<record, op, faults>>, revert' \in RevertRecord,
               revert'.pc # "idle" => revert'.key \in Key /\ reserved',
               op.pc # "idle" => revert'.pc = "file",
               revert'.pc = "prepare" =>
                 \/ record.status = "available"
                 \/ record.status = "pending" /\ record.key = revert'.key
        PROVE  FileInv' /\ RecordInv'
    <2>1. Box' = Box
      BY <1>1, <1>2, Zenon DEF Box
    <2>2. FileInv'
      BY <1>1, <1>2, <2>1, Zenon DEF FileInv, FileTypeOK, FilesNeedDirectory, Fits
    <2>3. CallHasRecord'
      BY <1>2, Zenon DEF RecordInv, CallHasRecord
    <2>4. edits' = 0 /\ faults' = 0 /\ op'.pc # "idle" =>
            OnItsWay(op.pc, Box, target)'
      BY <1>1, <1>2, <2>1, Zenon DEF RecordInv, OnItsWay
    <2>5. RevertIsAllOrNothing'
      BY <1>1, <1>2, Zenon DEF RecordInv, RevertIsAllOrNothing
    <2> QED
      BY <2>2, <2>3, <2>4, <2>5, Zenon DEF RecordInv
  <1>3. ASSUME NEW k \in Key, ReserveWorkspaceRevert(k), UNCHANGED faults
        PROVE  FileInv' /\ RecordInv'
    <2>1. op.pc = "idle"
      BY <1>3, Zenon DEF ReserveWorkspaceRevert, RecordInv, CallHasRecord
    <2>2. revert' \in RevertRecord /\ revert'.pc = "load" /\ revert'.key = k /\ reserved'
      BY <1>3, Zenon DEF ReserveWorkspaceRevert, RevertRecord
    <2> QED
      BY <1>2, <1>3, <2>1, <2>2, Zenon DEF ReserveWorkspaceRevert
  <1>4. ASSUME LoadFileChange, UNCHANGED faults PROVE FileInv' /\ RecordInv'
    <2>1. revert.pc = "load" /\ op.pc = "idle" /\ revert.key \in Key /\ reserved
      BY <1>4, Zenon DEF LoadFileChange, RecordInv, CallHasRecord, FileInv, FileTypeOK
    <2>2. CASE Release
      <3>1. revert' \in RevertRecord /\ revert'.pc = "idle"
        BY <2>2, Zenon DEF Release, NoRevert, RevertRecord
      <3> QED
        BY <1>2, <1>4, <2>1, <3>1, Zenon DEF LoadFileChange
    <2>3. CASE revert' = [revert EXCEPT !.pc = "prepare"] /\ UNCHANGED reserved
      <3>1. /\ revert' \in RevertRecord
            /\ revert'.pc = "prepare" /\ revert'.key = revert.key
        BY <1>1, <2>3, Zenon DEF RevertRecord
      <3>2. \/ record.status = "available"
            \/ record.status = "pending" /\ record.key = revert.key
        <4>1. ~Release
          BY <2>1, <2>3, Zenon DEF Release
        <4> QED
          BY <1>4, <4>1, Zenon DEF LoadFileChange
      <3> QED
        BY <1>2, <1>4, <2>1, <2>3, <3>1, <3>2, Zenon DEF LoadFileChange
    <2> QED
      BY <1>4, <2>2, <2>3, Zenon DEF LoadFileChange
  <1>5. ASSUME PrepareFileChangeRevert, UNCHANGED faults
        PROVE  FileInv' /\ RecordInv'
    <2> USE <1>5 DEF PrepareFileChangeRevert
    <2>1. revert.pc = "prepare" /\ revert.key \in Key /\ reserved
      BY Zenon DEF RecordInv, CallHasRecord, FileInv, FileTypeOK
    <2>2. /\ revert' \in RevertRecord
          /\ revert'.pc = "file" /\ revert'.key = revert.key
      BY <1>1, Zenon DEF RevertRecord
    <2>3. /\ op' \in OpRecord /\ op'.pc = "check" /\ op'.key = revert.key
          /\ Box' = box[revert.key]
      BY <1>1, <2>1, Zenon DEF OpRecord, CallPc, Box
    <2>4. FileInv'
      BY <1>1, <2>1, <2>2, <2>3, Zenon DEF FileInv, FileTypeOK, FilesNeedDirectory, Fits
    <2>5. record' = [status |-> "pending", key |-> op'.key]
          /\ record'.status = "pending" /\ record'.key = revert.key
      BY <2>3, Zenon
    <2>6. CallHasRecord'
      BY <2>1, <2>2, <2>3, <2>5, Zenon DEF CallHasRecord
    <2>7. RevertIsAllOrNothing'
      BY <1>1, <2>1, <2>5, Zenon DEF RecordInv, CallHasRecord, RevertIsAllOrNothing
    <2> QED
      BY <2>3, <2>4, <2>6, <2>7, Zenon DEF RecordInv, OnItsWay
  <1>6. ASSUME CompleteFileChangeRevert PROVE FileInv' /\ RecordInv'
    <2> USE <1>6 DEF CompleteFileChangeRevert
    <2>1. /\ record = [status |-> "pending", key |-> op.key]
          /\ op.key \in Key /\ op.pc = "done"
      BY Zenon DEF RecordInv, CallHasRecord, FileInv, FileTypeOK
    <2>2. CASE record' = [record EXCEPT !.status = "reverted"] /\ UNCHANGED faults
      <3>1. record'.status = "reverted" /\ record'.key = op.key
        BY <2>1, <2>2, Zenon
      <3>2. edits = 0 /\ faults = 0 => target = change.before /\ ~box[op.key].dir
        BY <2>1, Zenon DEF RecordInv, OnItsWay, Box
      <3>3. RevertIsAllOrNothing'
        BY <1>1, <2>2, <3>1, <3>2, Zenon DEF RevertIsAllOrNothing
      <3> QED
        BY <1>1, <2>1, <2>2, <3>1, <3>3, ReleaseFiles, Zenon
    <2>3. CASE faults' = faults + 1 /\ UNCHANGED record
      <3>1. faults' \in Nat /\ faults' # 0
        BY <1>1, <2>3
      <3>2. RevertIsAllOrNothing'
        BY <3>1, Zenon DEF RevertIsAllOrNothing
      <3> QED
        BY <1>1, <2>1, <2>3, <3>1, <3>2, ReleaseFiles, Zenon
    <2> QED
      BY <2>2, <2>3, Zenon
  <1>7. ASSUME AbortIfUnchanged, UNCHANGED faults PROVE FileInv' /\ RecordInv'
    <2>1. RevertIsAllOrNothing'
      <3>1. CASE UNCHANGED record
        BY <1>1, <1>7, <3>1, Zenon DEF RecordInv, RevertIsAllOrNothing
      <3>2. CASE target = change.after /\ record' = [status |-> "available", key |-> "none"]
        BY <1>1, <3>2, Zenon DEF RevertIsAllOrNothing
      <3> QED
        BY <1>7, <3>1, <3>2, Zenon DEF AbortIfUnchanged
    <2>2. record'.status \in {"pending", "reverted"} => record'.key \in Key
      BY <1>7 DEF AbortIfUnchanged, RecordInv, CallHasRecord
    <2> QED
      BY <1>1, <1>7, <2>1, <2>2, ReleaseFiles, Zenon DEF AbortIfUnchanged
  <1> QED
    BY <1>3, <1>4, <1>5, <1>6, <1>7, Zenon DEF RequestStep

\* Files and record stay consistent in every step.
LEMMA NextFiles ==
  ASSUME FileInv, RecordInv, [ServerNext]_allVars
  PROVE  FileInv' /\ RecordInv' /\ [Survival]_revertVars
  <1>1. ASSUME UNCHANGED <<target, box>> PROVE Survival
    BY <1>1, Zenon DEF Survival, Kept
  <1>2. faults \in Nat
    BY Zenon DEF FileInv, FileTypeOK
  <1>3. CASE TurnStep
    BY <1>1, <1>2, <1>3, QuietFiles, Zenon DEF TurnStep, revertVars
  <1>4. CASE EndStep
    <2>1. faults' = faults \/ faults' = faults + 1
      BY <1>4, Zenon DEF EndStep, FailUnownedTurn, Complete
    <2>2. faults' \in Nat /\ (faults' = 0 => faults = 0)
      BY <1>2, <2>1
    <2> QED
      BY <1>1, <1>4, <2>2, QuietFiles, Zenon DEF EndStep
  <1>5. CASE ThreadStep
    <2>1. ASSUME NEW n \in Turn, RollbackThread(n) PROVE FileInv' /\ RecordInv'
      BY <1>5, <2>1, RollbackFiles, Zenon DEF ThreadStep
    <2>2. CASE UNCHANGED record
      BY <1>2, <1>5, <2>2, QuietFiles, Zenon DEF ThreadStep, requestVars, revertVars
    <2> QED
      BY <1>1, <1>5, <2>1, <2>2, Zenon
         DEF ThreadStep, SetThreadStatus, DeleteThread, revertVars
  <1>6. CASE RequestStep
    BY <1>1, <1>6, RequestFiles, Zenon DEF RequestStep
  <1>7. CASE FileStep
    BY <1>7, CallFiles, EditFiles, Zenon DEF FileStep
  <1>8. CASE Crash
    <2>1. RevertIsAllOrNothing'
      BY <1>8, Zenon DEF Crash, RecordInv, RevertIsAllOrNothing
    <2>2. FileInv' /\ RecordInv'
      BY <1>2, <1>8, <2>1, ReleaseFiles, Zenon DEF Crash, RecordInv, CallHasRecord
    <2> QED
      BY <1>1, <1>8, <2>2, Zenon DEF Crash
  <1>9. CASE RecoverOrphanedTurns \/ UNCHANGED allVars
    BY <1>1, <1>2, <1>9, QuietFiles, Zenon
       DEF RecoverOrphanedTurns, allVars, serverVars, requestVars, revertVars
  <1> QED
    BY <1>3, <1>4, <1>5, <1>6, <1>7, <1>8, <1>9, Zenon DEF ServerNext

\* The file, its quarantine and the record of the change stay consistent,
\* for any keys, contents, edits, faults and crashes.
THEOREM FilesSafe == ServerSpec => [](FileInv /\ RecordInv)
  <1>1. FileInv /\ RecordInv /\ [ServerNext]_allVars => (FileInv /\ RecordInv)'
    BY NextFiles, Zenon
  <1> QED
    BY <1>1, InitFiles, PTL DEF ServerSpec

\* A revert of a file that nobody else touches is all or nothing, through any
\* number of crashes, also of the call that repairs an earlier one.
THEOREM AllOrNothingSafe == ServerSpec => []RevertIsAllOrNothing
  <1>1. RecordInv => RevertIsAllOrNothing
    BY Zenon DEF RecordInv
  <1> QED
    BY <1>1, FilesSafe, PTL

\* RevertFile loses no contents somebody else wrote during the revert, save
\* when it takes back an installation.
THEOREM EditsSafe == ServerSpec => EditsSurvive
  <1>1. FileInv /\ RecordInv /\ [ServerNext]_allVars => [Survival]_revertVars
    BY NextFiles, Zenon
  <1> QED
    BY <1>1, FilesSafe, PTL DEF ServerSpec, EditsSurvive, Survival
=============================================================================
