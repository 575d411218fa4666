------------------------- MODULE SqliteStoreProofs -------------------------
(***************************************************************************)
(* What the history of the durable store tells, for any number of workers, *)
(* tasks, commands, claims, instants and records.                          *)
(***************************************************************************)
EXTENDS SqliteStore, StoreProofs

\* What is not said to be for another prover is for Zenon.
USE Zenon

-----------------------------------------------------------------------------
(* Induction over the positions of a sequence. *)

\* A set of numbers has a least element.  This is proved at the end, where the
\* library's theorems on induction come in (NumbersAreWellOrdered).
WellOrdered == \A T \in SUBSET Nat : T # {} => \E x \in T : \A y \in T : x <= y

-----------------------------------------------------------------------------
(* Records and sequences of records. *)

EventKind ==
    {"task_created", "task_updated", "task_deleted", "task_claimed", "task_completed",
     "task_failed", "task_canceled", "task_requeued", "lease_renewed", "lease_released",
     "artifact_created", "command_created", "command_claimed", "command_released",
     "command_handled"}
EventRecord == [kind: EventKind, task: Nat, run: Nat, attempt: Nat,
                worker: Worker \cup {NoWorker}, command: Nat]

\* No record of s is in C.
NoneOf(s, C) == \A j \in 1..Len(s) : s[j] \notin C

\* The last record of s that is in C is e: no other one of C comes after it.
LastOf(s, e, C) ==
    \E m \in 1..Len(s) : /\ s[m] = e /\ e \in C
                         /\ \A j \in 1..Len(s) : s[j] \in C => j <= m \/ s[j] = e

\* What a concatenation has where.
LEMMA ConcatAt ==
    ASSUME NEW a \in Seq(EventRecord), NEW b \in Seq(EventRecord)
    PROVE  /\ a \o b \in Seq(EventRecord) /\ Len(a \o b) = Len(a) + Len(b)
           /\ Len(a) \in Nat /\ Len(b) \in Nat
           /\ \A i \in 1..Len(a) : (a \o b)[i] = a[i]
           /\ \A i \in 1..Len(b) : (a \o b)[Len(a) + i] = b[i]
           /\ \A i \in 1..(Len(a) + Len(b)) : i \in 1..Len(a) \/ i - Len(a) \in 1..Len(b)
  BY SMT

\* What is added at the end counts, if it is in C.
LEMMA Appended ==
    ASSUME NEW a \in Seq(EventRecord), NEW b \in Seq(EventRecord), NEW C
    PROVE  /\ NoneOf(b, C) /\ NoneOf(a, C) => NoneOf(a \o b, C)
           /\ \A e : NoneOf(b, C) /\ LastOf(a, e, C) => LastOf(a \o b, e, C)
           /\ \A e : LastOf(b, e, C) => LastOf(a \o b, e, C)
  <1> DEFINE c == a \o b
             n == Len(a)
             k == Len(b)
  <1>1. /\ Len(c) = n + k /\ n \in Nat /\ k \in Nat
        /\ \A i \in 1..n : c[i] = a[i]
        /\ \A i \in 1..k : c[n + i] = b[i]
    BY ConcatAt
  <1> HIDE DEF c, n, k
  <1>2. \A j \in 1..(n + k) : j \in 1..n \/ \E i \in 1..k : j = n + i
    BY <1>1, SMT
  <1>3. ASSUME NoneOf(b, C), NoneOf(a, C) PROVE NoneOf(c, C)
    <2>1. \A i \in 1..n : a[i] \notin C
      BY <1>3 DEF NoneOf, n
    <2>2. \A i \in 1..k : b[i] \notin C
      BY <1>3 DEF NoneOf, k
    <2>3. \A j \in 1..(n + k) : c[j] \notin C
      BY <1>1, <1>2, <2>1, <2>2
    <2> QED
      BY <1>1, <2>3 DEF NoneOf
  <1>4. ASSUME NEW e, NoneOf(b, C), LastOf(a, e, C)
        PROVE  LastOf(c, e, C)
    <2>1. PICK m \in 1..n : /\ a[m] = e /\ e \in C
                            /\ \A j \in 1..n : a[j] \in C => j <= m \/ a[j] = e
      BY <1>4 DEF LastOf, n
    <2>2. m \in 1..(n + k) /\ c[m] = e
      BY <1>1, <2>1, SMT
    <2>3. \A j \in 1..(n + k) : c[j] \in C => j <= m \/ c[j] = e
      BY <1>1, <1>2, <1>4, <2>1 DEF NoneOf, k
    <2> QED
      BY <1>1, <2>1, <2>2, <2>3 DEF LastOf
  <1>5. ASSUME NEW e, LastOf(b, e, C)
        PROVE  LastOf(c, e, C)
    <2>1. PICK m \in 1..k : /\ b[m] = e /\ e \in C
                            /\ \A j \in 1..k : b[j] \in C => j <= m \/ b[j] = e
      BY <1>5 DEF LastOf, k
    <2>2. n + m \in 1..(n + k) /\ c[n + m] = e
      BY <1>1, <2>1, SMT
    <2>3. ASSUME NEW j \in 1..(n + k), c[j] \in C PROVE j <= n + m \/ c[j] = e
      <3>1. CASE j \in 1..n
        BY <1>1, <3>1, SMT
      <3>2. ASSUME NEW i \in 1..k, j = n + i PROVE j <= n + m \/ c[j] = e
        <4>1. i <= m \/ c[j] = e
          BY <1>1, <2>1, <2>3, <3>2
        <4> QED
          BY <1>1, <3>2, <4>1, SMT
      <3> QED
        BY <1>2, <3>1, <3>2
    <2> QED
      BY <1>1, <2>1, <2>2, <2>3 DEF LastOf
  <1> QED
    BY <1>3, <1>4, <1>5 DEF c

\* A record that is the only one of its class in s is the last one.
LEMMA OnlyIsLast ==
    ASSUME NEW s \in Seq(EventRecord), NEW C, NEW e \in C,
           \E i \in 1..Len(s) : s[i] = e,
           \A i \in 1..Len(s) : s[i] \in C => s[i] = e
    PROVE  LastOf(s, e, C)
  BY DEF LastOf

-----------------------------------------------------------------------------
(* What the records of a step have to tell. *)

\* The records that tell the status of task t, the status of command k, and the
\* end of run r.
TaskClass(t) ==
    {e \in EventRecord : e.task = t /\ e.command = 0 /\ e.kind \in DOMAIN StatusAfter}
CommandClass(k) ==
    {e \in EventRecord : e.command = k /\ e.kind \in DOMAIN StatusAfter}
EndClass(r) ==
    {e \in EventRecord : e.run = r /\ e.kind \in DOMAIN RunStatusFromEvent}

\* The kinds of records, and what they tell.
LEMMA Kinds ==
    /\ DOMAIN StatusAfter =
          {"task_created", "task_requeued", "task_claimed", "task_completed", "task_failed",
           "task_canceled", "task_deleted", "command_created", "command_released",
           "command_claimed", "command_handled"}
    /\ StatusAfter["task_created"] = "pending" /\ StatusAfter["task_requeued"] = "pending"
    /\ StatusAfter["task_claimed"] = "running" /\ StatusAfter["task_completed"] = "completed"
    /\ StatusAfter["task_failed"] = "failed" /\ StatusAfter["task_canceled"] = "canceled"
    /\ StatusAfter["task_deleted"] = "absent"
    /\ StatusAfter["command_created"] = "pending" /\ StatusAfter["command_released"] = "pending"
    /\ StatusAfter["command_claimed"] = "claimed" /\ StatusAfter["command_handled"] = "handled"
    /\ DOMAIN RunStatusFromEvent =
          {"task_completed", "task_failed", "task_canceled", "task_requeued", "lease_released"}
    /\ RunStatusFromEvent["task_completed"] = "completed"
    /\ RunStatusFromEvent["task_failed"] = "failed"
    /\ RunStatusFromEvent["task_canceled"] = "canceled"
  BY SMT DEF StatusAfter, RunStatusFromEvent

\* Status s is what a record of this kind says of task t, or the task is
\* completed without an attempt left and the record tells of a failure.
Says(kind, t, After) ==
    \/ After[kind] = tasks[t].status
    \/ tasks[t].status = "completed" /\ Exhausted(t) /\ kind = "task_failed"

\* The records of s tell the status of task t, and how its run c ended, if it did.
TaskTold(s, t) ==
    \/ NoneOf(s, TaskClass(t)) /\ tasks[t].status = "absent"
    \/ \E e \in EventRecord : LastOf(s, e, TaskClass(t)) /\ Says(e.kind, t, StatusAfter)
CommandTold(s, k) ==
    \/ NoneOf(s, CommandClass(k)) /\ commands[k].status = "absent"
    \/ \E e \in EventRecord :
          LastOf(s, e, CommandClass(k)) /\ StatusAfter[e.kind] = commands[k].status
EndTold(s, c) ==
    \/ NoneOf(s, EndClass(c.run)) /\ tasks[c.task].status = "running"
    \/ \E e \in EventRecord :
          LastOf(s, e, EndClass(c.run)) /\ Says(e.kind, c.task, RunStatusFromEvent)

\* No two claims are of one run, and a task that has a run has the attempt it
\* was claimed with.
RunsKnown ==
    /\ \A c, d \in claims : c.run = d.run => c = d
    /\ \A c \in claims : c.attempt >= 1
    /\ \A t \in TaskId : tasks[t].run.id # 0 =>
          \E c \in claims : /\ c.task = t /\ c.run = tasks[t].run.id
                            /\ c.worker = tasks[t].run.worker
                            /\ c.attempt = tasks[t].attempt
    /\ \A k \in CommandId : commands[k].run \in 0..nextRun

\* The record e is of a run that was started; of a claim it has the worker and
\* the attempt, if it has any.
Filed(e) ==
    /\ e.run <= nextRun
    /\ \A c \in claims : e.run = c.run =>
          e.worker \in {c.worker, NoWorker} /\ e.attempt \in {0, c.attempt}

\* The record that claim c was granted.
StartOf(e, c) == e.run = c.run /\ e.worker = c.worker /\ e.attempt = c.attempt

\* What the history has to tell.
HistoryInv ==
    /\ events \in Seq(EventRecord)
    /\ \A i \in 1..Len(events) : Filed(events[i])
    /\ \A c \in claims : \E i \in 1..Len(events) : StartOf(events[i], c)
    /\ \A t \in TaskId : TaskTold(events, t)
    /\ \A k \in CommandId : CommandTold(events, k)
    /\ \A c \in claims : tasks[c.task].run.id = c.run => EndTold(events, c)

-----------------------------------------------------------------------------
(* What a step and its records have to do with each other. *)

\* The step leaves the status and the run of task t alone.
TaskRests(t) ==
    /\ tasks'[t].status = tasks[t].status /\ tasks'[t].run = tasks[t].run
    /\ tasks'[t].attempt = tasks[t].attempt /\ tasks'[t].maxAttempts = tasks[t].maxAttempts

\* The step does nothing to task t, and rs tells nothing of it; or it does what
\* a record of rs says, and the run of the task, if it has one afterwards, is a
\* new one or has ended with that record.
TaskMoves(rs, t) ==
    \/ /\ TaskRests(t)
       /\ NoneOf(rs, TaskClass(t))
       /\ tasks[t].run.id # 0 => NoneOf(rs, EndClass(tasks[t].run.id))
    \/ \E e \in EventRecord :
          /\ LastOf(rs, e, TaskClass(t))
          /\ Says(e.kind, t, StatusAfter)'
          /\ \/ tasks'[t].run.id \in {0, nextRun + 1}
             \/ /\ tasks'[t].run = tasks[t].run /\ tasks'[t].attempt = tasks[t].attempt
                /\ LastOf(rs, e, EndClass(tasks[t].run.id))
                /\ Says(e.kind, t, RunStatusFromEvent)'

CommandMoves(rs, k) ==
    /\ \/ commands'[k].status = commands[k].status /\ NoneOf(rs, CommandClass(k))
       \/ \E e \in EventRecord :
             LastOf(rs, e, CommandClass(k)) /\ StatusAfter[e.kind] = commands'[k].status
    /\ commands'[k].run \in 0..nextRun

\* The record is of the run of a task, or tells neither worker nor attempt.
OfKnownRun(e) ==
    \/ e.run <= nextRun /\ e.worker = NoWorker /\ e.attempt = 0
    \/ \E t \in TaskId : /\ tasks[t].run.id = e.run /\ e.run # 0
                         /\ e.worker \in {tasks[t].run.worker, NoWorker}
                         /\ e.attempt \in {tasks[t].attempt, 0}

\* The step grants no claim.
NoClaim(rs) ==
    /\ claims' = claims /\ nextRun' = nextRun
    /\ \A t \in TaskId : tasks'[t].run.id # nextRun + 1
    /\ \A i \in 1..Len(rs) : rs[i].run # 0 => OfKnownRun(rs[i])

\* The step grants claim c, of a new run.
NewClaim(rs, c) ==
    /\ c \in Claim /\ c.run = nextRun + 1 /\ c.attempt >= 1
    /\ claims' = claims \cup {c} /\ nextRun' = nextRun + 1
    /\ tasks'[c.task].run.id = c.run /\ tasks'[c.task].run.worker = c.worker
    /\ tasks'[c.task].attempt = c.attempt /\ tasks'[c.task].status = "running"
    /\ \A t \in TaskId \ {c.task} : tasks'[t].run.id # nextRun + 1
    /\ NoneOf(rs, EndClass(c.run))
    /\ \E i \in 1..Len(rs) : StartOf(rs[i], c)
    /\ \A i \in 1..Len(rs) : rs[i].run # 0 => OfKnownRun(rs[i]) \/ StartOf(rs[i], c)

\* The records of the step tell all of it.
StepTold(rs) ==
    /\ rs \in Seq(EventRecord) /\ events' = events \o rs
    /\ \A t \in TaskId : TaskMoves(rs, t)
    /\ \A k \in CommandId : CommandMoves(rs, k)
    /\ NoClaim(rs) \/ \E c : NewClaim(rs, c)

\* Claims before and after the step: runs grow, and only a new claim is of the
\* run that is new.
LEMMA ClaimsTold ==
    ASSUME TypeOK, NEW rs, NoClaim(rs) \/ \E c : NewClaim(rs, c)
    PROVE  /\ nextRun \in Nat /\ nextRun' \in Nat /\ nextRun <= nextRun'
           /\ claims \subseteq claims'
           /\ \A c \in claims : c.run \in 1..nextRun /\ c.task \in TaskId /\ c.worker \in Worker
           /\ \A c \in claims' \ claims : NewClaim(rs, c)
           /\ \A t \in TaskId :
                 tasks'[t].run.id = nextRun + 1 => \E c \in claims' : NewClaim(rs, c) /\ c.task = t
  <1>1. nextRun \in Nat /\ \A c \in claims : c.run \in 1..nextRun /\ c.task \in TaskId /\ c.worker \in Worker
    BY DEF TypeOK, Claim
  <1>2. CASE NoClaim(rs)
    <2>1. claims' = claims /\ nextRun' = nextRun
          /\ \A t \in TaskId : tasks'[t].run.id # nextRun + 1
      BY <1>2 DEF NoClaim
    <2>2. nextRun <= nextRun'
      BY <1>1, <2>1, SMT
    <2> QED
      BY <1>1, <2>1, <2>2
  <1>3. ASSUME NEW c, NewClaim(rs, c)
        PROVE  /\ nextRun' \in Nat /\ nextRun <= nextRun' /\ claims \subseteq claims'
               /\ \A d \in claims' \ claims : NewClaim(rs, d)
               /\ \A t \in TaskId :
                     tasks'[t].run.id = nextRun + 1 => \E d \in claims' : NewClaim(rs, d) /\ d.task = t
    <2>1. claims' = claims \cup {c} /\ nextRun' = nextRun + 1
          /\ \A t \in TaskId \ {c.task} : tasks'[t].run.id # nextRun + 1
      BY <1>3 DEF NewClaim
    <2>2. nextRun <= nextRun' /\ nextRun' \in Nat
      BY <1>1, <2>1, SMT
    <2> QED
      BY <1>3, <2>1, <2>2
  <1> QED
    BY <1>1, <1>2, <1>3

\* The runs stay known.
LEMMA RunsStayKnown ==
    ASSUME TypeOK, RunsKnown, NEW rs, StepTold(rs)
    PROVE  RunsKnown'
  <1>1. /\ nextRun \in Nat /\ nextRun' \in Nat /\ nextRun <= nextRun'
        /\ claims \subseteq claims'
        /\ \A c \in claims : c.run \in 1..nextRun /\ c.task \in TaskId
        /\ \A c \in claims' \ claims : NewClaim(rs, c)
        /\ \A t \in TaskId :
              tasks'[t].run.id = nextRun + 1 => \E c \in claims' : NewClaim(rs, c) /\ c.task = t
    BY ClaimsTold DEF StepTold
  <1>2. ASSUME NEW c \in claims', NEW d \in claims', c.run = d.run PROVE c = d
    <2>1. \A x \in claims' \ claims : claims' = claims \cup {x} /\ x.run = nextRun + 1
      BY <1>1 DEF NewClaim
    <2>2. \A x \in claims : x.run # nextRun + 1
      BY <1>1, SMT
    <2> QED
      BY <1>2, <2>1, <2>2, SMT DEF RunsKnown
  <1>3. \A c \in claims' : c.attempt >= 1
    BY <1>1 DEF NewClaim, RunsKnown
  <1>4. ASSUME NEW t \in TaskId, tasks'[t].run.id # 0
        PROVE  \E c \in claims' : /\ c.task = t /\ c.run = tasks'[t].run.id
                                  /\ c.worker = tasks'[t].run.worker
                                  /\ c.attempt = tasks'[t].attempt
    <2>1. CASE tasks'[t].run.id = nextRun + 1
      BY <1>1, <2>1, SMT DEF NewClaim
    <2>2. CASE tasks'[t].run = tasks[t].run /\ tasks'[t].attempt = tasks[t].attempt
      BY <1>1, <1>4, <2>2, SMT DEF RunsKnown
    <2> QED
      BY <1>4, <2>1, <2>2 DEF StepTold, TaskMoves, TaskRests
  <1>5. ASSUME NEW k \in CommandId PROVE commands'[k].run \in 0..nextRun'
    <2>1. commands'[k].run \in 0..nextRun
      BY DEF StepTold, CommandMoves
    <2> QED
      BY <1>1, <2>1, SMT
  <1> QED
    BY <1>2, <1>3, <1>4, <1>5 DEF RunsKnown

\* A step that its records tell of leaves a history that tells everything.
LEMMA HistoryGrows ==
    ASSUME TypeOK, RunsKnown, HistoryInv, NEW rs, StepTold(rs)
    PROVE  HistoryInv'
  \* The new records are filed under runs that were started, like the old ones.
  <1>RecordsStayFiled.
      ASSUME NEW e \in EventRecord,
             Filed(e) \/ \E i \in 1..Len(rs) : e = rs[i]
      PROVE  Filed(e)'
    <2> USE <1>RecordsStayFiled
    <2>1. /\ nextRun \in Nat /\ nextRun' \in Nat /\ nextRun <= nextRun'
          /\ \A c \in claims : c.run \in 1..nextRun
          /\ \A c \in claims' \ claims : NewClaim(rs, c)
      BY ClaimsTold DEF StepTold
    <2>2. e.run \in Nat
      BY DEF EventRecord
    <2>3. \A c \in claims' \ claims : c.run = nextRun + 1 /\ nextRun' = nextRun + 1 /\ claims' = claims \cup {c}
      BY <2>1 DEF NewClaim
    <2>4. CASE Filed(e)
      <3>1. e.run <= nextRun' /\ e.run # nextRun + 1
        BY <2>1, <2>2, <2>4, SMT DEF Filed
      <3> QED
        BY <2>3, <2>4, <3>1 DEF Filed
    <2>5. CASE e.run = 0
      <3>1. 0 <= nextRun' /\ 0 # nextRun + 1 /\ \A c \in claims : c.run # 0
        BY <2>1, SMT
      <3> QED
        BY <2>3, <2>5, <3>1 DEF Filed
    <2>6. CASE e.run # 0 /\ OfKnownRun(e)
      <3>1. CASE e.run <= nextRun /\ e.worker = NoWorker /\ e.attempt = 0
        <4>1. e.run <= nextRun'
          BY <2>1, <2>2, <3>1, SMT
        <4> QED
          BY <3>1, <4>1 DEF Filed
      <3>2. ASSUME NEW t \in TaskId, tasks[t].run.id = e.run, e.run # 0,
                   e.worker \in {tasks[t].run.worker, NoWorker}, e.attempt \in {tasks[t].attempt, 0}
            PROVE  Filed(e)
        <4>1. PICK d \in claims : /\ d.task = t /\ d.run = tasks[t].run.id
                                  /\ d.worker = tasks[t].run.worker /\ d.attempt = tasks[t].attempt
          BY <3>2 DEF RunsKnown
        <4>2. e.run <= nextRun
          BY <2>1, <3>2, <4>1, SMT
        <4>3. \A c \in claims : c.run = e.run => c = d
          BY <3>2, <4>1, SMT DEF RunsKnown
        <4> QED
          BY <3>2, <4>1, <4>2, <4>3 DEF Filed
      <3> QED
        BY <2>4, <2>6, <3>1, <3>2 DEF OfKnownRun
    <2>7. ASSUME NEW c, NewClaim(rs, c), StartOf(e, c) PROVE Filed(e)'
      <3>1. e.run = nextRun + 1 /\ e.worker = c.worker /\ e.attempt = c.attempt
            /\ claims' = claims \cup {c} /\ nextRun' = nextRun + 1
        BY <2>7 DEF NewClaim, StartOf
      <3>2. e.run <= nextRun' /\ \A d \in claims : d.run # e.run
        BY <2>1, <3>1, SMT
      <3> QED
        BY <3>1, <3>2 DEF Filed
    <2> QED
      BY <2>4, <2>5, <2>6, <2>7 DEF StepTold, NoClaim, NewClaim

  <1>0. events \in Seq(EventRecord) /\ rs \in Seq(EventRecord) /\ events' = events \o rs
    BY DEF HistoryInv, StepTold
  <1>1. /\ events' \in Seq(EventRecord) /\ Len(events') = Len(events) + Len(rs)
        /\ Len(events) \in Nat /\ Len(rs) \in Nat
        /\ \A i \in 1..Len(events) : events'[i] = events[i]
        /\ \A i \in 1..Len(rs) : events'[Len(events) + i] = rs[i]
        /\ \A i \in 1..(Len(events) + Len(rs)) : i \in 1..Len(events) \/ i - Len(events) \in 1..Len(rs)
    BY <1>0, ConcatAt
  <1>2. /\ \A i \in 1..Len(events') : (\E j \in 1..Len(events) : events'[i] = events[j])
                                 \/ \E j \in 1..Len(rs) : events'[i] = rs[j]
        /\ \A i \in 1..Len(events) : \E j \in 1..Len(events') : events'[j] = events[i]
        /\ \A i \in 1..Len(rs) : \E j \in 1..Len(events') : events'[j] = rs[i]
    <2>1. ASSUME NEW i \in 1..Len(events')
          PROVE  (\E j \in 1..Len(events) : events'[i] = events[j])
                 \/ \E j \in 1..Len(rs) : events'[i] = rs[j]
      <3>1. CASE i \in 1..Len(events)
        BY <1>1, <3>1
      <3>2. CASE i - Len(events) \in 1..Len(rs)
        <4>1. Len(events) + (i - Len(events)) = i
          BY <1>1, SMT
        <4> QED
          BY <1>1, <3>2, <4>1
      <3> QED
        BY <1>1, <3>1, <3>2
    <2>2. ASSUME NEW i \in 1..Len(events) PROVE i \in 1..Len(events')
      BY <1>1, SMT
    <2>3. ASSUME NEW i \in 1..Len(rs) PROVE Len(events) + i \in 1..Len(events')
      BY <1>1, SMT
    <2> QED
      BY <1>1, <2>1, <2>2, <2>3
  <1>3. \A i \in 1..Len(events') : events'[i] \in EventRecord
    BY <1>1, SMT
  <1>a. \A C : /\ NoneOf(rs, C) /\ NoneOf(events, C) => NoneOf(events', C)
               /\ \A e : NoneOf(rs, C) /\ LastOf(events, e, C) => LastOf(events', e, C)
               /\ \A e : LastOf(rs, e, C) => LastOf(events', e, C)
    BY <1>0, Appended
  <1>b. /\ nextRun \in Nat
        /\ \A c \in claims : c.run \in 1..nextRun /\ c.task \in TaskId
        /\ \A c \in claims' \ claims : NewClaim(rs, c)
    BY ClaimsTold DEF StepTold
  <1>4. ASSUME NEW i \in 1..Len(events') PROVE Filed(events[i])'
    <2>1. PICK e \in EventRecord : e = events'[i]
      BY <1>3
    <2>2. Filed(e) \/ \E j \in 1..Len(rs) : e = rs[j]
      BY <1>2, <2>1 DEF HistoryInv
    <2>3. Filed(e)'
      BY <2>2, <1>RecordsStayFiled
    <2> QED
      BY <2>1, <2>3 DEF Filed
  <1>5. \A c \in claims' : \E i \in 1..Len(events') : StartOf(events'[i], c)
    <2>1. ASSUME NEW c \in claims PROVE \E i \in 1..Len(events') : StartOf(events'[i], c)
      <3>1. PICK i \in 1..Len(events) : StartOf(events[i], c)
        BY DEF HistoryInv
      <3> QED
        BY <1>2, <3>1
    <2>2. ASSUME NEW c \in claims' \ claims PROVE \E i \in 1..Len(events') : StartOf(events'[i], c)
      <3>1. PICK i \in 1..Len(rs) : StartOf(rs[i], c)
        BY <1>b DEF NewClaim
      <3> QED
        BY <1>2, <3>1
    <2> QED
      BY <2>1, <2>2
  <1>6. ASSUME NEW t \in TaskId PROVE TaskTold(events, t)'
    <2>1. CASE TaskRests(t) /\ NoneOf(rs, TaskClass(t))
      <3>1. TaskTold(events, t)
        BY DEF HistoryInv
      <3>2. \A e : Says(e.kind, t, StatusAfter) => Says(e.kind, t, StatusAfter)'
        BY <2>1 DEF TaskRests, Says, Exhausted
      <3> QED
        BY <1>a, <2>1, <3>1, <3>2, SMT DEF TaskTold, TaskRests
    <2>2. ASSUME NEW e \in EventRecord, LastOf(rs, e, TaskClass(t)), Says(e.kind, t, StatusAfter)'
          PROVE  TaskTold(events, t)'
      BY <1>a, <2>2, SMT DEF TaskTold
    <2> QED
      BY <2>1, <2>2 DEF StepTold, TaskMoves
  <1>7. ASSUME NEW k \in CommandId PROVE CommandTold(events, k)'
    <2>1. CASE commands'[k].status = commands[k].status /\ NoneOf(rs, CommandClass(k))
      <3>1. CommandTold(events, k)
        BY DEF HistoryInv
      <3> QED
        BY <1>a, <2>1, <3>1, SMT DEF CommandTold
    <2>2. ASSUME NEW e \in EventRecord, LastOf(rs, e, CommandClass(k)),
                 StatusAfter[e.kind] = commands'[k].status
          PROVE  CommandTold(events, k)'
      BY <1>a, <2>2, SMT DEF CommandTold
    <2> QED
      BY <2>1, <2>2 DEF StepTold, CommandMoves
  <1>8. ASSUME NEW c \in claims', tasks'[c.task].run.id = c.run PROVE EndTold(events, c)'
    <2>1. CASE c \in claims
      <3> DEFINE t == c.task
      <3>1. c.run # 0 /\ c.run # nextRun + 1 /\ t \in TaskId
        BY <1>b, <2>1, SMTT(30)
      <3>2. CASE /\ TaskRests(t)
                 /\ tasks[t].run.id # 0 => NoneOf(rs, EndClass(tasks[t].run.id))
        <4>1. tasks[t].run.id = c.run
          BY <1>8, <3>2 DEF TaskRests
        <4>2. EndTold(events, c) /\ NoneOf(rs, EndClass(c.run))
          BY <2>1, <3>1, <3>2, <4>1 DEF HistoryInv
        <4>3. \A e : Says(e.kind, t, RunStatusFromEvent) => Says(e.kind, t, RunStatusFromEvent)'
          BY <3>2 DEF TaskRests, Says, Exhausted
        <4> QED
          BY <1>a, <3>2, <4>2, <4>3, SMT DEF EndTold, TaskRests
      <3>3. ASSUME NEW e \in EventRecord, tasks'[t].run = tasks[t].run,
                   LastOf(rs, e, EndClass(tasks[t].run.id)), Says(e.kind, t, RunStatusFromEvent)'
            PROVE  EndTold(events, c)'
        <4>1. LastOf(events', e, EndClass(c.run))
          BY <1>8, <1>a, <3>3
        <4> QED
          BY <3>3, <4>1, SMT DEF EndTold
      <3> QED
        BY <1>8, <3>1, <3>2, <3>3 DEF StepTold, TaskMoves
    <2>2. CASE c \notin claims
      <3>1. NewClaim(rs, c)
        BY <1>b, <2>2
      <3>2. tasks'[c.task].status = "running" /\ NoneOf(rs, EndClass(c.run)) /\ c.run = nextRun + 1
        BY <3>1 DEF NewClaim
      <3>3. ASSUME NEW i \in 1..Len(events), events[i] \in EndClass(c.run) PROVE FALSE
        <4>1. events[i].run <= nextRun /\ events[i].run = nextRun + 1
          BY <3>2, <3>3 DEF HistoryInv, Filed, EndClass
        <4> QED
          BY <1>b, <4>1, SMT
      <3>4. NoneOf(events', EndClass(c.run))
        BY <1>a, <3>2, <3>3 DEF NoneOf
      <3> QED
        BY <3>2, <3>4, SMT DEF EndTold
    <2> QED
      BY <2>1, <2>2
  <1> QED
    BY <1>0, <1>1, <1>4, <1>5, <1>6, <1>7, <1>8, SMT DEF HistoryInv, Filed, StartOf, TaskTold,
       CommandTold, EndTold, Says, Exhausted

-----------------------------------------------------------------------------
(* What readers make of such a history. *)

\* A set of positions has a last one.
LEMMA GreatestPosition ==
    ASSUME WellOrdered, NEW n \in Nat, NEW T \in SUBSET (1..n), T # {}
    PROVE  \E x \in T : \A y \in T : y <= x
  <1> DEFINE D == {n - i : i \in T}
  <1>a. \A i \in T : n - i \in Nat
    BY SMT
  <1>1. D \in SUBSET Nat /\ D # {}
    BY <1>a
  <1>2. PICK d \in D : \A e \in D : d <= e
    BY <1>1 DEF WellOrdered
  <1>3. PICK x \in T : d = n - x
    BY SMT
  <1>4. ASSUME NEW y \in T PROVE y <= x
    <2>1. d <= n - y
      BY <1>2
    <2>2. x \in 1..n /\ y \in 1..n
      OBVIOUS
    <2> QED
      BY <1>3, <2>1, <2>2, SMT
  <1> QED
    BY <1>4

\* The last words on tasks and commands.
LEMMA WordsTell ==
    ASSUME WellOrdered, HistoryInv
    PROVE  HistoryTellsStatus
  <1>0. Len(events) \in Nat
    BY SMT DEF HistoryInv
  <1>1. \A i \in 1..Len(events) : events[i] \in EventRecord
    BY SMT DEF HistoryInv
  <1>2. ASSUME NEW words, NEW C, words = {i \in 1..Len(events) : events[i] \in C}
        PROVE  /\ NoneOf(events, C) => LastWordIs(words, "absent")
               /\ \A e : LastOf(events, e, C) => LastWordIs(words, StatusAfter[e.kind])
    <2>1. ASSUME NoneOf(events, C) PROVE LastWordIs(words, "absent")
      <3>1. words = {}
        BY <1>2, <2>1 DEF NoneOf
      <3> QED
        BY <3>1 DEF LastWordIs
    <2>2. ASSUME NEW e, LastOf(events, e, C) PROVE LastWordIs(words, StatusAfter[e.kind])
      <3>1. PICK m \in 1..Len(events) :
                /\ events[m] = e /\ e \in C
                /\ \A j \in 1..Len(events) : events[j] \in C => j <= m \/ events[j] = e
        BY <2>2 DEF LastOf
      <3>2. words \in SUBSET (1..Len(events)) /\ m \in words
        BY <1>2, <3>1
      <3>3. PICK i \in words : \A j \in words : j <= i
        BY <1>0, <3>2, GreatestPosition
      <3>4. events[i] = e
        <4>1. m <= i /\ i \in 1..Len(events) /\ events[i] \in C
          BY <1>2, <3>2, <3>3
        <4>2. i <= m => i = m
          BY <1>0, <4>1, SMT
        <4> QED
          BY <3>1, <4>1, <4>2
      <3> QED
        BY <3>3, <3>4 DEF LastWordIs
    <2> QED
      BY <2>1, <2>2
  <1>3. ASSUME NEW t \in TaskId
        PROVE  \/ LastWordIs(TaskWords(t), tasks[t].status)
               \/ /\ tasks[t].status = "completed" /\ Exhausted(t)
                  /\ LastWordIs(TaskWords(t), "failed")
    <2>1. TaskWords(t) = {i \in 1..Len(events) : events[i] \in TaskClass(t)}
      BY <1>1 DEF TaskWords, TaskClass
    <2>2. TaskTold(events, t)
      BY DEF HistoryInv
    <2>3. CASE NoneOf(events, TaskClass(t)) /\ tasks[t].status = "absent"
      BY <1>2, <2>1, <2>3
    <2>4. ASSUME NEW e \in EventRecord, LastOf(events, e, TaskClass(t)), Says(e.kind, t, StatusAfter)
          PROVE  \/ LastWordIs(TaskWords(t), tasks[t].status)
                 \/ /\ tasks[t].status = "completed" /\ Exhausted(t)
                    /\ LastWordIs(TaskWords(t), "failed")
      <3>1. LastWordIs(TaskWords(t), StatusAfter[e.kind])
        BY <1>2, <2>1, <2>4
      <3> QED
        BY <2>4, <3>1, Kinds DEF Says
    <2> QED
      BY <2>2, <2>3, <2>4 DEF TaskTold
  <1>4. ASSUME NEW k \in CommandId PROVE LastWordIs(CommandWords(k), commands[k].status)
    <2>1. CommandWords(k) = {i \in 1..Len(events) : events[i] \in CommandClass(k)}
      BY <1>1 DEF CommandWords, CommandClass
    <2>2. CommandTold(events, k)
      BY DEF HistoryInv
    <2> QED
      BY <1>2, <2>1, <2>2 DEF CommandTold
  <1> QED
    BY <1>3, <1>4 DEF HistoryTellsStatus

\* Function h is the summary of run r after each of the first n records.
Summaries(h, n, r) ==
    h = [m \in 0..n |->
            IF m = 0 THEN NewTimeline
            ELSE IF events[m].run = r THEN ApplyRunProjection(h[m - 1], events[m])
            ELSE h[m - 1]]

\* What a summary says after the first n records.
SummaryIs(x, n, r) ==
    /\ \/ x.worker = NoWorker /\ \A i \in 1..n : events[i].run = r => events[i].worker = NoWorker
       \/ \E i \in 1..n : events[i].run = r /\ events[i].worker = x.worker /\ x.worker # NoWorker
    /\ \/ x.attempt = 0 /\ \A i \in 1..n : events[i].run = r => events[i].attempt = 0
       \/ \E i \in 1..n : events[i].run = r /\ events[i].attempt = x.attempt /\ x.attempt # 0
    /\ \/ x.status = "running" /\ \A i \in 1..n : events[i] \notin EndClass(r)
       \/ \E i \in 1..n : /\ events[i] \in EndClass(r)
                          /\ x.status = RunStatusFromEvent[events[i].kind]
                          /\ \A j \in 1..n : events[j] \in EndClass(r) => j <= i

\* The summaries agree with the store.
LEMMA RunsTell ==
    ASSUME WellOrdered, TypeOK, RunsKnown, HistoryInv
    PROVE  RunHistoryAgrees
  \* The summaries exist, for however many records.
  <1>SummariesExist.
      ASSUME NEW r, NEW n \in Nat
      PROVE  \E h : Summaries(h, n, r)
    <2> DEFINE T == {m \in Nat : ~\E h : Summaries(h, m, r)}
    <2>1. SUFFICES ASSUME T # {} PROVE FALSE
      OBVIOUS
    <2>2. PICK m \in T : \A k \in T : m <= k
      BY <2>1 DEF WellOrdered
    <2>3. m \in Nat /\ ~\E h : Summaries(h, m, r)
      OBVIOUS
    <2>4. CASE m = 0
      <3> DEFINE f == [k \in 0..0 |-> NewTimeline]
      <3>1. Summaries(f, 0, r)
        BY SMT DEF Summaries
      <3> QED
        BY <2>3, <2>4, <3>1
    <2>5. CASE m # 0
      <3>1. m - 1 \in Nat /\ ~(m <= m - 1)
        BY <2>3, <2>5, SMT
      <3>2. PICK h : Summaries(h, m - 1, r)
        BY <2>2, <3>1
      <3> DEFINE new == IF events[m].run = r THEN ApplyRunProjection(h[m - 1], events[m]) ELSE h[m - 1]
                 f == [k \in 0..m |-> IF k = m THEN new ELSE h[k]]
      <3>3. \A k \in 0..(m - 1) :
              h[k] = IF k = 0 THEN NewTimeline
                     ELSE IF events[k].run = r THEN ApplyRunProjection(h[k - 1], events[k])
                     ELSE h[k - 1]
        BY <3>2 DEF Summaries
      <3> HIDE DEF new
      <3>4. ASSUME NEW k \in 0..m
            PROVE  f[k] = IF k = 0 THEN NewTimeline
                          ELSE IF events[k].run = r THEN ApplyRunProjection(f[k - 1], events[k])
                          ELSE f[k - 1]
        <4>1. CASE k = m
          <5>1. f[m] = new /\ f[m - 1] = h[m - 1]
            BY <2>3, <2>5, SMT
          <5> QED
            BY <2>5, <4>1, <5>1 DEF new
        <4>2. CASE k # m /\ k # 0
          <5>1. k \in 0..(m - 1) /\ k - 1 \in 0..m /\ k - 1 # m
            BY <2>3, <4>2, SMT
          <5>2. f[k] = h[k] /\ f[k - 1] = h[k - 1]
            BY <4>2, <5>1
          <5> QED
            BY <3>3, <4>2, <5>1, <5>2
        <4>3. CASE k = 0
          <5>1. 0 \in 0..(m - 1) /\ f[0] = h[0]
            BY <2>3, <2>5, SMT
          <5> QED
            BY <3>3, <4>3, <5>1
        <4> QED
          BY <4>1, <4>2, <4>3
      <3>5. f = [k \in 0..m |-> f[k]]
        OBVIOUS
      <3> HIDE DEF f
      <3>6. Summaries(f, m, r)
        BY <3>4, <3>5 DEF Summaries
      <3> QED
        BY <2>3, <3>6
    <2> QED
      BY <2>4, <2>5

  \* One more record.
  <1>SummaryGrows.
      ASSUME NEW r, NEW m \in Nat \ {0}, NEW x, NEW y, SummaryIs(x, m - 1, r),
             events[m] \in EventRecord,
             y = IF events[m].run = r THEN ApplyRunProjection(x, events[m]) ELSE x
      PROVE  SummaryIs(y, m, r)
    <2> USE <1>SummaryGrows
    <2> DEFINE e == events[m]
    <2>1. /\ m \in 1..m /\ \A i \in 1..(m - 1) : i \in 1..m
          /\ \A i \in 1..m : i <= m /\ (i \in 1..(m - 1) \/ i = m)
      BY SMT
    <2>2. e.attempt \in Nat /\ (e.attempt > 0 <=> e.attempt # 0)
      BY SMT DEF EventRecord
    <2>3. e \in EndClass(r) <=> e.run = r /\ e.kind \in DOMAIN RunStatusFromEvent
      BY DEF EndClass
    <2>4. CASE e.run # r
      <3>1. y = x /\ e \notin EndClass(r)
        BY <2>3, <2>4
      <3>2. \/ y.worker = NoWorker /\ \A i \in 1..m : events[i].run = r => events[i].worker = NoWorker
            \/ \E i \in 1..m : events[i].run = r /\ events[i].worker = y.worker /\ y.worker # NoWorker
        BY <2>1, <2>4, <3>1 DEF SummaryIs
      <3>3. \/ y.attempt = 0 /\ \A i \in 1..m : events[i].run = r => events[i].attempt = 0
            \/ \E i \in 1..m : events[i].run = r /\ events[i].attempt = y.attempt /\ y.attempt # 0
        BY <2>1, <2>4, <3>1 DEF SummaryIs
      <3>4. \/ y.status = "running" /\ \A i \in 1..m : events[i] \notin EndClass(r)
            \/ \E i \in 1..m : /\ events[i] \in EndClass(r)
                               /\ y.status = RunStatusFromEvent[events[i].kind]
                               /\ \A j \in 1..m : events[j] \in EndClass(r) => j <= i
        BY <2>1, <3>1 DEF SummaryIs
      <3> QED
        BY <3>2, <3>3, <3>4 DEF SummaryIs
    <2>5. CASE e.run = r
      <3>1. /\ y.worker = IF x.worker = NoWorker THEN e.worker ELSE x.worker
            /\ y.attempt = IF e.attempt > 0 THEN e.attempt ELSE x.attempt
            /\ y.status = IF e.kind \in DOMAIN RunStatusFromEvent
                          THEN RunStatusFromEvent[e.kind] ELSE x.status
        BY <2>5 DEF ApplyRunProjection
      <3>2. \/ y.worker = NoWorker /\ \A i \in 1..m : events[i].run = r => events[i].worker = NoWorker
            \/ \E i \in 1..m : events[i].run = r /\ events[i].worker = y.worker /\ y.worker # NoWorker
        <4>1. CASE x.worker = NoWorker
          <5>1. \A i \in 1..(m - 1) : events[i].run = r => events[i].worker = NoWorker
            BY <4>1 DEF SummaryIs
          <5> QED
            BY <2>1, <2>5, <3>1, <4>1, <5>1
        <4>2. CASE x.worker # NoWorker
          BY <2>1, <3>1, <4>2 DEF SummaryIs
        <4> QED
          BY <4>1, <4>2
      <3>3. \/ y.attempt = 0 /\ \A i \in 1..m : events[i].run = r => events[i].attempt = 0
            \/ \E i \in 1..m : events[i].run = r /\ events[i].attempt = y.attempt /\ y.attempt # 0
        <4>1. CASE e.attempt # 0
          BY <2>1, <2>2, <2>5, <3>1, <4>1
        <4>2. CASE e.attempt = 0
          <5>1. y.attempt = x.attempt
            BY <2>2, <3>1, <4>2
          <5> QED
            BY <2>1, <4>2, <5>1 DEF SummaryIs
        <4> QED
          BY <4>1, <4>2
      <3>4. \/ y.status = "running" /\ \A i \in 1..m : events[i] \notin EndClass(r)
            \/ \E i \in 1..m : /\ events[i] \in EndClass(r)
                               /\ y.status = RunStatusFromEvent[events[i].kind]
                               /\ \A j \in 1..m : events[j] \in EndClass(r) => j <= i
        <4>1. CASE e \in EndClass(r)
          BY <2>1, <2>3, <3>1, <4>1
        <4>2. CASE e \notin EndClass(r)
          <5>1. y.status = x.status
            BY <2>3, <2>5, <3>1, <4>2
          <5> QED
            BY <2>1, <4>2, <5>1 DEF SummaryIs
        <4> QED
          BY <4>1, <4>2
      <3> QED
        BY <3>2, <3>3, <3>4 DEF SummaryIs
    <2> QED
      BY <2>4, <2>5

  \* What GetRun returns for a run: the worker and the attempt of a record of the
  \* run that names one, and the status the last record that ends it tells.
  <1>GetRunSays.
      ASSUME NEW r, \A i \in 1..Len(events) : events[i] \in EventRecord, Len(events) \in Nat
      PROVE  SummaryIs(GetRun(r), Len(events), r)
    <2> USE <1>GetRunSays
    <2> DEFINE n == Len(events)
               after == CHOOSE h : Summaries(h, n, r)
    <2>1. Summaries(after, n, r)
      BY <1>SummariesExist
    <2>2. GetRun(r) = after[n]
      BY SMT DEF GetRun, Summaries
    <2> HIDE DEF after
    <2>3. \A m \in 0..n :
            after[m] = IF m = 0 THEN NewTimeline
                       ELSE IF events[m].run = r THEN ApplyRunProjection(after[m - 1], events[m])
                       ELSE after[m - 1]
      BY <2>1 DEF Summaries
    <2>4. SUFFICES ASSUME ~SummaryIs(after[n], n, r) PROVE FALSE
      BY <2>2
    <2> DEFINE T == {m \in 0..n : ~SummaryIs(after[m], m, r)}
    <2>5. T \in SUBSET Nat /\ n \in T
      BY <2>4, SMT
    <2>6. PICK m \in T : \A k \in T : m <= k
      BY <2>5 DEF WellOrdered
    <2>7. m \in 0..n /\ ~SummaryIs(after[m], m, r)
      OBVIOUS
    <2>8. CASE m = 0
      <3>1. after[0] = NewTimeline /\ \A i \in 1..0 : FALSE
        BY <2>3, <2>7, <2>8, SMT
      <3>2. /\ NewTimeline.worker = NoWorker /\ NewTimeline.attempt = 0
            /\ NewTimeline.status = "running"
        BY DEF NewTimeline
      <3>3. SummaryIs(NewTimeline, 0, r)
        BY <3>1, <3>2 DEF SummaryIs
      <3> QED
        BY <2>7, <2>8, <3>1, <3>3
    <2>9. CASE m # 0
      <3>1. m - 1 \in 0..n /\ ~(m <= m - 1) /\ m \in Nat \ {0} /\ m \in 1..n
        BY <2>7, <2>9, SMT
      <3>2. SummaryIs(after[m - 1], m - 1, r)
        BY <2>6, <3>1
      <3>3. after[m] = IF events[m].run = r THEN ApplyRunProjection(after[m - 1], events[m])
                       ELSE after[m - 1]
        BY <2>3, <2>7, <2>9
      <3> QED
        BY <2>7, <3>1, <3>2, <3>3, <1>SummaryGrows
    <2> QED
      BY <2>8, <2>9

  <1> SUFFICES ASSUME NEW c \in claims
               PROVE  /\ GetRun(c.run).worker = c.worker /\ GetRun(c.run).attempt = c.attempt
                      /\ tasks[c.task].run.id = c.run =>
                            \/ GetRun(c.run).status = tasks[c.task].status
                            \/ /\ tasks[c.task].status = "completed" /\ Exhausted(c.task)
                               /\ GetRun(c.run).status = "failed"
    BY DEF RunHistoryAgrees
  <1> DEFINE x == GetRun(c.run)
             n == Len(events)
  <1>1. n \in Nat /\ \A i \in 1..n : events[i] \in EventRecord
    BY SMT DEF HistoryInv
  <1>2. SummaryIs(x, n, c.run)
    BY <1>1, <1>GetRunSays
  <1> HIDE DEF x
  <1>3. c.worker # NoWorker /\ c.attempt # 0
    <2>1. c.worker \in Worker /\ c.attempt >= 1
      BY DEF TypeOK, Claim, RunsKnown
    <2>2. c.attempt # 0
      BY <2>1, SMT
    <2> QED
      BY <2>1, <2>2, StoreConstants
  <1>4. PICK s \in 1..n : StartOf(events[s], c)
    BY DEF HistoryInv
  <1>5. \A i \in 1..n : events[i].run = c.run =>
          events[i].worker \in {c.worker, NoWorker} /\ events[i].attempt \in {0, c.attempt}
    BY DEF HistoryInv, Filed
  <1>6. x.worker = c.worker
    BY <1>2, <1>3, <1>4, <1>5 DEF SummaryIs, StartOf
  <1>7. x.attempt = c.attempt
    BY <1>2, <1>3, <1>4, <1>5 DEF SummaryIs, StartOf
  <1>8. ASSUME tasks[c.task].run.id = c.run
        PROVE  \/ x.status = tasks[c.task].status
               \/ tasks[c.task].status = "completed" /\ Exhausted(c.task) /\ x.status = "failed"
    <2>1. EndTold(events, c)
      BY <1>8 DEF HistoryInv
    <2>2. CASE NoneOf(events, EndClass(c.run)) /\ tasks[c.task].status = "running"
      BY <1>2, <2>2 DEF SummaryIs, NoneOf
    <2>3. ASSUME NEW e \in EventRecord, LastOf(events, e, EndClass(c.run)),
                 Says(e.kind, c.task, RunStatusFromEvent)
          PROVE  \/ x.status = tasks[c.task].status
                 \/ tasks[c.task].status = "completed" /\ Exhausted(c.task) /\ x.status = "failed"
      <3>1. PICK k \in 1..n : /\ events[k] = e /\ e \in EndClass(c.run)
                              /\ \A j \in 1..n : events[j] \in EndClass(c.run) =>
                                                      j <= k \/ events[j] = e
        BY <2>3 DEF LastOf
      <3>2. PICK i \in 1..n : /\ events[i] \in EndClass(c.run)
                              /\ x.status = RunStatusFromEvent[events[i].kind]
                              /\ \A j \in 1..n : events[j] \in EndClass(c.run) => j <= i
        BY <1>2, <3>1 DEF SummaryIs
      <3>3. k <= i /\ (i <= k \/ events[i] = e)
        BY <3>1, <3>2
      <3>4. i = k \/ events[i] = e
        BY <1>1, <3>3, SMT
      <3>5. x.status = RunStatusFromEvent[e.kind]
        BY <3>1, <3>2, <3>4
      <3> QED
        BY <2>3, <3>5, Kinds DEF Says
    <2> QED
      BY <2>1, <2>2, <2>3 DEF EndTold
  <1> QED
    BY <1>6, <1>7, <1>8 DEF x

-----------------------------------------------------------------------------
(* Every transaction preserves the core. *)

\* linkTaskDependenciesTx, like its counterpart, touches nothing but lists.
LEMMA LinkedTxFields ==
    ASSUME TypeOK, LinksExist, NEW t \in TaskId, NEW B \in SUBSET TaskId, NEW D \in SUBSET TaskId,
           UpdateTaskTx(t, B, D)
    PROVE  /\ tasks' = [x \in TaskId |-> tasks'[x]]
           /\ \A x \in TaskId :
                /\ tasks'[x] \in Task
                /\ tasks'[x].status = tasks[x].status /\ tasks'[x].attempt = tasks[x].attempt
                /\ tasks'[x].maxAttempts = tasks[x].maxAttempts /\ tasks'[x].run = tasks[x].run
                /\ tasks[x].status = "absent" => tasks'[x] = tasks[x]
           /\ LinksExist'
           /\ UNCHANGED <<leases, artifacts, nextTask, nextRun, nextLease, claims>>
  <1> DEFINE bl == tasks[t].blocks \cup B
             bb == tasks[t].blockedBy \cup D
             L == Linked(tasks, t, bl, bb)
             own == [L[t] EXCEPT !.blocks = bl, !.blockedBy = bb]
  <1>1. /\ tasks \in [TaskId -> Task] /\ tasks[t].status # "absent"
        /\ UNCHANGED <<leases, artifacts, nextTask, nextRun, nextLease, claims>>
        /\ bl \in SUBSET TaskId /\ bb \in SUBSET TaskId
    BY DEF TypeOK, UpdateTaskTx, Task, Exists
  <1>a. tasks' = LinkedTx(tasks, t, bl, bb)
    BY DEF UpdateTaskTx
  <1>2. \A x \in bl \cup bb : tasks[x].status # "absent"
    BY <1>1 DEF UpdateTaskTx, KnownTasks, LinksExist, Exists
  <1> HIDE DEF bl, bb
  <1>3. LinkOf(L, tasks, t, bl, bb)
    BY <1>1, LinkedFields
  <1>4. \A x \in TaskId : \A u \in L[x].blocks \cup L[x].blockedBy : L[u].status # "absent"
    BY <1>1, <1>2, LinkedExist DEF LinksExist, Exists
  <1> HIDE DEF L
  <1>5. L = [x \in TaskId |-> L[x]] /\ \A x \in TaskId : L[x] \in Task
    BY <1>3 DEF LinkOf
  <1>6. /\ own \in Task /\ own.status = L[t].status /\ own.attempt = L[t].attempt
        /\ own.maxAttempts = L[t].maxAttempts /\ own.run = L[t].run
        /\ own.blocks = bl /\ own.blockedBy = bb
    <2>1. L[t] \in Task
      BY <1>5
    <2>2. bl \in SUBSET TaskId /\ bb \in SUBSET TaskId
      BY <1>1
    <2>3. own = [L[t] EXCEPT !.blocks = bl, !.blockedBy = bb]
      OBVIOUS
    <2> HIDE DEF own
    <2>4. ASSUME NEW x \in Task, NEW P \in SUBSET TaskId, NEW Q \in SUBSET TaskId,
                 own = [x EXCEPT !.blocks = P, !.blockedBy = Q]
          PROVE  /\ own \in Task /\ own.status = x.status /\ own.attempt = x.attempt
                 /\ own.maxAttempts = x.maxAttempts /\ own.run = x.run
                 /\ own.blocks = P /\ own.blockedBy = Q
      BY <2>4 DEF Task
    <2> QED
      BY <2>1, <2>2, <2>3, <2>4
  <1> HIDE DEF own
  <1>b. tasks' = [L EXCEPT ![t] = own]
    BY <1>a DEF LinkedTx, L, own
  <1>7. tasks'[t] = own /\ \A x \in TaskId \ {t} : tasks'[x] = L[x]
    BY <1>b, <1>5
  <1>8. tasks' = [x \in TaskId |-> tasks'[x]]
    BY <1>b, <1>5
  <1>9. ASSUME NEW x \in TaskId
        PROVE  /\ tasks'[x] \in Task
               /\ tasks'[x].status = tasks[x].status /\ tasks'[x].attempt = tasks[x].attempt
               /\ tasks'[x].maxAttempts = tasks[x].maxAttempts /\ tasks'[x].run = tasks[x].run
               /\ tasks[x].status = "absent" => tasks'[x] = tasks[x]
    <2>1. /\ L[x].status = tasks[x].status /\ L[x].attempt = tasks[x].attempt
          /\ L[x].maxAttempts = tasks[x].maxAttempts /\ L[x].run = tasks[x].run
          /\ tasks[x].status = "absent" => L[x] = tasks[x]
      BY <1>3 DEF LinkOf
    <2>2. CASE x = t
      BY <1>1, <1>6, <1>7, <2>1, <2>2
    <2>3. CASE x # t
      BY <1>5, <1>7, <2>1, <2>3
    <2> QED
      BY <2>2, <2>3
  <1>10. LinksExist'
    <2>1. ASSUME NEW x \in TaskId, NEW u \in tasks'[x].blocks \cup tasks'[x].blockedBy
          PROVE  tasks'[u].status # "absent"
      <3>1. u \in TaskId
        BY <1>9, <2>1 DEF Task
      <3>2. tasks'[u].status = tasks[u].status /\ L[u].status = tasks[u].status
        BY <1>3, <1>9, <3>1 DEF LinkOf
      <3>3. CASE x = t
        BY <1>2, <1>6, <1>7, <2>1, <3>2, <3>3
      <3>4. CASE x # t
        BY <1>4, <1>7, <2>1, <3>2, <3>4
      <3> QED
        BY <3>3, <3>4
    <2> QED
      BY <2>1 DEF LinksExist, Exists
  <1> QED
    BY <1>1, <1>8, <1>9, <1>10

\* What a claim finds exhausted on its way: the tasks in `spent' fail, the
\* others of `reported' had ended before.
Met(spent, reported) ==
    /\ reported \subseteq TaskId /\ spent \subseteq reported
    /\ \A u \in spent : tasks[u].status \notin {"absent", "completed"}
    /\ \A u \in reported \ spent : tasks[u].status \in {"completed", "failed"} /\ Exhausted(u)

\* A claim rejects everything or grants a task that is ready.
Rejected ==
    \E spent, reported \in SUBSET TaskId : Met(spent, reported) /\ RejectTx(spent, reported)
Granted ==
    \E t \in TaskId, w \in Worker, ttl \in TTLs, now \in Time, spent, reported \in SUBSET TaskId :
        /\ tasks[t].status \in {"pending", "running"} /\ ~Exhausted(t) /\ ~Blocked(t)
        /\ Met(spent, reported) /\ t \notin reported
        /\ GrantTx(t, w, ttl, now, spent, reported)

\* What is reported as exhausted is given up or has ended.
LEMMA ReportedMet ==
    ASSUME NEW S \in SUBSET TaskId, NEW skip \in SUBSET TaskId, NEW now \in Time
    PROVE  Met({u \in S : GivenUp(u, skip, now)}, {u \in S : ReportedExhausted(u, skip, now)})
  <1> DEFINE G == {u \in S : GivenUp(u, skip, now)}
             R == {u \in S : ReportedExhausted(u, skip, now)}
  <1>1. \A u \in S : GivenUp(u, skip, now) =>
            ReportedExhausted(u, skip, now) /\ tasks[u].status \notin {"absent", "completed"}
    BY DEF GivenUp, ReportedExhausted, Exists
  <1>2. \A u \in S : ReportedExhausted(u, skip, now) /\ ~GivenUp(u, skip, now) =>
            tasks[u].status \in {"completed", "failed"} /\ Exhausted(u)
    BY DEF GivenUp, ReportedExhausted, Exists
  <1>3. R \subseteq TaskId /\ G \subseteq R /\ \A u \in G : tasks[u].status \notin {"absent", "completed"}
    BY <1>1
  <1>4. \A u \in R \ G : tasks[u].status \in {"completed", "failed"} /\ Exhausted(u)
    BY <1>2
  <1> HIDE DEF G, R
  <1>5. Met(G, R)
    BY <1>3, <1>4 DEF Met
  <1> QED
    BY <1>5 DEF G, R

\* ClaimTask rejects or grants.
LEMMA ClaimTaskMade ==
    ASSUME NEW t \in TaskId, NEW w \in Worker, NEW ttl \in TTLs, NEW now \in Time,
           NEW skip \in SUBSET TaskId, ClaimTaskTx(t, w, ttl, now, skip)
    PROVE  Rejected \/ Granted
  <1>1. CASE Claimable(t, skip, now) /\ GrantTx(t, w, ttl, now, {}, {})
    <2>1. Met({}, {})
      BY DEF Met
    <2>2. tasks[t].status \in {"pending", "running"} /\ ~Exhausted(t) /\ ~Blocked(t)
      BY <1>1 DEF Claimable, PassedOver
    <2>3. {} \in SUBSET TaskId /\ t \notin {}
      OBVIOUS
    <2> QED
      BY <1>1, <2>1, <2>2, <2>3 DEF Granted
  <1>2. CASE ReportedExhausted(t, skip, now) /\ RejectTx(IF GivenUp(t, skip, now) THEN {t} ELSE {}, {t})
    <2> DEFINE G == IF GivenUp(t, skip, now) THEN {t} ELSE {}
    <2>1. {t} \in SUBSET TaskId
      OBVIOUS
    <2>2. {u \in {t} : GivenUp(u, skip, now)} = G /\ {u \in {t} : ReportedExhausted(u, skip, now)} = {t}
      BY <1>2
    <2>3. Met(G, {t}) /\ RejectTx(G, {t}) /\ G \in SUBSET TaskId
      BY <1>2, <2>1, <2>2, ReportedMet
    <2> HIDE DEF G
    <2> QED
      BY <2>1, <2>3 DEF Rejected
  <1> QED
    BY <1>1, <1>2 DEF ClaimTaskTx

\* So does ClaimReadyTask.
LEMMA ClaimReadyTaskMade ==
    ASSUME NEW w \in Worker, NEW ttl \in TTLs, NEW now \in Time,
           NEW skip \in SUBSET TaskId, ClaimReadyTaskTx(w, ttl, now, skip)
    PROVE  Rejected \/ Granted
  <1> DEFINE ready == {t \in TaskId : Claimable(t, skip, now)}
             spent == {t \in TaskId : GivenUp(t, skip, now)}
             reported == {t \in TaskId : ReportedExhausted(t, skip, now)}
  <1>1. ASSUME NEW t \in ready,
               GrantTx(t, w, ttl, now, {u \in spent : u < t}, {u \in reported : u < t})
        PROVE  Granted
    <2> DEFINE S == {u \in TaskId : u < t}
               G == {u \in S : GivenUp(u, skip, now)}
               R == {u \in S : ReportedExhausted(u, skip, now)}
    <2>1. S \in SUBSET TaskId /\ G \in SUBSET TaskId /\ R \in SUBSET TaskId
      OBVIOUS
    <2>2. {u \in spent : u < t} = G /\ {u \in reported : u < t} = R
      OBVIOUS
    <2>3. GrantTx(t, w, ttl, now, G, R) /\ t \in TaskId
      BY <1>1, <2>2
    <2>4. tasks[t].status \in {"pending", "running"} /\ ~Exhausted(t) /\ ~Blocked(t)
      BY DEF Claimable, PassedOver
    <2>5. t \notin R
      BY <2>4 DEF ReportedExhausted
    <2>6. Met(G, R)
      BY <2>1, ReportedMet
    <2> HIDE DEF S, G, R
    <2> QED
      BY <2>1, <2>3, <2>4, <2>5, <2>6 DEF Granted
  <1>2. CASE RejectTx(spent, reported)
    <2>1. Met(spent, reported) /\ spent \in SUBSET TaskId /\ reported \in SUBSET TaskId
      BY ReportedMet
    <2> HIDE DEF spent, reported
    <2> QED
      BY <1>2, <2>1 DEF Rejected
  <1> QED
    BY <1>1, <1>2 DEF ClaimReadyTaskTx

\* The dependencies a call adds are tasks.
LEMMA LinksAre ==
    ASSUME NEW link \in Links
    PROVE  link.blocks \in SUBSET TaskId /\ link.blockedBy \in SUBSET TaskId
  <1>1. \/ link = [blocks |-> {}, blockedBy |-> {}]
        \/ \E t \in TaskId : link = [blocks |-> {t}, blockedBy |-> {}]
        \/ \E t \in TaskId : link = [blocks |-> {}, blockedBy |-> {t}]
    BY DEF Links
  <1> QED
    BY <1>1, SMT

\* Linking that leaves self links one-sided: the one transaction that is no
\* step of the memory store.
LinkTx == \E t \in TaskId, B, D \in SUBSET TaskId : UpdateTaskTx(t, B, D)

\* Apart from linking every transaction on tasks is a step of the memory store
\* or a claim with its reports.
LEMMA TaskTxKinds ==
    ASSUME CoreInv, TaskTx
    PROVE  StopStep \/ GrantStep \/ EditStep \/ LinkTx
  \* A claim that grants nothing stops the tasks it gives up.
  <1>RejectStops.
      ASSUME Rejected
      PROVE  StopStep
    <2> USE <1>RejectStops
    <2>1. PICK spent \in SUBSET TaskId, reported \in SUBSET TaskId :
              Met(spent, reported) /\ RejectTx(spent, reported)
      BY DEF Rejected
    <2>2. /\ tasks' = TasksGivenUp(spent) /\ leases' = LeasesGivenUp(spent)
          /\ UNCHANGED <<artifacts, nextTask, nextRun, nextLease, claims>>
      BY <2>1 DEF RejectTx
    <2>3. \A t \in TaskId \ spent : Stays(t)
      BY <2>2 DEF Stays, TasksGivenUp, LeasesGivenUp
    <2>4. ASSUME NEW t \in spent PROVE Stops(t)
      <3>1. tasks'[t] = [tasks[t] EXCEPT !.status = "failed"] /\ leases'[t] = NoLease
        BY <2>2 DEF TasksGivenUp, LeasesGivenUp
      <3>2. tasks[t].status \notin {"absent", "completed"} /\ t \in TaskId
        BY <2>1 DEF Met
      <3> QED
        BY <3>1, <3>2, StatusStops DEF CoreInv
    <2>5. tasks' = [t \in TaskId |-> tasks'[t]] /\ leases' = [t \in TaskId |-> leases'[t]]
      BY <2>2 DEF TasksGivenUp, LeasesGivenUp
    <2> QED
      BY <2>2, <2>3, <2>4, <2>5 DEF StopStep

  \* A claim that grants is a granting step.
  <1>GrantedKind.
      ASSUME Granted
      PROVE  GrantStep
    <2> USE <1>GrantedKind
    <2>1. PICK t \in TaskId, w \in Worker, ttl \in TTLs, now \in Time, spent \in SUBSET TaskId,
               reported \in SUBSET TaskId :
            /\ tasks[t].status \in {"pending", "running"} /\ ~Exhausted(t) /\ ~Blocked(t)
            /\ Met(spent, reported) /\ t \notin reported
            /\ GrantTx(t, w, ttl, now, spent, reported)
      BY DEF Granted
    <2>2. Grant(t, w, ttl, now, spent)
      BY <2>1 DEF GrantTx
    <2>3. t \notin spent /\ \A u \in spent : tasks[u].status \notin {"absent", "completed"}
      BY <2>1 DEF Met
    <2> QED
      BY <2>1, <2>2, <2>3 DEF GrantStep

  <1>1. \A c \in claims : c.task \in TaskId /\ c.token \in Nat
    BY DEF CoreInv, TypeOK, Claim
  <1>2. ASSUME NEW link \in Links, NEW limit \in AttemptLimits,
               CreateTaskTx(link.blocks, link.blockedBy, limit)
        PROVE  EditStep
    BY <1>2, LinksAre DEF CreateTaskTx, EditStep
  <1>3. ASSUME NEW link \in Links, NEW t \in TaskId, UpdateTaskTx(t, link.blocks, link.blockedBy)
        PROVE  LinkTx
    BY <1>3, LinksAre DEF LinkTx
  <1>4. ASSUME NEW t \in TaskId, DeleteTaskTx(t) \/ CreateArtifactTx(t) PROVE EditStep
    BY <1>4 DEF DeleteTaskTx, CreateArtifactTx, EditStep
  <1>5. ASSUME NEW t \in TaskId, RetryTaskTx(t) PROVE StopStep
    BY <1>5, RetryTaskStops DEF RetryTaskTx
  <1>6. ASSUME Rejected \/ Granted PROVE StopStep \/ GrantStep
    BY <1>6, <1>RejectStops, <1>GrantedKind
  <1>7. ASSUME NEW c \in claims, NEW now \in Time, NEW emits \in BOOLEAN,
               CompleteTaskTx(c.task, c.token, emits, now)
        PROVE  StopStep
    BY <1>1, <1>7, CompleteTaskStops DEF CompleteTaskTx
  <1>8. ASSUME NEW c \in claims, NEW now \in Time, NEW retryable \in BOOLEAN,
               FailTaskTx(c.task, c.token, retryable, now)
        PROVE  StopStep
    <2>1. FailTask(c.task, c.token, retryable, now)
      BY <1>8 DEF FailTaskTx
    <2> QED
      BY <1>1, <2>1, FailTaskStops, SMTT(30)
  <1>9. ASSUME NEW c \in claims, NEW now \in Time, NEW ttl \in TTLs,
               RenewLeaseTx(c.task, c.token, ttl, now)
        PROVE  EditStep
    BY <1>1, <1>9 DEF RenewLeaseTx, EditStep
  <1>10. ASSUME NEW t \in TaskId, NEW token, NEW now \in Time, CancelTaskTx(t, token, now)
         PROVE  StopStep
    BY <1>10, CancelTaskStops DEF CancelTaskTx
  <1>11. ASSUME NEW c \in claims, ReleaseLeaseTx(c.task, c.token) PROVE StopStep
    BY <1>1, <1>11, ReleaseLeaseStops DEF ReleaseLeaseTx
  <1>12. ASSUME NEW S \in SUBSET TaskId, NEW now \in Time, RecoverLeasesTx(S, now) PROVE StopStep
    BY <1>12, RecoverLeasesStops DEF RecoverLeasesTx
  <1>13. \A S \in {TaskId} \cup {{t} : t \in TaskId} : S \in SUBSET TaskId
    OBVIOUS
  <1> QED
    BY <1>1, <1>2, <1>3, <1>4, <1>5, <1>6, <1>7, <1>8, <1>9, <1>10, <1>11, <1>12, <1>13,
       ClaimTaskMade, ClaimReadyTaskMade, ZenonT(40) DEF TaskTx

\* Linking preserves the core and leaves statuses, runs, leases and claims
\* alone.
LEMMA LinkTxKeeps ==
    ASSUME CoreInv, LinkTx
    PROVE  /\ CoreInv'
           /\ claims' = claims /\ leases' = leases
           /\ \A t \in TaskId : tasks'[t].status = tasks[t].status /\ tasks'[t].run = tasks[t].run
  <1> USE DEF CoreInv
  <1>0. PICK u \in TaskId, B \in SUBSET TaskId, D \in SUBSET TaskId : UpdateTaskTx(u, B, D)
    BY DEF LinkTx
  <1>1. /\ tasks' = [x \in TaskId |-> tasks'[x]]
        /\ \A x \in TaskId :
             /\ tasks'[x] \in Task
             /\ tasks'[x].status = tasks[x].status /\ tasks'[x].attempt = tasks[x].attempt
             /\ tasks'[x].maxAttempts = tasks[x].maxAttempts /\ tasks'[x].run = tasks[x].run
             /\ tasks[x].status = "absent" => tasks'[x] = tasks[x]
        /\ LinksExist'
        /\ UNCHANGED <<leases, artifacts, nextTask, nextRun, nextLease, claims>>
    BY <1>0, LinkedTxFields, ZenonT(40)
  <1>2. TypeOK'
    BY <1>1, SMTT(30) DEF TypeOK, Exists
  <1>3. RunningIffLeased' /\ AttemptsInBudget'
    BY <1>1, SMTT(30) DEF RunningIffLeased, HasLease, AttemptsInBudget
  <1>4. LeaseFencesRun' /\ BlockersStayCompleted'
    <2>1. \A c \in claims : c.task \in TaskId /\ c.blockedBy \subseteq TaskId
      BY DEF TypeOK, Claim
    <2> QED
      BY <1>1, <2>1, SMTT(30) DEF LeaseFencesRun, BlockersStayCompleted, Exists
  <1>5. OutcomesFromCompletingRun'
    <2>1. \A a \in artifacts : a.task \in TaskId
      BY DEF TypeOK, Artifact
    <2> QED
      BY <1>1, <2>1, SMTT(30) DEF OutcomesFromCompletingRun
  <1> QED
    BY <1>1, <1>2, <1>3, <1>4, <1>5

\* Every transaction on tasks preserves the core.
LEMMA TaskTxKeeps ==
    ASSUME CommandCore, TaskTx, UNCHANGED commandVars
    PROVE  CommandCore'
  <1>0. CoreInv /\ RunsWereClaimed
    BY DEF CommandCore
  <1>1. CoreInv' /\ claims \subseteq claims' /\ RunsWereClaimed'
    <2>1. CASE StopStep \/ GrantStep \/ EditStep
      BY <1>0, <2>1, CoreStep, StepClaims
    <2>2. CASE LinkTx
      <3>1. /\ CoreInv' /\ claims' = claims
            /\ \A t \in TaskId : tasks'[t].status = tasks[t].status /\ tasks'[t].run = tasks[t].run
        BY <1>0, <2>2, LinkTxKeeps
      <3>2. RunsWereClaimed'
        BY <1>0, <3>1, SMTT(30) DEF RunsWereClaimed
      <3> QED
        BY <3>1, <3>2
    <2> QED
      BY <1>0, <2>1, <2>2, TaskTxKinds
  <1>2. CommandTypeOK' /\ OnlyClaimantHandles'
    BY DEF CommandCore, commandVars, CommandTypeOK, OnlyClaimantHandles, ClaimHeld
  <1>3. AbortPinnedToItsRun'
    BY <1>1 DEF CommandCore, commandVars, AbortPinnedToItsRun
  <1> QED
    BY <1>1, <1>2, <1>3 DEF CommandCore

-----------------------------------------------------------------------------
(* Records of one transaction, as a set. *)

\* The records of sequence s are those of R.
Has(s, R) ==
    /\ s \in Seq(EventRecord)
    /\ \A i \in 1..Len(s) : s[i] \in R
    /\ \A e \in R : \E i \in 1..Len(s) : s[i] = e

LEMMA HasNothing == Has(<<>>, {})
  BY SMT DEF Has

LEMMA HasOne == ASSUME NEW e \in EventRecord PROVE Has(<<e>>, {e})
  BY SMT DEF Has

LEMMA HasConcat ==
    ASSUME NEW a, NEW A, NEW b, NEW B, Has(a, A), Has(b, B)
    PROVE  Has(a \o b, A \cup B)
  <1>1. a \in Seq(EventRecord) /\ b \in Seq(EventRecord)
    BY DEF Has
  <1> DEFINE c == a \o b
             n == Len(a)
             k == Len(b)
  <1>2. /\ c \in Seq(EventRecord) /\ Len(c) = n + k /\ n \in Nat /\ k \in Nat
        /\ \A i \in 1..n : c[i] = a[i]
        /\ \A i \in 1..k : c[n + i] = b[i]
    BY <1>1, ConcatAt
  <1>3. \A i \in 1..n : a[i] \in A
    BY DEF Has
  <1>4. \A i \in 1..k : b[i] \in B
    BY DEF Has
  <1>5. (\A e \in A : \E i \in 1..n : a[i] = e) /\ (\A e \in B : \E i \in 1..k : b[i] = e)
    BY DEF Has
  <1> HIDE DEF c, n, k
  <1>6. /\ \A j \in 1..(n + k) : j \in 1..n \/ \E i \in 1..k : j = n + i
        /\ \A i \in 1..n : i \in 1..(n + k)
        /\ \A i \in 1..k : n + i \in 1..(n + k)
    BY <1>2, SMT
  <1>7. \A j \in 1..(n + k) : c[j] \in A \cup B
    BY <1>2, <1>3, <1>4, <1>6
  <1>8. \A e \in A \cup B : \E j \in 1..(n + k) : c[j] = e
    BY <1>2, <1>5, <1>6, ZenonT(40)
  <1>9. Has(c, A \cup B)
    BY <1>2, <1>7, <1>8 DEF Has
  <1> QED
    BY <1>9 DEF c

\* A listing of a set of records has them, each in one place.
LEMMA HasListing ==
    ASSUME NEW R \in SUBSET EventRecord, NEW s \in Listings(R)
    PROVE  Has(s, R)
  <1>1. PICK n \in 0..Cardinality(R) : s \in Bijection(1..n, R)
    BY DEF Listings
  <1>2. n \in Nat
    BY <1>1, SMT
  <1>3. s \in [1..n -> R] /\ \A e \in R : \E i \in 1..n : s[i] = e
    BY <1>1 DEF Bijection, Injection, Surjection
  <1>4. s \in Seq(EventRecord) /\ Len(s) = n
    BY <1>2, <1>3, SMT
  <1> QED
    BY <1>3, <1>4 DEF Has

\* Classes, seen on the set.
LEMMA HasNoneOf ==
    ASSUME NEW s, NEW R, NEW C, Has(s, R), \A e \in R : e \notin C
    PROVE  NoneOf(s, C)
  BY DEF Has, NoneOf

LEMMA HasLastOf ==
    ASSUME NEW s, NEW R, NEW C, Has(s, R), NEW e \in R, e \in C, \A f \in R : f \in C => f = e
    PROVE  LastOf(s, e, C)
  BY OnlyIsLast DEF Has

-----------------------------------------------------------------------------
(* Records that are filed under a task. *)

\* A kind that tells a status or the end of a run.
Telling(kind) == kind \in DOMAIN StatusAfter \/ kind \in DOMAIN RunStatusFromEvent

\* A step is told by the records it appends.
Told == \E rs : StepTold(rs)

\* The record is filed under a task and, if under a run, under the task's.
OwnRecord(e) ==
    /\ e \in EventRecord /\ e.task \in TaskId /\ e.command = 0
    /\ \/ e.run = 0
       \/ /\ e.run = tasks[e.task].run.id
          /\ e.worker \in {tasks[e.task].run.worker, NoWorker}
          /\ e.attempt \in {tasks[e.task].attempt, 0}

\* The kinds of the records below.
LEMMA KindsOfRecords ==
    /\ "task_created" \in EventKind /\ "task_updated" \in EventKind /\ "task_deleted" \in EventKind
    /\ "task_claimed" \in EventKind /\ "task_completed" \in EventKind /\ "task_failed" \in EventKind
    /\ "task_canceled" \in EventKind /\ "task_requeued" \in EventKind
    /\ "lease_renewed" \in EventKind /\ "lease_released" \in EventKind
    /\ "artifact_created" \in EventKind /\ "command_created" \in EventKind
    /\ "command_claimed" \in EventKind /\ "command_released" \in EventKind
    /\ "command_handled" \in EventKind
  BY SMT DEF EventKind

\* The records the methods write.
LEMMA TaskRecordIs ==
    ASSUME NEW t \in TaskId, NEW kind \in EventKind
    PROVE  /\ OwnRecord(TaskRecord(kind, t)) /\ TaskRecord(kind, t).kind = kind
           /\ TaskRecord(kind, t).task = t
  <1>1. t \in Nat
    BY SMT DEF TaskId
  <1> QED
    BY <1>1 DEF TaskRecord, Record, OwnRecord, EventRecord

LEMMA RunRecordIs ==
    ASSUME TypeOK, NEW t \in TaskId, NEW kind \in EventKind
    PROVE  /\ OwnRecord(RunRecord(kind, t)) /\ RunRecord(kind, t).kind = kind
           /\ RunRecord(kind, t).task = t /\ RunRecord(kind, t).run = tasks[t].run.id
  <1>1. t \in Nat
    BY SMT DEF TaskId
  <1>2. tasks[t].run.id \in Nat /\ tasks[t].attempt \in Nat
    BY DEF TypeOK, Task, RunRef
  <1> QED
    BY <1>1, <1>2 DEF RunRecord, Record, OwnRecord, EventRecord

LEMMA LeaseRecordIs ==
    ASSUME TypeOK, RunningIffLeased, NEW t \in TaskId, NEW kind \in EventKind
    PROVE  /\ OwnRecord(LeaseRecord(kind, t)) /\ LeaseRecord(kind, t).kind = kind
           /\ LeaseRecord(kind, t).task = t /\ LeaseRecord(kind, t).run = tasks[t].run.id
  <1>1. t \in Nat
    BY SMT DEF TaskId
  <1>2. tasks[t].run.id \in Nat /\ tasks[t].run.worker \in Worker \cup {NoWorker}
    BY DEF TypeOK, Task, RunRef
  <1>3. leases[t].worker \in {tasks[t].run.worker, NoWorker}
    BY DEF RunningIffLeased
  <1>4. leases[t].worker \in Worker \cup {NoWorker}
    BY <1>2, <1>3
  <1>5. LeaseRecord(kind, t) \in EventRecord
    BY <1>1, <1>2, <1>4 DEF LeaseRecord, Record, EventRecord
  <1> QED
    BY <1>3, <1>5 DEF LeaseRecord, Record, OwnRecord

-----------------------------------------------------------------------------
(* The transactions on tasks. *)

\* Every transaction on tasks is told by its records.
LEMMA TaskTxTold ==
    ASSUME CoreInv, CoreInv', RunsKnown, TaskTx, UNCHANGED commandVars
    PROVE  Told
  <1>0. TypeOK /\ TypeOK' /\ RunningIffLeased
    BY DEF CoreInv
  <1> USE <1>0

  \* Two tasks never have one run.
  <1>RunsDiffer.
      ASSUME NEW t \in TaskId, NEW u \in TaskId, tasks[t].run.id = tasks[u].run.id,
             tasks[t].run.id # 0
      PROVE  t = u
    <2> USE <1>RunsDiffer
    <2>1. \A x \in TaskId : tasks[x].run.id # 0 =>
              \E c \in claims : c.task = x /\ c.run = tasks[x].run.id
      BY DEF RunsKnown
    <2>2. \A c, d \in claims : c.run = d.run => c = d
      BY DEF RunsKnown
    <2>3. PICK c \in claims : c.task = t /\ c.run = tasks[t].run.id
      BY <2>1
    <2>4. PICK d \in claims : d.task = u /\ d.run = tasks[u].run.id
      BY <2>1
    <2> QED
      BY <2>2, <2>3, <2>4

  \* A task that the step leaves alone and the records say nothing of.
  <1>RestsMoves.
      ASSUME NEW rs, NEW R, Has(rs, R), \A e \in R : OwnRecord(e), NEW t \in TaskId,
             TaskRests(t), \A e \in R : e.task = t => ~Telling(e.kind)
      PROVE  TaskMoves(rs, t)
    <2> USE <1>RestsMoves
    <2>1. NoneOf(rs, TaskClass(t))
      <3>1. \A e \in R : e \notin TaskClass(t)
        BY DEF TaskClass, Telling
      <3> QED
        BY <3>1, HasNoneOf
    <2>2. ASSUME tasks[t].run.id # 0 PROVE NoneOf(rs, EndClass(tasks[t].run.id))
      <3>1. ASSUME NEW e \in R, e \in EndClass(tasks[t].run.id) PROVE FALSE
        <4>1. e.run = tasks[t].run.id /\ e.kind \in DOMAIN RunStatusFromEvent
          BY <3>1 DEF EndClass
        <4>2. e.task \in TaskId /\ e.run = tasks[e.task].run.id
          BY <2>2, <4>1 DEF OwnRecord
        <4>3. e.task = t
          BY <2>2, <4>1, <4>2, <1>RunsDiffer
        <4> QED
          BY <4>1, <4>3 DEF Telling
      <3> QED
        BY <3>1, HasNoneOf
    <2> QED
      BY <2>1, <2>2 DEF TaskMoves

  \* A task that the step leaves without a run, in the status its record tells.
  <1>NoRunMoves.
      ASSUME NEW rs, NEW R, Has(rs, R), \A e \in R : OwnRecord(e), NEW t \in TaskId,
             NEW e \in R, e.task = t, e.kind \in DOMAIN StatusAfter,
             \A f \in R : f.task = t /\ f.kind \in DOMAIN StatusAfter => f = e,
             StatusAfter[e.kind] = tasks'[t].status, tasks'[t].run.id = 0
      PROVE  TaskMoves(rs, t)
    <2> USE <1>NoRunMoves
    <2>1. e \in EventRecord /\ e \in TaskClass(t) /\ \A f \in R : f \in TaskClass(t) => f = e
      BY DEF OwnRecord, TaskClass
    <2>2. LastOf(rs, e, TaskClass(t))
      BY <2>1, HasLastOf
    <2>3. Says(e.kind, t, StatusAfter)'
      BY DEF Says
    <2> QED
      BY <2>1, <2>2, <2>3 DEF TaskMoves

  \* A task whose run ends, or has ended, with the status its record tells.
  <1>EndedMoves.
      ASSUME NEW rs, NEW R, Has(rs, R), \A e \in R : OwnRecord(e), NEW t \in TaskId,
             NEW e \in R, e.task = t, e.run = tasks[t].run.id,
             e.kind \in {"task_completed", "task_failed", "task_canceled"},
             \A f \in R : f.task = t /\ f.kind \in DOMAIN StatusAfter => f = e,
             tasks[t].run.id # 0 => LastOf(rs, e, EndClass(tasks[t].run.id)),
             Says(e.kind, t, StatusAfter)',
             tasks'[t].run = tasks[t].run, tasks'[t].attempt = tasks[t].attempt
      PROVE  TaskMoves(rs, t)
    <2> USE <1>EndedMoves
    <2>a. ASSUME e.kind = "task_completed"
          PROVE  e.kind \in DOMAIN StatusAfter /\ StatusAfter[e.kind] = RunStatusFromEvent[e.kind]
      BY <2>a, Kinds
    <2>b. ASSUME e.kind = "task_failed"
          PROVE  e.kind \in DOMAIN StatusAfter /\ StatusAfter[e.kind] = RunStatusFromEvent[e.kind]
      BY <2>b, Kinds
    <2>c. ASSUME e.kind = "task_canceled"
          PROVE  e.kind \in DOMAIN StatusAfter /\ StatusAfter[e.kind] = RunStatusFromEvent[e.kind]
      BY <2>c, Kinds
    <2>0. e.kind \in DOMAIN StatusAfter /\ StatusAfter[e.kind] = RunStatusFromEvent[e.kind]
      BY <2>a, <2>b, <2>c
    <2>1. e \in EventRecord /\ e \in TaskClass(t) /\ \A f \in R : f \in TaskClass(t) => f = e
      BY <2>0 DEF OwnRecord, TaskClass
    <2>2. LastOf(rs, e, TaskClass(t))
      BY <2>1, HasLastOf
    <2>3. Says(e.kind, t, RunStatusFromEvent)'
      BY <2>0 DEF Says
    <2> QED
      BY <2>1, <2>2, <2>3 DEF TaskMoves

  \* A record that is the only telling one of its task is the last word on the
  \* end of the task's run.
  <1>OnlyEnd.
      ASSUME NEW rs, NEW R, Has(rs, R), \A e \in R : OwnRecord(e), NEW t \in TaskId,
             NEW e \in R, e.run = tasks[t].run.id, tasks[t].run.id # 0,
             e.kind \in DOMAIN RunStatusFromEvent,
             \A f \in R : f.task = t /\ Telling(f.kind) => f = e
      PROVE  LastOf(rs, e, EndClass(tasks[t].run.id))
    <2> USE <1>OnlyEnd
    <2>1. e \in EndClass(tasks[t].run.id)
      BY DEF EndClass, OwnRecord
    <2>2. ASSUME NEW f \in R, f \in EndClass(tasks[t].run.id) PROVE f = e
      <3>1. f.run = tasks[t].run.id /\ f.kind \in DOMAIN RunStatusFromEvent
        BY <2>2 DEF EndClass
      <3>2. f.task \in TaskId /\ f.run = tasks[f.task].run.id
        BY <3>1 DEF OwnRecord
      <3>3. f.task = t
        BY <3>1, <3>2, <1>RunsDiffer
      <3> QED
        BY <3>1, <3>3 DEF Telling
    <2> QED
      BY <2>1, <2>2, HasLastOf

  \* A step that grants no claim and whose records are filed under tasks.
  <1>TaskStepTold.
      ASSUME NEW rs, NEW R, Has(rs, R), events' = events \o rs,
             \A e \in R : OwnRecord(e), \A t \in TaskId : TaskMoves(rs, t),
             claims' = claims, nextRun' = nextRun
      PROVE  StepTold(rs)
    <2> USE <1>TaskStepTold
    <2>1. \A k \in CommandId : k # 0
      BY SMT DEF CommandId
    <2>2. ASSUME NEW k \in CommandId PROVE CommandMoves(rs, k)
      <3>1. NoneOf(rs, CommandClass(k))
        <4>1. \A e \in R : e \notin CommandClass(k)
          BY <2>1 DEF OwnRecord, CommandClass
        <4> QED
          BY <4>1, HasNoneOf
      <3>2. commands' = commands
        BY DEF commandVars
      <3> QED
        BY <3>1, <3>2 DEF CommandMoves, RunsKnown
    <2>3. NoClaim(rs)
      <3>1. \A t \in TaskId : tasks'[t].run.id # nextRun + 1
        <4>1. \A t \in TaskId : tasks'[t].run.id <= nextRun /\ tasks'[t].run.id \in Nat /\ nextRun \in Nat
          BY DEF TypeOK, Task, RunRef
        <4> QED
          BY <4>1, SMT
      <3>2. \A e \in R : e.run # 0 => OfKnownRun(e)
        BY DEF OwnRecord, OfKnownRun
      <3> QED
        BY <3>1, <3>2 DEF NoClaim, Has
    <2> QED
      BY <2>2, <2>3 DEF StepTold, Has

  \* EndedMoves, for a record that is the only telling one of its task.
  <1>StatusMoves.
      ASSUME NEW rs, NEW R, Has(rs, R), \A f \in R : OwnRecord(f), NEW t \in TaskId,
             NEW e \in R, e.task = t, e.run = tasks[t].run.id,
             e.kind \in {"task_completed", "task_failed", "task_canceled"},
             \A f \in R : f.task = t /\ Telling(f.kind) => f = e,
             Says(e.kind, t, StatusAfter)',
             tasks'[t].run = tasks[t].run, tasks'[t].attempt = tasks[t].attempt
      PROVE  TaskMoves(rs, t)
    <2> USE <1>StatusMoves
    <2>1. e.kind \in DOMAIN RunStatusFromEvent
      BY Kinds
    <2>2. tasks[t].run.id # 0 => LastOf(rs, e, EndClass(tasks[t].run.id))
      BY <2>1, <1>OnlyEnd
    <2>3. \A f \in R : f.task = t /\ f.kind \in DOMAIN StatusAfter => f = e
      BY DEF Telling
    <2> QED
      BY <2>2, <2>3, <1>EndedMoves

  \* A step that touches one task, with records of that task.
  <1>OneTaskTold.
      ASSUME NEW rs, NEW R, Has(rs, R), events' = events \o rs,
             NEW t \in TaskId, \A e \in R : OwnRecord(e) /\ e.task = t, TaskMoves(rs, t),
             \A u \in TaskId \ {t} : tasks'[u] = tasks[u],
             claims' = claims, nextRun' = nextRun
      PROVE  Told
    <2> USE <1>OneTaskTold
    <2>1. ASSUME NEW u \in TaskId, u # t PROVE TaskMoves(rs, u)
      <3>1. TaskRests(u)
        BY <2>1 DEF TaskRests
      <3>2. \A e \in R : OwnRecord(e) /\ (e.task = u => ~Telling(e.kind))
        BY <2>1
      <3> QED
        BY <3>1, <3>2, <1>RestsMoves
    <2>2. \A u \in TaskId : TaskMoves(rs, u)
      BY <2>1
    <2>3. StepTold(rs)
      BY <2>2, <1>TaskStepTold
    <2> QED
      BY <2>3 DEF Told

  \* Which kinds tell something.
  <1>TellingKinds.
      /\ \A kind \in {"task_updated", "artifact_created", "lease_renewed"} : ~Telling(kind)
      /\ \A kind \in {"task_completed", "task_failed", "task_canceled", "task_requeued"} :
            Telling(kind) /\ kind \in DOMAIN StatusAfter /\ kind \in DOMAIN RunStatusFromEvent
      /\ "lease_released" \notin DOMAIN StatusAfter
    <2>1. ASSUME NEW kind \in {"task_updated", "artifact_created", "lease_renewed"}
          PROVE  ~Telling(kind)
      BY Kinds, SMT DEF Telling
    <2>2. ASSUME NEW kind \in {"task_completed", "task_failed", "task_canceled", "task_requeued"}
          PROVE  Telling(kind) /\ kind \in DOMAIN StatusAfter /\ kind \in DOMAIN RunStatusFromEvent
      BY Kinds DEF Telling
    <2>3. "lease_released" \notin DOMAIN StatusAfter
      BY Kinds
    <2> QED
      BY <2>1, <2>2, <2>3

  \* A step that sets the status of one task to what its only telling record says.
  <1>StatusStepTold.
      ASSUME NEW t \in TaskId, NEW s,
             NEW kind \in {"task_completed", "task_failed", "task_canceled"}, StatusAfter[kind] = s,
             tasks' = SetStatus(t, s), claims' = claims, nextRun' = nextRun,
             NEW rs, NEW R, Has(rs, R), events' = events \o rs,
             RunRecord(kind, t) \in R,
             \A f \in R : f = RunRecord(kind, t) \/ f = RunRecord("artifact_created", t)
      PROVE  Told
    <2> USE <1>StatusStepTold
    <2> DEFINE e == RunRecord(kind, t)
               a == RunRecord("artifact_created", t)
    <2>0. kind \in EventKind /\ "artifact_created" \in EventKind
      BY KindsOfRecords
    <2>a. OwnRecord(e) /\ e.kind = kind /\ e.task = t /\ e.run = tasks[t].run.id
      BY <2>0, RunRecordIs, ZenonT(40)
    <2>b. OwnRecord(a) /\ a.kind = "artifact_created" /\ a.task = t
      BY <2>0, RunRecordIs, ZenonT(40)
    <2>1. /\ OwnRecord(e) /\ e.kind = kind /\ e.task = t /\ e.run = tasks[t].run.id
          /\ OwnRecord(a) /\ a.kind = "artifact_created" /\ a.task = t
      BY <2>a, <2>b
    <2>2. /\ tasks'[t] = [tasks[t] EXCEPT !.status = s]
          /\ \A u \in TaskId \ {t} : tasks'[u] = tasks[u]
          /\ tasks[t] \in Task
      BY DEF SetStatus, TypeOK
    <2>3. /\ tasks'[t].status = s /\ tasks'[t].run = tasks[t].run
          /\ tasks'[t].attempt = tasks[t].attempt
      BY <2>2 DEF Task
    <2> HIDE DEF e, a
    <2>4. \A f \in R : OwnRecord(f) /\ f.task = t
      BY <2>1 DEF e, a
    <2>5. \A f \in R : f.task = t /\ Telling(f.kind) => f = e
      BY <2>1, <1>TellingKinds DEF e, a
    <2>6. Says(kind, t, StatusAfter)'
      BY <2>3 DEF Says
    <2>7. e \in R
      BY DEF e
    <2>8. TaskMoves(rs, t)
      BY <2>1, <2>3, <2>4, <2>5, <2>6, <2>7, <1>StatusMoves
    <2> QED
      BY <2>2, <2>4, <2>8, <1>OneTaskTold

  \* A step that puts one task back in the queue, with a record that says so and
  \* perhaps one of its lease.
  <1>RequeueStepTold.
      ASSUME NEW t \in TaskId,
             tasks'[t].status = "pending", tasks'[t].run = NoRun,
             \A u \in TaskId \ {t} : tasks'[u] = tasks[u],
             claims' = claims, nextRun' = nextRun, NEW rs, NEW R, Has(rs, R), events' = events \o rs,
             RunRecord("task_requeued", t) \in R,
             \A f \in R : f = RunRecord("task_requeued", t) \/ f = LeaseRecord("lease_released", t)
      PROVE  Told
    <2> USE <1>RequeueStepTold
    <2> DEFINE e == RunRecord("task_requeued", t)
               a == LeaseRecord("lease_released", t)
    <2>0. "task_requeued" \in EventKind /\ "lease_released" \in EventKind
      BY KindsOfRecords
    <2>a. OwnRecord(e) /\ e.kind = "task_requeued" /\ e.task = t
      BY <2>0, RunRecordIs
    <2>b. OwnRecord(a) /\ a.kind = "lease_released" /\ a.task = t
      BY <2>0, LeaseRecordIs
    <2>1. /\ OwnRecord(e) /\ e.kind = "task_requeued" /\ e.task = t
          /\ OwnRecord(a) /\ a.kind = "lease_released" /\ a.task = t
      BY <2>a, <2>b
    <2> HIDE DEF e, a
    <2>4. \A f \in R : OwnRecord(f) /\ f.task = t
      BY <2>1 DEF e, a
    <2>5. \A f \in R : f.task = t /\ f.kind \in DOMAIN StatusAfter => f = e
      BY <2>1, <1>TellingKinds DEF e, a
    <2>2. "task_requeued" \in DOMAIN StatusAfter /\ StatusAfter["task_requeued"] = "pending"
      BY Kinds
    <2>3. NoRun.id = 0
      BY DEF NoRun
    <2>6. e.kind \in DOMAIN StatusAfter /\ StatusAfter[e.kind] = tasks'[t].status /\ tasks'[t].run.id = 0
      BY <2>1, <2>2, <2>3
    <2>7. e \in R
      BY DEF e
    <2>8. TaskMoves(rs, t)
      BY <2>1, <2>4, <2>5, <2>6, <2>7, <1>NoRunMoves
    <2> QED
      BY <2>4, <2>8, <1>OneTaskTold

  \* A step that leaves statuses and runs alone, with records that tell nothing.
  <1>QuietStepTold.
      ASSUME \A t \in TaskId : TaskRests(t),
             claims' = claims, nextRun' = nextRun,
             NEW rs, NEW R, Has(rs, R), events' = events \o rs,
             \A e \in R : OwnRecord(e) /\ ~Telling(e.kind)
      PROVE  Told
    <2> USE <1>QuietStepTold
    <2>1. ASSUME NEW t \in TaskId PROVE TaskMoves(rs, t)
      BY <1>RestsMoves
    <2>2. StepTold(rs)
      BY <2>1, <1>TaskStepTold
    <2> QED
      BY <2>2 DEF Told

  <1>CompleteTaskTold.
      ASSUME NEW t \in TaskId, NEW token,
             NEW emits \in BOOLEAN, NEW now, CompleteTaskTx(t, token, emits, now)
      PROVE  Told
    <2> USE <1>CompleteTaskTold
    <2> DEFINE e == RunRecord("task_completed", t)
               a == RunRecord("artifact_created", t)
               rest == IF emits THEN <<a>> ELSE <<>>
               R == {e} \cup (IF emits THEN {a} ELSE {})
    <2>1. /\ tasks' = SetStatus(t, "completed") /\ claims' = claims /\ nextRun' = nextRun
          /\ events' = events \o (<<e>> \o rest)
      BY DEF CompleteTaskTx, CompleteTask, CommitAndPublish, Commit
    <2>2. TypeOK /\ TypeOK' /\ RunningIffLeased
      BY DEF CoreInv
    <2>3. e \in EventRecord /\ a \in EventRecord
      BY <2>2, KindsOfRecords, RunRecordIs DEF OwnRecord
    <2> HIDE DEF e, a
    <2>4. Has(rest, IF emits THEN {a} ELSE {})
      BY <2>3, HasOne, HasNothing
    <2>5. Has(<<e>> \o rest, R)
      BY <2>3, <2>4, HasOne, HasConcat
    <2>6. StatusAfter["task_completed"] = "completed"
      BY Kinds
    <2>7. e \in R /\ \A f \in R : f = e \/ f = a
      OBVIOUS
    <2> HIDE DEF rest, R
    <2> QED
      BY <2>1, <2>2, <2>5, <2>6, <2>7, <1>StatusStepTold DEF e, a

  <1>FailTaskTold.
      ASSUME NEW t \in TaskId, NEW token,
             NEW retryable \in BOOLEAN, NEW now, FailTaskTx(t, token, retryable, now)
      PROVE  Told
    <2> USE <1>FailTaskTold
    <2>1. TypeOK /\ TypeOK' /\ RunningIffLeased /\ claims' = claims /\ nextRun' = nextRun
      BY DEF CoreInv, FailTaskTx, FailTask
    <2>2. CASE retryable /\ ~Exhausted(t)
      <3> DEFINE e == RunRecord("task_requeued", t)
      <3>1. /\ tasks' = [tasks EXCEPT ![t] = Requeued(tasks[t], FALSE)]
            /\ events' = events \o <<e>>
        BY <2>2 DEF FailTaskTx, FailTask, Requeue, CommitAndPublish, Commit
      <3>2. /\ tasks'[t] = Requeued(tasks[t], FALSE) /\ tasks[t] \in Task
            /\ \A u \in TaskId \ {t} : tasks'[u] = tasks[u]
        BY <2>1, <3>1 DEF TypeOK
      <3>3. tasks'[t].status = "pending" /\ tasks'[t].run = NoRun
        BY <3>2 DEF Requeued, Task
      <3>4. e \in EventRecord
        BY <2>1, KindsOfRecords, RunRecordIs DEF OwnRecord
      <3> HIDE DEF e
      <3>5. Has(<<e>>, {e})
        BY <3>4, HasOne
      <3> QED
        BY <2>1, <3>1, <3>2, <3>3, <3>5, <1>RequeueStepTold DEF e
    <2>3. CASE ~(retryable /\ ~Exhausted(t))
      <3> DEFINE e == RunRecord("task_failed", t)
      <3>1. tasks' = SetStatus(t, "failed") /\ events' = events \o <<e>>
        BY <2>3 DEF FailTaskTx, FailTask, CommitAndPublish, Commit
      <3>2. e \in EventRecord
        BY <2>1, KindsOfRecords, RunRecordIs DEF OwnRecord
      <3> HIDE DEF e
      <3>3. Has(<<e>>, {e}) /\ StatusAfter["task_failed"] = "failed"
        BY <3>2, HasOne, Kinds
      <3> QED
        BY <2>1, <3>1, <3>3, <1>StatusStepTold DEF e
    <2> QED
      BY <2>2, <2>3

  <1>CancelTaskTold.
      ASSUME NEW t \in TaskId, NEW token,
             NEW now, CancelTaskTx(t, token, now)
      PROVE  Told
    <2> USE <1>CancelTaskTold
    <2> DEFINE e == RunRecord("task_canceled", t)
    <2>1. /\ TypeOK /\ TypeOK' /\ RunningIffLeased /\ claims' = claims /\ nextRun' = nextRun
          /\ tasks' = SetStatus(t, "canceled") /\ events' = events \o <<e>>
      BY DEF CoreInv, CancelTaskTx, CancelTask, CommitAndPublish, Commit
    <2>2. e \in EventRecord
      BY <2>1, KindsOfRecords, RunRecordIs DEF OwnRecord
    <2> HIDE DEF e
    <2>3. Has(<<e>>, {e}) /\ StatusAfter["task_canceled"] = "canceled"
      BY <2>2, HasOne, Kinds
    <2> QED
      BY <2>1, <2>3, <1>StatusStepTold DEF e

  <1>RetryTaskTold.
      ASSUME NEW t \in TaskId, RetryTaskTx(t)
      PROVE  Told
    <2> USE <1>RetryTaskTold
    <2> DEFINE e == RunRecord("task_requeued", t)
    <2>1. /\ TypeOK /\ TypeOK' /\ RunningIffLeased /\ claims' = claims /\ nextRun' = nextRun
          /\ events' = events \o <<e>>
          /\ tasks' = [tasks EXCEPT ![t].status = "pending", ![t].run = NoRun, ![t].attempt = 0]
      BY DEF CoreInv, RetryTaskTx, RetryTask, CommitAndPublish, Commit
    <2>2. /\ tasks'[t].status = "pending" /\ tasks'[t].run = NoRun
          /\ \A u \in TaskId \ {t} : tasks'[u] = tasks[u]
      BY <2>1, SMT DEF TypeOK, Task
    <2>3. e \in EventRecord
      BY <2>1, KindsOfRecords, RunRecordIs DEF OwnRecord
    <2> HIDE DEF e
    <2>4. Has(<<e>>, {e})
      BY <2>3, HasOne
    <2> QED
      BY <2>1, <2>2, <2>4, <1>RequeueStepTold DEF e

  <1>RenewLeaseTold.
      ASSUME NEW t \in TaskId, NEW token,
             NEW ttl, NEW now, RenewLeaseTx(t, token, ttl, now)
      PROVE  Told
    <2> USE <1>RenewLeaseTold
    <2> DEFINE e == LeaseRecord("lease_renewed", t)
    <2>1. /\ TypeOK /\ TypeOK' /\ RunningIffLeased /\ claims' = claims /\ nextRun' = nextRun
          /\ tasks' = tasks /\ events' = events \o <<e>>
      BY DEF CoreInv, RenewLeaseTx, RenewLease, CommitAndPublish, Commit
    <2>0. "lease_renewed" \in EventKind
      BY KindsOfRecords
    <2>2. OwnRecord(e) /\ e.kind = "lease_renewed"
      BY <2>0, <2>1, LeaseRecordIs
    <2> HIDE DEF e
    <2>3. Has(<<e>>, {e}) /\ ~Telling(e.kind)
      BY <2>2, HasOne, <1>TellingKinds DEF OwnRecord
    <2>4. \A u \in TaskId : TaskRests(u)
      BY <2>1 DEF TaskRests
    <2>5. \A f \in {e} : OwnRecord(f) /\ ~Telling(f.kind)
      BY <2>2, <2>3
    <2> QED
      BY <2>1, <2>3, <2>4, <2>5, <1>QuietStepTold

  <1>CreateArtifactTold.
      ASSUME NEW t \in TaskId,
             CreateArtifactTx(t)
      PROVE  Told
    <2> USE <1>CreateArtifactTold
    <2> DEFINE e == TaskRecord("artifact_created", t)
    <2>1. /\ TypeOK /\ TypeOK' /\ RunningIffLeased /\ claims' = claims /\ nextRun' = nextRun
          /\ tasks' = tasks /\ events' = events \o <<e>>
      BY DEF CoreInv, CreateArtifactTx, CreateArtifact, CommitAndPublish, Commit
    <2>2. OwnRecord(e) /\ e.kind = "artifact_created"
      BY <2>1, KindsOfRecords, TaskRecordIs
    <2> HIDE DEF e
    <2>3. Has(<<e>>, {e}) /\ ~Telling(e.kind)
      BY <2>2, HasOne, <1>TellingKinds DEF OwnRecord
    <2>4. \A u \in TaskId : TaskRests(u)
      BY <2>1 DEF TaskRests
    <2>5. \A f \in {e} : OwnRecord(f) /\ ~Telling(f.kind)
      BY <2>2, <2>3
    <2> QED
      BY <2>1, <2>3, <2>4, <2>5, <1>QuietStepTold

  <1>ReleaseLeaseTold.
      ASSUME NEW t \in TaskId, NEW token,
             ReleaseLeaseTx(t, token)
      PROVE  Told
    <2> USE <1>ReleaseLeaseTold
    <2> DEFINE e == RunRecord("task_requeued", t)
               a == LeaseRecord("lease_released", t)
    <2>1. /\ TypeOK /\ TypeOK' /\ RunningIffLeased /\ claims' = claims /\ nextRun' = nextRun
          /\ HasLease(t)
      BY DEF CoreInv, ReleaseLeaseTx, ReleaseLease
    <2>2. tasks[t].status = "running"
      BY <2>1, ValidMeansRunning
    <2>3. /\ tasks' = [tasks EXCEPT ![t] = Requeued(tasks[t], TRUE)]
          /\ events' = events \o (<<a>> \o <<e>>)
      BY <2>2 DEF ReleaseLeaseTx, ReleaseLease, Requeue, CommitAndPublish, Commit
    <2>4. /\ tasks'[t] = Requeued(tasks[t], TRUE) /\ tasks[t] \in Task
          /\ \A u \in TaskId \ {t} : tasks'[u] = tasks[u]
      BY <2>1, <2>3 DEF TypeOK
    <2>5. tasks'[t].status = "pending" /\ tasks'[t].run = NoRun
      BY <2>4 DEF Requeued, Task
    <2>6. e \in EventRecord /\ a \in EventRecord
      BY <2>1, KindsOfRecords, RunRecordIs, LeaseRecordIs DEF OwnRecord
    <2> HIDE DEF e, a
    <2>7. Has(<<a>> \o <<e>>, {a} \cup {e})
      BY <2>6, HasOne, HasConcat
    <2>8. e \in {a} \cup {e} /\ \A f \in {a} \cup {e} : f = e \/ f = a
      OBVIOUS
    <2> QED
      BY <2>1, <2>3, <2>4, <2>5, <2>7, <2>8, <1>RequeueStepTold DEF e, a

  \* The records of the peers whose lists a transaction changed.
  <1>PeerRecordsHave.
      ASSUME NEW peers \in SUBSET TaskId, NEW list \in PeerRecords(peers)
      PROVE  Has(list, {TaskRecord("task_updated", x) : x \in peers})
    <2>0. "task_updated" \in EventKind
      BY KindsOfRecords
    <2>1. \A x \in TaskId : TaskRecord("task_updated", x) \in EventRecord
      BY <2>0, TaskRecordIs DEF OwnRecord
    <2>2. {TaskRecord("task_updated", x) : x \in peers} \in SUBSET EventRecord
      BY <2>1
    <2> QED
      BY <2>2, HasListing DEF PeerRecords

  \* A transaction that creates or deletes task t, or updates it, and changes the
  \* lists of its peers.
  <1>WithPeersTold.
      ASSUME NEW t \in TaskId, NEW kind \in EventKind,
             \/ kind = "task_updated" /\ TaskRests(t)
             \/ /\ kind \in {"task_created", "task_deleted"}
                /\ StatusAfter[kind] = tasks'[t].status /\ tasks'[t].run = NoRun,
             \A u \in TaskId \ {t} : TaskRests(u),
             NEW peers \in SUBSET TaskId, NEW list \in PeerRecords(peers),
             events' = events \o (<<TaskRecord(kind, t)>> \o list),
             claims' = claims, nextRun' = nextRun
      PROVE  Told
    <2> USE <1>WithPeersTold
    <2> DEFINE e == TaskRecord(kind, t)
               U == {TaskRecord("task_updated", x) : x \in peers}
               rs == <<e>> \o list
               R == {e} \cup U
    <2>1. OwnRecord(e) /\ e.kind = kind /\ e.task = t
      BY TaskRecordIs
    <2>0. "task_updated" \in EventKind
      BY KindsOfRecords
    <2>a. \A x \in TaskId : /\ OwnRecord(TaskRecord("task_updated", x))
                            /\ TaskRecord("task_updated", x).kind = "task_updated"
      BY <2>0, TaskRecordIs
    <2>2. \A f \in U : OwnRecord(f) /\ f.kind = "task_updated"
      BY <2>a
    <2>3. Has(list, U)
      BY <1>PeerRecordsHave
    <2> HIDE DEF e, U
    <2>4. Has(rs, R)
      BY <2>1, <2>3, HasOne, HasConcat DEF OwnRecord
    <2>5. events' = events \o rs
      BY DEF e
    <2>6. \A f \in R : OwnRecord(f)
      BY <2>1, <2>2
    <2>7. ~Telling("task_updated")
      BY <1>TellingKinds
    <2>8. \A f \in R : Telling(f.kind) => f = e
      BY <2>2, <2>7
    <2> HIDE DEF rs, R
    <2>9. ASSUME NEW u \in TaskId, u # t PROVE TaskMoves(rs, u)
      <3>1. \A f \in R : f.task = u => ~Telling(f.kind)
        BY <2>1, <2>8, <2>9
      <3>2. TaskRests(u)
        BY <2>9
      <3> QED
        BY <2>4, <2>6, <3>1, <3>2, <1>RestsMoves
    <2>10. ASSUME kind = "task_updated" /\ TaskRests(t) PROVE TaskMoves(rs, t)
      <3>1. \A f \in R : f.task = t => ~Telling(f.kind)
        BY <2>1, <2>7, <2>8, <2>10
      <3> QED
        BY <2>4, <2>6, <2>10, <3>1, <1>RestsMoves
    <2>11. ASSUME kind \in {"task_created", "task_deleted"},
                  StatusAfter[kind] = tasks'[t].status, tasks'[t].run = NoRun
           PROVE  TaskMoves(rs, t)
      <3>1. kind \in DOMAIN StatusAfter
        BY <2>11, Kinds
      <3>0. NoRun.id = 0
        BY DEF NoRun
      <3>2. tasks'[t].run.id = 0
        BY <2>11, <3>0
      <3>3. \A f \in R : f.task = t /\ f.kind \in DOMAIN StatusAfter => f = e
        BY <2>8 DEF Telling
      <3>4. e \in R
        BY DEF R
      <3> QED
        BY <2>1, <2>4, <2>6, <2>11, <3>1, <3>2, <3>3, <3>4, <1>NoRunMoves
    <2>12. \A u \in TaskId : TaskMoves(rs, u)
      BY <2>9, <2>10, <2>11
    <2>13. StepTold(rs)
      BY <2>4, <2>5, <2>6, <2>12, <1>TaskStepTold
    <2> QED
      BY <2>13 DEF Told

  <1>CreateTaskTold.
      ASSUME NEW B \in SUBSET TaskId, NEW D \in SUBSET TaskId, NEW limit \in AttemptLimits,
             CreateTaskTx(B, D, limit)
      PROVE  Told
    <2> USE <1>CreateTaskTold
    <2> DEFINE n == nextTask + 1
               new == [NoTask EXCEPT !.status = "pending", !.maxAttempts = limit]
               ts == [tasks EXCEPT ![n] = new]
    <2>1. /\ nextTask < MaxTasks /\ tasks' = Linked(ts, n, B, D)
          /\ claims' = claims /\ nextRun' = nextRun
          /\ TypeOK /\ TypeOK' /\ nextTask \in 0..MaxTasks /\ tasks \in [TaskId -> Task]
      BY DEF CoreInv, CreateTaskTx, CreateTask, TypeOK
    <2>2. n \in TaskId
      BY <2>1, StoreConstants, SMT DEF TaskId
    <2>0. limit \in Nat
      BY StoreConstants
    <2>3. new \in Task /\ new.status = "pending" /\ new.run = NoRun
      BY <2>0 DEF NoTask, NoRun, Task, RunRef, Status
    <2> HIDE DEF new
    <2>4. ts \in [TaskId -> Task] /\ ts[n] = new /\ \A u \in TaskId \ {n} : ts[u] = tasks[u]
      BY <2>1, <2>2, <2>3
    <2>5. PICK list \in PeerRecords(B \cup D) :
              events' = events \o (<<TaskRecord("task_created", n)>> \o list)
      BY DEF CreateTaskTx, CommitAndPublish, Commit
    <2> HIDE DEF ts, n
    <2>6. LinkOf(tasks', ts, n, B, D)
      BY <2>1, <2>2, <2>4, LinkedFields
    <2>7. \A u \in TaskId \ {n} : TaskRests(u)
      BY <2>4, <2>6 DEF LinkOf, TaskRests
    <2>8. tasks'[n].status = "pending" /\ tasks'[n].run = NoRun
      BY <2>2, <2>3, <2>4, <2>6 DEF LinkOf
    <2>9. "task_created" \in EventKind /\ StatusAfter["task_created"] = "pending"
      BY Kinds, KindsOfRecords
    <2>10. B \cup D \in SUBSET TaskId
      OBVIOUS
    <2> QED
      BY <2>1, <2>2, <2>5, <2>7, <2>8, <2>9, <2>10, <1>WithPeersTold

  <1>UpdateTaskTold.
      ASSUME NEW t \in TaskId,
             NEW B \in SUBSET TaskId, NEW D \in SUBSET TaskId, UpdateTaskTx(t, B, D)
      PROVE  Told
    <2> USE <1>UpdateTaskTold
    <2> DEFINE peers == PeersLinked(t, tasks[t].blocks \cup B, tasks[t].blockedBy \cup D)
    <2>1. TypeOK /\ TypeOK' /\ LinksExist
      BY DEF CoreInv
    <2>2. claims' = claims /\ nextRun' = nextRun /\ \A u \in TaskId : TaskRests(u)
      BY <2>1, LinkedTxFields DEF TaskRests
    <2>3. PICK list \in PeerRecords(peers) :
              events' = events \o (<<TaskRecord("task_updated", t)>> \o list)
      BY DEF UpdateTaskTx, CommitAndPublish, Commit
    <2>4. peers \in SUBSET TaskId
      BY DEF PeersLinked
    <2>5. "task_updated" \in EventKind
      BY KindsOfRecords
    <2> HIDE DEF peers
    <2> QED
      BY <2>1, <2>2, <2>3, <2>4, <2>5, <1>WithPeersTold

  <1>DeleteTaskTold.
      ASSUME NEW t \in TaskId, DeleteTaskTx(t)
      PROVE  Told
    <2> USE <1>DeleteTaskTold
    <2> DEFINE peers == {x \in TaskId \ {t} : t \in tasks[x].blocks \cup tasks[x].blockedBy}
    <2>1. /\ TypeOK /\ TypeOK' /\ claims' = claims /\ nextRun' = nextRun
          /\ tasks' = [x \in TaskId |-> IF x = t THEN NoTask
                                        ELSE [tasks[x] EXCEPT !.blocks = @ \ {t},
                                                              !.blockedBy = @ \ {t}]]
      BY DEF CoreInv, DeleteTaskTx, DeleteTask
    <2>2. tasks'[t] = NoTask
      BY <2>1
    <2>3. ASSUME NEW u \in TaskId \ {t} PROVE TaskRests(u)
      <3>1. tasks[u] \in Task /\ tasks'[u] = [tasks[u] EXCEPT !.blocks = @ \ {t}, !.blockedBy = @ \ {t}]
        BY <2>1, <2>3 DEF TypeOK
      <3> QED
        BY <3>1, SMT DEF Task, TaskRests
    <2>4. PICK list \in PeerRecords(peers) :
              events' = events \o (<<TaskRecord("task_deleted", t)>> \o list)
      BY DEF DeleteTaskTx, CommitAndPublish, Commit
    <2>5. peers \in SUBSET TaskId
      OBVIOUS
    <2>6. "task_deleted" \in EventKind /\ StatusAfter["task_deleted"] = "absent"
      BY Kinds, KindsOfRecords
    <2>0. NoTask.status = "absent" /\ NoTask.run = NoRun
      BY DEF NoTask
    <2>7. tasks'[t].status = "absent" /\ tasks'[t].run = NoRun
      BY <2>0, <2>2
    <2> HIDE DEF peers
    <2> QED
      BY <2>1, <2>3, <2>4, <2>5, <2>6, <2>7, <1>WithPeersTold

  \* The records of the tasks a claim reports as out of attempts.
  <1>FailedRecordsHave.
      ASSUME NEW reported \in SUBSET TaskId, NEW failed \in FailedRecords(reported)
      PROVE  Has(failed, {RunRecord("task_failed", x) : x \in reported})
    <2>0. "task_failed" \in EventKind
      BY KindsOfRecords
    <2>1. \A x \in TaskId : RunRecord("task_failed", x) \in EventRecord
      BY <2>0, RunRecordIs DEF OwnRecord
    <2>2. {RunRecord("task_failed", x) : x \in reported} \in SUBSET EventRecord
      BY <2>1
    <2>3. failed \in Listings({RunRecord("task_failed", x) : x \in reported})
      BY DEF FailedRecords
    <2> QED
      BY <2>2, <2>3, HasListing

  \* Those records tell what becomes of each task that is not granted: the tasks
  \* that are given up fail, and the others that are reported have no attempt left.
  <1>GivenUpTold.
      ASSUME NEW reported \in SUBSET TaskId, NEW spent \in SUBSET reported,
             NEW failed \in FailedRecords(reported), NEW u \in TaskId,
             u \in spent => tasks'[u] = [tasks[u] EXCEPT !.status = "failed"],
             u \notin spent => tasks'[u] = tasks[u],
             u \in reported \ spent => tasks[u].status \in {"completed", "failed"} /\ Exhausted(u)
      PROVE  TaskMoves(failed, u)
    <2> USE <1>GivenUpTold
    <2> DEFINE F == {RunRecord("task_failed", x) : x \in reported}
               e == RunRecord("task_failed", u)
    <2>1. Has(failed, F)
      BY <1>FailedRecordsHave
    <2>2. "task_failed" \in EventKind
      BY KindsOfRecords
    <2>a. \A x \in TaskId : /\ OwnRecord(RunRecord("task_failed", x))
                            /\ RunRecord("task_failed", x).task = x
      BY <2>2, RunRecordIs
    <2>3. \A f \in F : OwnRecord(f)
      BY <2>a
    <2>4. OwnRecord(e) /\ e.kind = "task_failed" /\ e.task = u /\ e.run = tasks[u].run.id
      BY <2>2, RunRecordIs, ZenonT(40)
    <2>5. u \in reported => e \in F
      OBVIOUS
    <2>6. ASSUME NEW f \in F, f.task = u PROVE u \in reported /\ f = e
      <3>1. PICK x \in reported : f = RunRecord("task_failed", x)
        BY <2>6
      <3>2. x = u
        BY <2>6, <2>a, <3>1
      <3> QED
        BY <3>1, <3>2
    <2> HIDE DEF F, e
    <2>7. tasks[u] \in Task
      BY DEF TypeOK
    <2>8. CASE u \notin reported
      <3>1. TaskRests(u)
        BY <2>8 DEF TaskRests
      <3>2. \A f \in F : OwnRecord(f) /\ (f.task = u => ~Telling(f.kind))
        BY <2>3, <2>6, <2>8
      <3> QED
        BY <2>1, <3>1, <3>2, <1>RestsMoves
    <2>9. CASE u \in reported
      <3>1. StatusAfter["task_failed"] = "failed"
        BY Kinds
      <3>2. tasks'[u].run = tasks[u].run /\ tasks'[u].attempt = tasks[u].attempt
        BY <2>7 DEF Task
      <3>3. ASSUME u \in spent PROVE Says("task_failed", u, StatusAfter)'
        <4>1. tasks'[u].status = "failed"
          BY <2>7, <3>3 DEF Task
        <4> QED
          BY <3>1, <4>1 DEF Says
      <3>4. ASSUME u \notin spent PROVE Says("task_failed", u, StatusAfter)'
        <4>1. tasks'[u] = tasks[u] /\ tasks[u].status \in {"completed", "failed"} /\ Exhausted(u)
          BY <2>9, <3>4
        <4> QED
          BY <3>1, <4>1 DEF Says, Exhausted
      <3>5. Says("task_failed", u, StatusAfter)'
        BY <3>3, <3>4
      <3>6. PICK x : x = e
        OBVIOUS
      <3>7. /\ x \in F /\ x.kind \in {"task_completed", "task_failed", "task_canceled"}
            /\ x.task = u /\ x.run = tasks[u].run.id
            /\ \A f \in F : f.task = u /\ Telling(f.kind) => f = x
        BY <2>4, <2>5, <2>6, <2>9, <3>6
      <3>8. Says(x.kind, u, StatusAfter)'
        BY <2>4, <3>5, <3>6
      <3> QED
        BY <2>1, <2>3, <3>2, <3>7, <3>8, <1>StatusMoves, SMTT(30)
    <2> QED
      BY <2>8, <2>9

  \* A claim that grants nothing.
  <1>RejectTold.
      ASSUME NEW reported \in SUBSET TaskId, NEW spent \in SUBSET reported,
             \A u \in reported \ spent : tasks[u].status \in {"completed", "failed"} /\ Exhausted(u),
             RejectTx(spent, reported)
      PROVE  Told
    <2> USE <1>RejectTold
    <2> DEFINE F == {RunRecord("task_failed", x) : x \in reported}
    <2>1. /\ TypeOK /\ TypeOK' /\ claims' = claims /\ nextRun' = nextRun
          /\ tasks' = TasksGivenUp(spent)
      BY DEF CoreInv, RejectTx
    <2>2. PICK failed \in FailedRecords(reported) : events' = events \o failed
      BY DEF RejectTx, CommitAndPublish, Commit
    <2>3. \A u \in TaskId : /\ u \in spent => tasks'[u] = [tasks[u] EXCEPT !.status = "failed"]
                            /\ u \notin spent => tasks'[u] = tasks[u]
      BY <2>1 DEF TasksGivenUp
    <2>4. \A u \in TaskId : TaskMoves(failed, u)
      BY <2>1, <2>3, <1>GivenUpTold
    <2>5. Has(failed, F)
      BY <2>1, <1>FailedRecordsHave
    <2>6. "task_failed" \in EventKind
      BY KindsOfRecords
    <2>7. \A x \in TaskId : OwnRecord(RunRecord("task_failed", x))
      BY <2>1, <2>6, RunRecordIs
    <2>8. \A f \in F : OwnRecord(f)
      BY <2>7
    <2> HIDE DEF F
    <2>9. StepTold(failed)
      BY <2>1, <2>2, <2>4, <2>5, <2>8, <1>TaskStepTold
    <2> QED
      BY <2>9 DEF Told

  \* A record that is neither the last word on a task nor the end of a run may
  \* follow the others.
  <1>MovesAppend.
      ASSUME NEW s \in Seq(EventRecord), NEW e \in EventRecord, NEW u, TaskMoves(s, u),
             e \notin TaskClass(u), \A r : e \notin EndClass(r)
      PROVE  TaskMoves(s \o <<e>>, u)
    <2> USE <1>MovesAppend
    <2>1. Has(<<e>>, {e})
      BY HasOne
    <2>2. <<e>> \in Seq(EventRecord)
      BY <2>1 DEF Has
    <2>a. ASSUME NEW C, e \notin C PROVE NoneOf(<<e>>, C)
      BY <2>1, <2>a, HasNoneOf, ZenonT(40)
    <2>3. NoneOf(<<e>>, TaskClass(u)) /\ \A r : NoneOf(<<e>>, EndClass(r))
      BY <2>a
    <2>4. /\ NoneOf(s, TaskClass(u)) => NoneOf(s \o <<e>>, TaskClass(u))
          /\ \A r : NoneOf(s, EndClass(r)) => NoneOf(s \o <<e>>, EndClass(r))
          /\ \A f : LastOf(s, f, TaskClass(u)) => LastOf(s \o <<e>>, f, TaskClass(u))
          /\ \A f, r : LastOf(s, f, EndClass(r)) => LastOf(s \o <<e>>, f, EndClass(r))
      BY <2>2, <2>3, Appended
    <2> QED
      BY <2>4 DEF TaskMoves

  \* The record of the claim.
  <1>ClaimedRecordIs.
      ASSUME NEW t \in TaskId, NEW w \in Worker
      PROVE  LET e == ClaimedRecord(t, w)
             IN  /\ e \in EventRecord /\ e.kind = "task_claimed" /\ e.task = t /\ e.command = 0
                 /\ e.run = nextRun + 1 /\ e.attempt = tasks[t].attempt + 1 /\ e.worker = w
                 /\ \A r : e \notin EndClass(r)
    <2> DEFINE e == ClaimedRecord(t, w)
    <2>1. nextRun + 1 \in Nat /\ tasks[t].attempt + 1 \in Nat /\ t \in Nat
      <3>1. nextRun \in Nat /\ tasks[t].attempt \in Nat
        BY DEF TypeOK, Task
      <3> QED
        BY <3>1, SMT DEF TaskId
    <2>2. "task_claimed" \in EventKind
      BY KindsOfRecords
    <2>3. /\ e \in EventRecord /\ e.kind = "task_claimed" /\ e.task = t /\ e.command = 0
          /\ e.run = nextRun + 1 /\ e.attempt = tasks[t].attempt + 1 /\ e.worker = w
      BY <2>1, <2>2 DEF ClaimedRecord, Record, EventRecord
    <2> HIDE DEF e
    <2>4. "task_claimed" \notin DOMAIN RunStatusFromEvent
      BY Kinds
    <2>5. \A r : e \notin EndClass(r)
      BY <2>3, <2>4 DEF EndClass
    <2> QED
      BY <2>3, <2>5 DEF e

  \* A claim that is granted.
  <1>GrantTold.
      ASSUME NEW t \in TaskId, NEW w \in Worker, NEW ttl, NEW now,
             NEW reported \in SUBSET TaskId, t \notin reported, NEW spent \in SUBSET reported,
             \A u \in reported \ spent : tasks[u].status \in {"completed", "failed"} /\ Exhausted(u),
             GrantTx(t, w, ttl, now, spent, reported)
      PROVE  Told
    <2> USE <1>GrantTold
    <2> DEFINE F == {RunRecord("task_failed", x) : x \in reported}
               e == ClaimedRecord(t, w)
               run == [id |-> nextRun + 1, worker |-> w, attempt |-> tasks[t].attempt + 1]
               new == [tasks[t] EXCEPT !.status = "running", !.attempt = @ + 1, !.run = run]
               c == [task |-> t, token |-> nextLease + 1, run |-> nextRun + 1,
                     attempt |-> tasks[t].attempt + 1, worker |-> w,
                     blockedBy |-> tasks[t].blockedBy]
    <2>1. /\ TypeOK /\ TypeOK' /\ nextRun' = nextRun + 1 /\ claims' = claims \cup {c}
          /\ tasks' = [TasksGivenUp(spent) EXCEPT ![t] = new]
      BY DEF CoreInv, GrantTx, Grant
    <2>2. PICK failed \in FailedRecords(reported) : events' = events \o (failed \o <<e>>)
      BY DEF GrantTx, CommitAndPublish, Commit
    <2>3. /\ tasks'[t] = new
          /\ \A u \in TaskId \ {t} : /\ u \in spent => tasks'[u] = [tasks[u] EXCEPT !.status = "failed"]
                                     /\ u \notin spent => tasks'[u] = tasks[u]
      BY <2>1 DEF TasksGivenUp
    <2>4. tasks[t] \in Task /\ nextRun \in Nat /\ nextLease \in Nat
      BY <2>1 DEF TypeOK
    <2>5. tasks[t].attempt \in Nat /\ tasks[t].blockedBy \in SUBSET TaskId
      BY <2>4 DEF Task
    <2>6. tasks[t].attempt + 1 \in Nat /\ nextRun + 1 \in Nat /\ nextLease + 1 \in Nat
          /\ tasks[t].attempt + 1 >= 1
      BY <2>4, <2>5, SMT
    <2>7. /\ new.status = "running" /\ new.run = run /\ new.attempt = tasks[t].attempt + 1
      BY <2>4 DEF Task
    <2>8. run.id = nextRun + 1 /\ run.worker = w
      OBVIOUS
    <2>9. /\ c \in Claim /\ c.task = t /\ c.run = nextRun + 1 /\ c.worker = w
          /\ c.attempt = tasks[t].attempt + 1
      BY <2>5, <2>6 DEF Claim
    <2> HIDE DEF c, new, run
    <2>10. /\ e \in EventRecord /\ e.kind = "task_claimed" /\ e.task = t /\ e.command = 0
           /\ e.run = nextRun + 1 /\ e.attempt = tasks[t].attempt + 1 /\ e.worker = w
           /\ \A r : e \notin EndClass(r)
      BY <2>1, <1>ClaimedRecordIs
    <2>11. Has(failed, F)
      BY <2>1, <1>FailedRecordsHave
    <2>12. "task_failed" \in EventKind
      BY KindsOfRecords
    <2>13. \A x \in TaskId : /\ OwnRecord(RunRecord("task_failed", x))
                             /\ RunRecord("task_failed", x).task = x
      BY <2>1, <2>12, RunRecordIs
    <2>14. \A f \in F : OwnRecord(f) /\ f.task \in reported
      BY <2>13
    <2> DEFINE rs == failed \o <<e>>
               R == F \cup {e}
    <2> HIDE DEF F, e
    <2>15. Has(<<e>>, {e}) /\ failed \in Seq(EventRecord)
      BY <2>10, <2>11, HasOne DEF Has
    <2>16. Has(rs, R)
      BY <2>11, <2>15, HasConcat
    <2>17. ASSUME NEW u \in TaskId, u # t PROVE TaskMoves(rs, u)
      <3>1. TaskMoves(failed, u)
        BY <2>1, <2>3, <2>17, <1>GivenUpTold
      <3>2. e \notin TaskClass(u)
        BY <2>10, <2>17 DEF TaskClass
      <3> QED
        BY <2>10, <2>15, <3>1, <3>2, <1>MovesAppend
    <2>18. TaskMoves(rs, t)
      <3>1. "task_claimed" \in DOMAIN StatusAfter /\ StatusAfter["task_claimed"] = "running"
        BY Kinds
      <3>2. PICK x : x = e
        OBVIOUS
      <3>3. x \in EventRecord /\ x.kind = "task_claimed" /\ x \in TaskClass(t) /\ x \in R
        BY <2>10, <3>1, <3>2 DEF TaskClass
      <3>4. \A f \in R : f \in TaskClass(t) => f = x
        BY <2>14, <3>2 DEF TaskClass
      <3>5. LastOf(rs, x, TaskClass(t))
        BY <2>16, <3>3, <3>4, HasLastOf
      <3>6. tasks'[t].status = "running" /\ tasks'[t].run.id = nextRun + 1
        BY <2>3, <2>7, <2>8
      <3>7. Says(x.kind, t, StatusAfter)'
        BY <3>1, <3>3, <3>6 DEF Says
      <3> HIDE DEF rs, R
      <3> QED
        BY <3>3, <3>5, <3>6, <3>7 DEF TaskMoves
    <2>19. ASSUME NEW f \in F PROVE f.run # 0 => OfKnownRun(f)
      BY <2>14 DEF OwnRecord, OfKnownRun
    <2>20. ASSUME NEW k \in CommandId PROVE CommandMoves(rs, k)
      <3>1. k # 0
        BY SMT DEF CommandId
      <3>2. \A f \in R : f \notin CommandClass(k)
        BY <2>10, <2>14, <3>1 DEF OwnRecord, CommandClass
      <3>3. NoneOf(rs, CommandClass(k))
        BY <2>16, <3>2, HasNoneOf
      <3>4. commands' = commands
        BY DEF commandVars
      <3> QED
        BY <3>3, <3>4 DEF CommandMoves, RunsKnown
    <2>21. \A u \in TaskId \ {t} : tasks'[u].run.id # nextRun + 1
      <3>1. ASSUME NEW u \in TaskId \ {t} PROVE tasks'[u].run = tasks[u].run
        <4>1. tasks[u] \in Task
          BY <2>1 DEF TypeOK
        <4> QED
          BY <2>3, <4>1 DEF Task
      <3>2. \A u \in TaskId : tasks[u].run.id <= nextRun /\ tasks[u].run.id \in Nat
        BY <2>1 DEF TypeOK, Task, RunRef
      <3>3. \A u \in TaskId : tasks[u].run.id # nextRun + 1
        BY <2>4, <3>2, SMTT(30)
      <3> QED
        BY <3>1, <3>3
    <2>22. NoneOf(rs, EndClass(nextRun + 1))
      <3>1. \A u \in TaskId : tasks[u].run.id <= nextRun /\ tasks[u].run.id \in Nat
        BY <2>1 DEF TypeOK, Task, RunRef
      <3>2. nextRun + 1 # 0 /\ \A u \in TaskId : tasks[u].run.id # nextRun + 1
        BY <2>4, <3>1, SMTT(30)
      <3>3. \A f \in F : f.run # nextRun + 1
        BY <2>14, <3>2 DEF OwnRecord
      <3>4. \A f \in R : f \notin EndClass(nextRun + 1)
        BY <2>10, <3>3 DEF EndClass
      <3> QED
        BY <2>16, <3>4, HasNoneOf, ZenonT(40)
    <2>23. NewClaim(rs, c)
      <3>1. StartOf(e, c)
        BY <2>9, <2>10 DEF StartOf
      <3>2. \E i \in 1..Len(rs) : rs[i] = e
        BY <2>16 DEF Has
      <3>3. \A i \in 1..Len(rs) : rs[i].run # 0 => OfKnownRun(rs[i]) \/ StartOf(rs[i], c)
        BY <2>16, <2>19, <3>1 DEF Has
      <3>4. /\ tasks'[t].run.id = nextRun + 1 /\ tasks'[t].run.worker = w
            /\ tasks'[t].attempt = tasks[t].attempt + 1 /\ tasks'[t].status = "running"
        BY <2>3, <2>7, <2>8
      <3> HIDE DEF rs
      <3> QED
        BY <2>1, <2>6, <2>9, <2>21, <2>22, <3>1, <3>2, <3>3, <3>4 DEF NewClaim
    <2>24. rs \in Seq(EventRecord)
      BY <2>16 DEF Has
    <2>25. \A u \in TaskId : TaskMoves(rs, u)
      BY <2>17, <2>18
    <2>26. StepTold(rs)
      BY <2>2, <2>20, <2>23, <2>24, <2>25 DEF StepTold
    <2> QED
      BY <2>26 DEF Told

  \* Of the records of one recovery, the one that says what became of the task
  \* follows the one of its lease.
  <1>RecoveredInOrder.
      ASSUME NEW S \in SUBSET TaskId, NEW now, RecoverLeasesTx(S, now)
      PROVE  LET lost == {t \in S : LeaseExpired(t, now)}
                 K(t) == IF Exhausted(t) THEN "task_failed" ELSE "task_requeued"
                 R == {LeaseRecord("lease_released", t) : t \in lost}
                      \cup {RunRecord(K(t), t) : t \in {u \in lost : tasks[u].status = "running"}}
             IN  \E rs \in Listings(R) :
                    /\ events' = events \o rs
                    /\ \A i, j \in 1..Len(rs) : i < j /\ rs[i].task = rs[j].task /\ rs[i].task \in TaskId =>
                          rs[i].kind = "lease_released"
    <2> USE <1>RecoveredInOrder
    <2> DEFINE lost == {t \in S : LeaseExpired(t, now)}
               K(t) == IF Exhausted(t) THEN "task_failed" ELSE "task_requeued"
               R == {LeaseRecord("lease_released", t) : t \in lost}
                    \cup {RunRecord(K(t), t) : t \in {u \in lost : tasks[u].status = "running"}}
    <2>1. PICK rs \in Listings(R) :
              /\ events' = events \o rs
              /\ \A i, j \in 1..Len(rs) : i < j =>
                    \/ leases[rs[i].task].expiresAt < leases[rs[j].task].expiresAt
                    \/ /\ leases[rs[i].task].expiresAt = leases[rs[j].task].expiresAt
                       /\ rs[i].task < rs[j].task
                    \/ rs[i].task = rs[j].task /\ rs[i].kind = "lease_released"
      BY ZenonT(60) DEF RecoverLeasesTx, InOrder, Commit
    <2> HIDE DEF R, lost
    <2>a. \A t \in TaskId : leases[t].expiresAt \in Nat
      BY DEF CoreInv, TypeOK, Lease
    <2>2. \A t \in TaskId : leases[t].expiresAt \in Nat /\ t \in Nat
      BY <2>a, SMT DEF TaskId
    <2>3. \A t \in TaskId : ~(leases[t].expiresAt < leases[t].expiresAt) /\ ~(t < t)
      BY <2>2, SMT
    <2>4. \A i, j \in 1..Len(rs) : i < j /\ rs[i].task = rs[j].task /\ rs[i].task \in TaskId =>
              rs[i].kind = "lease_released"
      BY <2>1, <2>3
    <2> QED
      BY <2>1, <2>4, ZenonT(40) DEF R, lost

  \* What a recovery does to the tasks it finds, which are all running.
  <1>RecoveredTasks.
      ASSUME NEW S \in SUBSET TaskId, NEW now, RecoverLeases(S, now), NEW t \in TaskId
      PROVE  LET lost == {u \in S : LeaseExpired(u, now)}
             IN  /\ t \in lost => tasks[t].status = "running"
                 /\ t \notin lost => tasks'[t] = tasks[t]
                 /\ t \in lost /\ Exhausted(t) =>
                       /\ tasks'[t].status = "failed" /\ tasks'[t].run = tasks[t].run
                       /\ tasks'[t].attempt = tasks[t].attempt
                 /\ t \in lost /\ ~Exhausted(t) =>
                       tasks'[t].status = "pending" /\ tasks'[t].run.id = 0
    <2> USE <1>RecoveredTasks
    <2> DEFINE lost == {u \in S : LeaseExpired(u, now)}
    <2>1. tasks[t] \in Task
      BY DEF CoreInv, TypeOK
    <2>2. t \in lost => tasks[t].status = "running"
      BY ValidMeansRunning DEF CoreInv, LeaseExpired
    <2>3. t \notin lost => tasks'[t] = tasks[t]
      BY DEF RecoverLeases
    <2>4. ASSUME t \in lost, Exhausted(t)
          PROVE  /\ tasks'[t].status = "failed" /\ tasks'[t].run = tasks[t].run
                 /\ tasks'[t].attempt = tasks[t].attempt
      <3>1. tasks'[t] = [tasks[t] EXCEPT !.status = "failed"]
        BY <2>2, <2>4 DEF RecoverLeases
      <3> QED
        BY <2>1, <3>1 DEF Task
    <2>5. ASSUME t \in lost, ~Exhausted(t)
          PROVE  tasks'[t].status = "pending" /\ tasks'[t].run.id = 0
      <3>1. tasks'[t] = Requeued(tasks[t], FALSE)
        BY <2>2, <2>5 DEF RecoverLeases
      <3>2. tasks'[t].status = "pending" /\ tasks'[t].run = NoRun
        BY <2>1, <3>1 DEF Task, Requeued
      <3>3. NoRun.id = 0
        BY DEF NoRun
      <3> QED
        BY <3>2, <3>3
    <2> QED
      BY <2>2, <2>3, <2>4, <2>5

  <1>RecoverLeasesTold.
      ASSUME NEW S \in SUBSET TaskId, NEW now,
             RecoverLeasesTx(S, now)
      PROVE  Told
    <2> USE <1>RecoverLeasesTold
    <2> DEFINE lost == {t \in S : LeaseExpired(t, now)}
               K(t) == IF Exhausted(t) THEN "task_failed" ELSE "task_requeued"
               A == {LeaseRecord("lease_released", t) : t \in lost}
               B == {RunRecord(K(t), t) : t \in {u \in lost : tasks[u].status = "running"}}
               R == A \cup B
    <2>1. /\ TypeOK /\ TypeOK' /\ RunningIffLeased /\ claims' = claims /\ nextRun' = nextRun
          /\ RecoverLeases(S, now) /\ lost \in SUBSET TaskId
      BY DEF CoreInv, RecoverLeasesTx, RecoverLeases
    <2>2. PICK rs \in Listings(R) :
              /\ events' = events \o rs
              /\ \A i, j \in 1..Len(rs) : i < j /\ rs[i].task = rs[j].task /\ rs[i].task \in TaskId =>
                    rs[i].kind = "lease_released"
      BY <1>RecoveredInOrder
    <2>3. \A t \in TaskId :
              /\ t \in lost => tasks[t].status = "running"
              /\ t \notin lost => tasks'[t] = tasks[t]
              /\ t \in lost /\ Exhausted(t) =>
                    /\ tasks'[t].status = "failed" /\ tasks'[t].run = tasks[t].run
                    /\ tasks'[t].attempt = tasks[t].attempt
              /\ t \in lost /\ ~Exhausted(t) =>
                    tasks'[t].status = "pending" /\ tasks'[t].run.id = 0
      BY <2>1, <1>RecoveredTasks
    <2>4. "task_failed" \in EventKind /\ "task_requeued" \in EventKind /\ "lease_released" \in EventKind
      BY KindsOfRecords
    <2>5. ASSUME NEW t \in TaskId
          PROVE  /\ OwnRecord(LeaseRecord("lease_released", t))
                 /\ LeaseRecord("lease_released", t).kind = "lease_released"
                 /\ LeaseRecord("lease_released", t).task = t
      <3>1. PICK kind \in EventKind : kind = "lease_released"
        BY <2>4
      <3>2. /\ OwnRecord(LeaseRecord(kind, t)) /\ LeaseRecord(kind, t).kind = kind
            /\ LeaseRecord(kind, t).task = t
        BY <2>1, LeaseRecordIs
      <3> QED
        BY <3>1, <3>2
    <2>6. ASSUME NEW t \in TaskId
          PROVE  LET b == RunRecord(K(t), t)
                 IN  OwnRecord(b) /\ b.kind = K(t) /\ b.task = t /\ b.run = tasks[t].run.id
      <3>1. K(t) \in EventKind
        BY <2>4
      <3> HIDE DEF K
      <3> QED
        BY <2>1, <3>1, RunRecordIs
    <2>7. ASSUME NEW f \in A
          PROVE  OwnRecord(f) /\ f.task \in lost /\ f.kind = "lease_released"
      <3>1. PICK t \in lost : f = LeaseRecord("lease_released", t)
        OBVIOUS
      <3> HIDE DEF A, lost
      <3> QED
        BY <2>1, <2>5, <3>1
    <2>8. ASSUME NEW f \in B
          PROVE  OwnRecord(f) /\ f.task \in lost /\ f.kind = K(f.task) /\ f = RunRecord(K(f.task), f.task)
      <3>1. PICK t \in lost : f = RunRecord(K(t), t)
        OBVIOUS
      <3>2. t \in TaskId
        BY <2>1, <3>1
      <3>3. OwnRecord(f) /\ f.kind = K(t) /\ f.task = t
        BY <2>6, <3>1, <3>2
      <3> HIDE DEF B, lost, K
      <3> QED
        BY <3>1, <3>3
    <2>9. \A t \in lost : RunRecord(K(t), t) \in B
      BY <2>1, <2>3
    <2> HIDE DEF lost, A, B
    <2>10. \A f \in R : OwnRecord(f) /\ f.task \in lost
      BY <2>7, <2>8
    <2>11. R \in SUBSET EventRecord
      BY <2>10 DEF OwnRecord
    <2>12. Has(rs, R)
      BY <2>2, <2>11, HasListing
    <2>13. /\ "lease_released" \notin DOMAIN StatusAfter
           /\ "task_failed" \in DOMAIN StatusAfter /\ StatusAfter["task_failed"] = "failed"
           /\ "task_requeued" \in DOMAIN StatusAfter /\ StatusAfter["task_requeued"] = "pending"
           /\ "task_failed" \in DOMAIN RunStatusFromEvent
      BY Kinds, <1>TellingKinds
    <2>14. ASSUME NEW t \in TaskId, NEW f \in R, f.task = t, f.kind \in DOMAIN StatusAfter
           PROVE  f = RunRecord(K(t), t)
      <3>1. f \notin A
        BY <2>7, <2>13, <2>14
      <3>2. f \in B
        BY <2>14, <3>1
      <3> HIDE DEF K
      <3> QED
        BY <2>8, <2>14, <3>2
    <2>15. ASSUME NEW t \in TaskId, t \notin lost PROVE TaskMoves(rs, t)
      <3>1. TaskRests(t)
        BY <2>3, <2>15 DEF TaskRests
      <3>2. \A f \in R : OwnRecord(f) /\ (f.task = t => ~Telling(f.kind))
        BY <2>10, <2>15
      <3> HIDE DEF R
      <3> QED
        BY <2>12, <3>1, <3>2, <1>RestsMoves
    <2>16. ASSUME NEW t \in TaskId, t \in lost, ~Exhausted(t) PROVE TaskMoves(rs, t)
      <3>1. K(t) = "task_requeued"
        BY <2>16
      <3>2. PICK e : e = RunRecord(K(t), t)
        OBVIOUS
      <3>3. e \in R /\ e.task = t /\ e.kind = "task_requeued"
        BY <2>6, <2>9, <2>16, <3>1, <3>2
      <3>4. \A f \in R : f.task = t /\ f.kind \in DOMAIN StatusAfter => f = e
        BY <2>14, <3>2
      <3>5. /\ e.kind \in DOMAIN StatusAfter /\ StatusAfter[e.kind] = tasks'[t].status
            /\ tasks'[t].run.id = 0
        BY <2>3, <2>13, <2>16, <3>3
      <3>6. \A f \in R : OwnRecord(f)
        BY <2>10
      <3> HIDE DEF R
      <3> QED
        BY <2>12, <3>3, <3>4, <3>5, <3>6, <1>NoRunMoves
    <2>17. ASSUME NEW t \in TaskId, t \in lost, Exhausted(t) PROVE TaskMoves(rs, t)
      <3>1. K(t) = "task_failed"
        BY <2>17
      <3>2. PICK e : e = RunRecord(K(t), t)
        OBVIOUS
      <3>3. e \in R /\ e.task = t /\ e.kind = "task_failed" /\ e.run = tasks[t].run.id
        BY <2>6, <2>9, <2>17, <3>1, <3>2
      <3>4. \A f \in R : f.task = t /\ f.kind \in DOMAIN StatusAfter => f = e
        BY <2>14, <3>2
      <3>5. /\ tasks'[t].status = "failed" /\ tasks'[t].run = tasks[t].run
            /\ tasks'[t].attempt = tasks[t].attempt
        BY <2>3, <2>17
      <3>6. Says(e.kind, t, StatusAfter)'
        BY <2>13, <3>3, <3>5 DEF Says
      <3>7. ASSUME tasks[t].run.id # 0 PROVE LastOf(rs, e, EndClass(tasks[t].run.id))
        <4>1. e \in EndClass(tasks[t].run.id)
          BY <2>10, <2>13, <3>3 DEF OwnRecord, EndClass
        <4>2. PICK m \in 1..Len(rs) : rs[m] = e
          BY <2>12, <3>3 DEF Has
        <4>3. ASSUME NEW j \in 1..Len(rs), rs[j] \in EndClass(tasks[t].run.id) PROVE j <= m
          <5>1. rs[j] \in R /\ rs[j].run = tasks[t].run.id
            BY <2>12, <4>3 DEF Has, EndClass
          <5>2. rs[j].task \in TaskId /\ rs[j].run = tasks[rs[j].task].run.id
            BY <2>10, <3>7, <5>1 DEF OwnRecord
          <5>3. rs[j].task = t
            BY <3>7, <5>1, <5>2, <1>RunsDiffer
          <5>4. ~(m < j)
            BY <2>2, <3>3, <4>2, <5>3
          <5> QED
            BY <5>4, SMT
        <4> QED
          BY <4>1, <4>2, <4>3 DEF LastOf
      <3>8. \A f \in R : OwnRecord(f)
        BY <2>10
      <3>9. e.kind \in {"task_completed", "task_failed", "task_canceled"}
        BY <3>3
      <3> HIDE DEF R
      <3> QED
        BY <2>12, <3>3, <3>4, <3>5, <3>6, <3>7, <3>8, <3>9, <1>EndedMoves, SMTT(30)
    <2>18. \A t \in TaskId : TaskMoves(rs, t)
      BY <2>15, <2>16, <2>17
    <2>19. \A f \in R : OwnRecord(f)
      BY <2>10
    <2> HIDE DEF R
    <2>20. StepTold(rs)
      BY <2>1, <2>2, <2>12, <2>18, <2>19, <1>TaskStepTold
    <2> QED
      BY <2>20 DEF Told

  <1>1. \A c \in claims : c.task \in TaskId /\ c.token \in Nat
    BY DEF CoreInv, TypeOK, Claim
  <1>2. ASSUME NEW link \in Links, NEW limit \in AttemptLimits,
               CreateTaskTx(link.blocks, link.blockedBy, limit)
        PROVE  Told
    BY <1>2, LinksAre, <1>CreateTaskTold
  <1>3. ASSUME NEW link \in Links, NEW t \in TaskId, UpdateTaskTx(t, link.blocks, link.blockedBy)
        PROVE  Told
    BY <1>3, LinksAre, <1>UpdateTaskTold
  <1>4. ASSUME NEW t \in TaskId, DeleteTaskTx(t) \/ RetryTaskTx(t) \/ CreateArtifactTx(t) PROVE Told
    BY <1>4, <1>DeleteTaskTold, <1>RetryTaskTold, <1>CreateArtifactTold
  <1>5. ASSUME Rejected PROVE Told
    <2>1. PICK spent \in SUBSET TaskId, reported \in SUBSET TaskId :
              Met(spent, reported) /\ RejectTx(spent, reported)
      BY <1>5 DEF Rejected
    <2>2. /\ spent \in SUBSET reported
          /\ \A u \in reported \ spent : tasks[u].status \in {"completed", "failed"} /\ Exhausted(u)
      BY <2>1 DEF Met
    <2> QED
      BY <2>1, <2>2, <1>RejectTold
  <1>6. ASSUME Granted PROVE Told
    <2>1. PICK t \in TaskId, w \in Worker, ttl \in TTLs, now \in Time, spent \in SUBSET TaskId,
               reported \in SUBSET TaskId :
            /\ Met(spent, reported) /\ t \notin reported
            /\ GrantTx(t, w, ttl, now, spent, reported)
      BY <1>6 DEF Granted
    <2>2. /\ spent \in SUBSET reported
          /\ \A u \in reported \ spent : tasks[u].status \in {"completed", "failed"} /\ Exhausted(u)
      BY <2>1 DEF Met
    <2> QED
      BY <2>1, <2>2, <1>GrantTold
  <1>7. ASSUME NEW c \in claims, NEW now \in Time, NEW emits \in BOOLEAN,
               CompleteTaskTx(c.task, c.token, emits, now)
        PROVE  Told
    BY <1>1, <1>7, <1>CompleteTaskTold
  <1>8. ASSUME NEW c \in claims, NEW now \in Time, NEW retryable \in BOOLEAN,
               FailTaskTx(c.task, c.token, retryable, now)
        PROVE  Told
    BY <1>1, <1>8, <1>FailTaskTold
  <1>9. ASSUME NEW c \in claims, NEW now \in Time, NEW ttl \in TTLs,
               RenewLeaseTx(c.task, c.token, ttl, now)
        PROVE  Told
    BY <1>1, <1>9, <1>RenewLeaseTold
  <1>10. ASSUME NEW t \in TaskId, NEW token, NEW now \in Time, CancelTaskTx(t, token, now)
         PROVE  Told
    BY <1>10, <1>CancelTaskTold
  <1>11. ASSUME NEW c \in claims, ReleaseLeaseTx(c.task, c.token) PROVE Told
    BY <1>1, <1>11, <1>ReleaseLeaseTold
  <1>12. ASSUME NEW S \in SUBSET TaskId, NEW now \in Time, RecoverLeasesTx(S, now) PROVE Told
    BY <1>12, <1>RecoverLeasesTold
  <1>13. \A S \in {TaskId} \cup {{t} : t \in TaskId} : S \in SUBSET TaskId
    OBVIOUS
  <1> QED
    BY <1>1, <1>2, <1>3, <1>4, <1>5, <1>6, <1>7, <1>8, <1>9, <1>10, <1>11, <1>12, <1>13,
       ClaimTaskMade, ClaimReadyTaskMade, ZenonT(40) DEF TaskTx

-----------------------------------------------------------------------------
(* The transactions on commands. *)

CommandKinds == {"command_created", "command_claimed", "command_released", "command_handled"}

\* The record is of a command, and says nothing of a task or the end of a run.
AsideRecord(e) ==
    /\ e \in EventRecord /\ e.command # 0 /\ e.run <= nextRun
    /\ e.worker = NoWorker /\ e.attempt = 0 /\ e.kind \notin DOMAIN RunStatusFromEvent

\* Every transaction on commands preserves the core and is told by its records.
LEMMA CommandTxTold ==
    ASSUME CommandCore, RunsKnown, CommandTx
    PROVE  CommandCore' /\ Told
  <1>0. TypeOK
    BY DEF CommandCore, CoreInv
  <1> USE <1>0

  <1>CommandRecordIs.
      ASSUME NEW k \in CommandId, NEW c \in Command, c.run \in 0..nextRun,
             NEW kind \in CommandKinds
      PROVE  /\ AsideRecord(CommandRecord(kind, k, c)) /\ CommandRecord(kind, k, c).kind = kind
             /\ CommandRecord(kind, k, c).command = k /\ kind \in DOMAIN StatusAfter
    <2> USE <1>CommandRecordIs
    <2>1. k \in Nat /\ k # 0
      BY SMT DEF CommandId
    <2>2. c.task \in Nat /\ c.run \in Nat /\ c.run <= nextRun
      <3>1. nextRun \in Nat /\ c.task \in Nat
        BY DEF TypeOK, Command
      <3> QED
        BY <3>1, SMT
    <2>3. kind \in EventKind
      BY KindsOfRecords DEF CommandKinds
    <2>4. kind \in DOMAIN StatusAfter
      BY Kinds DEF CommandKinds
    <2>5. kind \notin DOMAIN RunStatusFromEvent
      BY Kinds, SMT DEF CommandKinds
    <2>6. 0 \in Nat
      BY SMT
    <2> DEFINE e == CommandRecord(kind, k, c)
    <2>7. /\ e.kind = kind /\ e.task = c.task /\ e.run = c.run /\ e.attempt = 0
          /\ e.worker = NoWorker /\ e.command = k
      BY DEF CommandRecord, Record
    <2>8. e \in EventRecord
      BY <2>1, <2>2, <2>3, <2>6 DEF CommandRecord, Record, EventRecord
    <2> HIDE DEF e
    <2>9. AsideRecord(e)
      BY <2>1, <2>2, <2>5, <2>7, <2>8 DEF AsideRecord
    <2> QED
      BY <2>4, <2>7, <2>9 DEF e

  \* A step on commands is told by records of commands.
  <1>CommandStepTold.
      ASSUME UNCHANGED storeVars, NEW rs, NEW R, Has(rs, R), events' = events \o rs,
             \A e \in R : AsideRecord(e), \A k \in CommandId : CommandMoves(rs, k)
      PROVE  Told
    <2> USE <1>CommandStepTold
    <2>1. tasks' = tasks /\ claims' = claims /\ nextRun' = nextRun
      BY DEF storeVars
    <2>2. ASSUME NEW t \in TaskId PROVE TaskMoves(rs, t)
      <3>1. TaskRests(t)
        BY <2>1 DEF TaskRests
      <3>2. \A e \in R : e \notin TaskClass(t) /\ e \notin EndClass(tasks[t].run.id)
        BY DEF AsideRecord, TaskClass, EndClass
      <3>3. NoneOf(rs, TaskClass(t)) /\ NoneOf(rs, EndClass(tasks[t].run.id))
        BY <3>2, HasNoneOf
      <3> QED
        BY <3>1, <3>3 DEF TaskMoves
    <2>3. NoClaim(rs)
      <3>1. \A t \in TaskId : tasks[t].run.id <= nextRun /\ tasks[t].run.id \in Nat /\ nextRun \in Nat
        BY DEF TypeOK, Task, RunRef
      <3>2. \A t \in TaskId : tasks'[t].run.id # nextRun + 1
        BY <2>1, <3>1, SMT
      <3>3. \A e \in R : OfKnownRun(e)
        BY DEF AsideRecord, OfKnownRun
      <3> QED
        BY <2>1, <3>2, <3>3 DEF NoClaim, Has
    <2>4. StepTold(rs)
      BY <2>2, <2>3 DEF StepTold, Has
    <2> QED
      BY <2>4 DEF Told

  \* A step on one command.
  <1>OneCommandTold.
      ASSUME UNCHANGED storeVars, NEW k \in CommandId, NEW c \in Command,
             c.run \in 0..nextRun, NEW kind \in CommandKinds,
             events' = events \o <<CommandRecord(kind, k, c)>>,
             StatusAfter[kind] = commands'[k].status,
             \A j \in CommandId \ {k} : commands'[j].status = commands[j].status,
             \A j \in CommandId : commands'[j].run \in 0..nextRun
      PROVE  Told
    <2> USE <1>OneCommandTold
    <2>1. PICK e : e = CommandRecord(kind, k, c)
      OBVIOUS
    <2>2. AsideRecord(e) /\ e.kind = kind /\ e.command = k /\ kind \in DOMAIN StatusAfter
      BY <2>1, <1>CommandRecordIs
    <2>3. e \in EventRecord
      BY <2>2 DEF AsideRecord
    <2> DEFINE R == {e}
    <2>4. Has(<<e>>, R) /\ e \in R /\ \A f \in R : f = e
      BY <2>3, HasOne
    <2> HIDE DEF R
    <2>5. ASSUME NEW j \in CommandId PROVE CommandMoves(<<e>>, j)
      <3>1. CASE j = k
        <4>1. LastOf(<<e>>, e, CommandClass(k))
          <5>1. e \in CommandClass(k)
            BY <2>2, <2>3 DEF CommandClass
          <5> QED
            BY <2>4, <5>1, HasLastOf
        <4> QED
          BY <2>2, <2>3, <3>1, <4>1 DEF CommandMoves
      <3>2. CASE j # k
        <4>1. e \notin CommandClass(j)
          BY <2>2, <3>2 DEF CommandClass
        <4>2. NoneOf(<<e>>, CommandClass(j))
          BY <2>4, <4>1, HasNoneOf
        <4> QED
          BY <3>2, <4>2 DEF CommandMoves
      <3> QED
        BY <3>1, <3>2
    <2>6. events' = events \o <<e>>
      BY <2>1
    <2>7. \A f \in R : AsideRecord(f)
      BY <2>2, <2>4
    <2> QED
      BY <2>4, <2>5, <2>6, <2>7, <1>CommandStepTold

  <1>CreateCommandTold.
      ASSUME CommandCore', NEW kind \in Kind, NEW t \in TaskId,
             NEW run \in 0..nextRun, CreateCommandTx(kind, t, run)
      PROVE  Told
    <2> USE <1>CreateCommandTold
    <2> DEFINE n == nextCommand + 1
               r == IF run = 0 \/ kind = "abort" THEN tasks[t].run.id ELSE run
               w == IF tasks[t].status = "running" THEN tasks[t].run.worker ELSE NoWorker
               new == [NoCommand EXCEPT !.status = "pending", !.kind = kind, !.task = t,
                                        !.run = r, !.target = w]
    <2>1. n \in CommandId
      BY CommandConstants, SMT DEF CommandCore, CommandTypeOK, CreateCommandTx, CreateCommand, CommandId
    <2>2. TypeOK /\ commands \in [CommandId -> Command] /\ commands' \in [CommandId -> Command]
      BY DEF CommandCore, CommandTypeOK, CoreInv
    <2>3. /\ commands' = [commands EXCEPT ![n] = new] /\ UNCHANGED storeVars
          /\ events' = events \o <<CommandRecord("command_created", n, commands'[n])>>
      BY DEF CreateCommandTx, CreateCommand, CommitAndPublish, Commit
    <2>4. r \in 0..nextRun
      <3>1. tasks[t].run.id \in Nat /\ tasks[t].run.id <= nextRun /\ nextRun \in Nat
        BY <2>2 DEF TypeOK, Task, RunRef
      <3> QED
        BY <3>1, SMT
    <2> HIDE DEF r, w
    <2>5. new.status = "pending" /\ new.run = r
      BY DEF NoCommand
    <2> HIDE DEF new, n
    <2>6. commands'[n] = new /\ \A j \in CommandId \ {n} : commands'[j] = commands[j]
      BY <2>1, <2>2, <2>3
    <2>7. \A j \in CommandId : commands'[j].run \in 0..nextRun
      BY <2>4, <2>5, <2>6 DEF RunsKnown
    <2>8. "command_created" \in CommandKinds /\ StatusAfter["command_created"] = "pending"
      BY Kinds DEF CommandKinds
    <2>9. PICK c : c = commands'[n]
      OBVIOUS
    <2>10. c \in Command /\ c.run \in 0..nextRun
      BY <2>1, <2>2, <2>7, <2>9
    <2>11. /\ StatusAfter["command_created"] = commands'[n].status
           /\ \A j \in CommandId \ {n} : commands'[j].status = commands[j].status
      BY <2>5, <2>6, <2>8
    <2>12. events' = events \o <<CommandRecord("command_created", n, c)>>
      BY <2>3, <2>9
    <2>13. PICK k : k = n
      OBVIOUS
    <2> QED
      BY <2>1, <2>2, <2>3, <2>7, <2>8, <2>10, <2>11, <2>12, <2>13, <1>OneCommandTold

  \* The run of a command that is claimed.
  <1>ClaimedRun.
      ASSUME NEW c \in Command, NEW w, NEW now, NEW token
      PROVE  /\ Claimed(c, w, now, token).status = "claimed"
             /\ Claimed(c, w, now, token).run = c.run
    BY DEF Claimed, Command

  \* A readdressed command names a run that was started.
  <1>RefreshedRun.
      ASSUME NEW k \in CommandId, Pending(k)
      PROVE  Refreshed(k).run \in 0..nextRun
    <2> USE <1>RefreshedRun
    <2> DEFINE c == commands[k]
               t == tasks[c.task]
    <2>1. c \in Command /\ c.task \in TaskId /\ c.run \in 0..nextRun
      BY DEF CommandCore, CommandTypeOK, Pending, RunsKnown
    <2>2. TypeOK
      BY DEF CommandCore, CoreInv
    <2>a. \A u \in TaskId : tasks[u].run.id \in Nat /\ tasks[u].run.id <= nextRun /\ nextRun \in Nat
      BY <2>2 DEF TypeOK, Task, RunRef
    <2>3. t.run.id \in Nat /\ t.run.id <= nextRun /\ nextRun \in Nat
      BY <2>1, <2>a
    <2>4. t.run.id \in 0..nextRun /\ 0 \in 0..nextRun
      BY <2>3, SMT
    <2>6. Refreshed(k).run = 0 \/ Refreshed(k).run = t.run.id \/ Refreshed(k).run = c.run
      <3> HIDE DEF t
      <3>1. \/ Refreshed(k) = c
            \/ \E x : Refreshed(k) = [c EXCEPT !.target = x]
            \/ \E x : \E r \in {0, t.run.id, c.run} : Refreshed(k) = [c EXCEPT !.target = x, !.run = r]
            \/ \E x : \E r \in {0, t.run.id, c.run} : Refreshed(k) = [c EXCEPT !.run = r, !.target = x]
        BY ZenonT(60) DEF Refreshed, t
      <3>2. PICK y : y = Refreshed(k)
        OBVIOUS
      <3> HIDE DEF c
      <3>3. ASSUME NEW x, Refreshed(k) = [c EXCEPT !.target = x] PROVE y.run = c.run
        BY <2>1, <3>2, <3>3 DEF Command
      <3>4. ASSUME NEW x, NEW r, Refreshed(k) = [c EXCEPT !.target = x, !.run = r] PROVE y.run = r
        BY <2>1, <3>2, <3>4 DEF Command
      <3>5. ASSUME NEW x, NEW r, Refreshed(k) = [c EXCEPT !.run = r, !.target = x] PROVE y.run = r
        BY <2>1, <3>2, <3>5 DEF Command
      <3>6. y.run = 0 \/ y.run = t.run.id \/ y.run = c.run
        BY <3>1, <3>2, <3>3, <3>4, <3>5
      <3> QED
        BY <3>2, <3>6, ZenonT(40)
    <2> QED
      BY <2>1, <2>4, <2>6

  <1>ClaimCommandTold.
      ASSUME NEW k \in CommandId, NEW w \in Worker, NEW now \in Time,
             NEW seen \in SUBSET CommandId, Pending(k), \A j \in seen : Pending(j),
             ClaimCommandTx(k, w, now, seen)
      PROVE  Told
    <2> USE <1>ClaimCommandTold
    <2> DEFINE d == Claimed(Refreshed(k), w, now, nanos + 1)
    <2>1. TypeOK /\ UNCHANGED storeVars
          /\ events' = events \o <<CommandRecord("command_claimed", k, Refreshed(k))>>
      BY DEF CommandCore, CoreInv, ClaimCommandTx, ClaimSeen, CommitAndPublish, Commit
    <2>2. \A j \in CommandId :
            commands'[j] = IF j = k THEN d ELSE IF j \in seen THEN Refreshed(j) ELSE commands[j]
      BY DEF ClaimCommandTx, ClaimSeen
    <2>3. now \in Nat /\ nanos + 1 \in Nat
      BY SMT DEF CommandCore, CommandTypeOK, Time
    <2>4. Refreshed(k) \in Command /\ Refreshed(k).run \in 0..nextRun
      BY RefreshedCore, <1>RefreshedRun
    <2>5. d.status = "claimed" /\ d.run = Refreshed(k).run
      <3>1. PICK c \in Command : c = Refreshed(k)
        BY <2>4
      <3>2. d = Claimed(c, w, now, nanos + 1)
        BY <3>1
      <3> HIDE DEF d
      <3>3. /\ Claimed(c, w, now, nanos + 1).status = "claimed"
            /\ Claimed(c, w, now, nanos + 1).run = c.run
        BY <1>ClaimedRun, ZenonT(40)
      <3> QED
        BY <3>1, <3>2, <3>3
    <2>6. \A j \in seen : Refreshed(j).status = commands[j].status /\ Refreshed(j).run \in 0..nextRun
      BY RefreshedCore, <1>RefreshedRun DEF Pending
    <2> HIDE DEF d
    <2>7. \A j \in CommandId : commands'[j].run \in 0..nextRun
      BY <2>2, <2>4, <2>5, <2>6 DEF RunsKnown
    <2>8. \A j \in CommandId \ {k} : commands'[j].status = commands[j].status
      BY <2>2, <2>6
    <2>9. "command_claimed" \in CommandKinds /\ StatusAfter["command_claimed"] = "claimed"
      BY Kinds DEF CommandKinds
    <2>10. StatusAfter["command_claimed"] = commands'[k].status
      BY <2>2, <2>5, <2>9
    <2> QED
      BY <2>1, <2>4, <2>7, <2>8, <2>9, <2>10, <1>OneCommandTold

  <1>HandleCommandTold.
      ASSUME NEW k \in CommandId, NEW token, NEW w,
             HandleCommandTx(k, token, w)
      PROVE  Told
    <2> USE <1>HandleCommandTold
    <2>1. /\ TypeOK /\ UNCHANGED storeVars /\ commands \in [CommandId -> Command]
          /\ events' = events \o <<CommandRecord("command_handled", k, commands[k])>>
          /\ commands' = [commands EXCEPT ![k].status = "handled", ![k].handledBy = w, ![k].token = 0]
      BY DEF CommandCore, CoreInv, CommandTypeOK, HandleCommandTx, HandleCommand, CommitAndPublish, Commit
    <2>2. \A j \in CommandId : commands[j] \in Command /\ commands[j].run \in 0..nextRun
      BY <2>1 DEF RunsKnown
    <2>3. /\ commands'[k].status = "handled" /\ commands'[k].run = commands[k].run
          /\ \A j \in CommandId \ {k} : commands'[j] = commands[j]
      BY <2>1, <2>2, SMTT(30) DEF Command
    <2>4. \A j \in CommandId : commands'[j].run \in 0..nextRun
      BY <2>2, <2>3
    <2>5. "command_handled" \in CommandKinds /\ StatusAfter["command_handled"] = "handled"
      BY Kinds DEF CommandKinds
    <2>6. /\ StatusAfter["command_handled"] = commands'[k].status
          /\ \A j \in CommandId \ {k} : commands'[j].status = commands[j].status
      BY <2>3, <2>5
    <2> QED
      BY <2>1, <2>2, <2>4, <2>5, <2>6, <1>OneCommandTold

  <1>ReleaseCommandTold.
      ASSUME NEW k \in CommandId, NEW token, ReleaseCommandTx(k, token)
      PROVE  Told
    <2> USE <1>ReleaseCommandTold
    <2>1. /\ TypeOK /\ UNCHANGED storeVars /\ commands \in [CommandId -> Command]
          /\ events' = events \o <<CommandRecord("command_released", k, commands[k])>>
          /\ commands' = [commands EXCEPT ![k] = Unclaimed(commands[k])]
      BY DEF CommandCore, CoreInv, CommandTypeOK, ReleaseCommandTx, ReleaseCommand, CommitAndPublish, Commit
    <2>2. \A j \in CommandId : commands[j] \in Command /\ commands[j].run \in 0..nextRun
      BY <2>1 DEF RunsKnown
    <2>3. /\ commands'[k] = Unclaimed(commands[k])
          /\ \A j \in CommandId \ {k} : commands'[j] = commands[j]
      BY <2>1
    <2>4. Unclaimed(commands[k]).status = "pending" /\ Unclaimed(commands[k]).run = commands[k].run
      BY <2>2 DEF Unclaimed, Command
    <2>5. \A j \in CommandId : commands'[j].run \in 0..nextRun
      BY <2>2, <2>3, <2>4
    <2>6. "command_released" \in CommandKinds /\ StatusAfter["command_released"] = "pending"
      BY Kinds DEF CommandKinds
    <2>7. /\ StatusAfter["command_released"] = commands'[k].status
          /\ \A j \in CommandId \ {k} : commands'[j].status = commands[j].status
      BY <2>3, <2>4, <2>6
    <2> QED
      BY <2>1, <2>2, <2>5, <2>6, <2>7, <1>OneCommandTold

  <1>RecoverCommandsTold.
      ASSUME NEW S \in SUBSET CommandId, NEW before,
             RecoverCommandsTx(S, before)
      PROVE  Told
    <2> USE <1>RecoverCommandsTold
    <2> DEFINE stale == {k \in S : commands[k].status = "claimed" /\ commands[k].claimedAt <= before}
               R == {CommandRecord("command_released", k, commands[k]) : k \in stale}
    <2>1. /\ TypeOK /\ UNCHANGED storeVars /\ commands \in [CommandId -> Command]
          /\ stale \in SUBSET CommandId
      BY DEF CommandCore, CoreInv, CommandTypeOK, RecoverCommandsTx, RecoverCommands
    <2>2. PICK rs \in Listings(R) : events' = events \o rs
      BY DEF RecoverCommandsTx, CommitAndPublish, Commit
    <2>3. \A j \in CommandId :
              commands'[j] = IF j \in stale THEN Unclaimed(commands[j]) ELSE commands[j]
      BY DEF RecoverCommandsTx, RecoverCommands
    <2>4. \A j \in CommandId : commands[j] \in Command /\ commands[j].run \in 0..nextRun
      BY <2>1 DEF RunsKnown
    <2>5. "command_released" \in CommandKinds /\ StatusAfter["command_released"] = "pending"
      BY Kinds DEF CommandKinds
    <2>6. ASSUME NEW j \in CommandId
          PROVE  /\ AsideRecord(CommandRecord("command_released", j, commands[j]))
                 /\ CommandRecord("command_released", j, commands[j]).kind = "command_released"
                 /\ CommandRecord("command_released", j, commands[j]).command = j
                 /\ "command_released" \in DOMAIN StatusAfter
      <3>1. PICK kind \in CommandKinds : kind = "command_released"
        BY <2>5
      <3>2. PICK c : c = commands[j]
        OBVIOUS
      <3>3. c \in Command /\ c.run \in 0..nextRun
        BY <2>4, <3>2
      <3>4. /\ AsideRecord(CommandRecord(kind, j, c)) /\ CommandRecord(kind, j, c).kind = kind
            /\ CommandRecord(kind, j, c).command = j /\ kind \in DOMAIN StatusAfter
        BY <2>1, <3>3, <1>CommandRecordIs
      <3> QED
        BY <3>1, <3>2, <3>4
    <2>7. ASSUME NEW f \in R
          PROVE  /\ AsideRecord(f) /\ f.command \in stale
                 /\ f = CommandRecord("command_released", f.command, commands[f.command])
      <3>1. PICK k \in stale : f = CommandRecord("command_released", k, commands[k])
        OBVIOUS
      <3> HIDE DEF stale, R
      <3>2. AsideRecord(f) /\ f.command = k
        BY <2>1, <2>6, <3>1
      <3> QED
        BY <3>1, <3>2
    <2>8. \A j \in stale : CommandRecord("command_released", j, commands[j]) \in R
      OBVIOUS
    <2> HIDE DEF stale, R
    <2>9. R \in SUBSET EventRecord
      BY <2>7 DEF AsideRecord
    <2>10. Has(rs, R)
      BY <2>2, <2>9, HasListing
    <2>11. ASSUME NEW j \in CommandId, j \in stale PROVE CommandMoves(rs, j)
      <3>1. PICK e : e = CommandRecord("command_released", j, commands[j])
        OBVIOUS
      <3>2. /\ e \in R /\ AsideRecord(e) /\ e.kind = "command_released" /\ e.command = j
            /\ "command_released" \in DOMAIN StatusAfter
        BY <2>6, <2>8, <2>11, <3>1
      <3>3. e \in EventRecord /\ e \in CommandClass(j)
        BY <3>2 DEF CommandClass, AsideRecord
      <3>4. \A f \in R : f \in CommandClass(j) => f = e
        BY <2>7, <3>1 DEF CommandClass
      <3>5. LastOf(rs, e, CommandClass(j))
        BY <2>10, <3>2, <3>3, <3>4, HasLastOf
      <3>6. Unclaimed(commands[j]).status = "pending" /\ Unclaimed(commands[j]).run = commands[j].run
        BY <2>4 DEF Unclaimed, Command
      <3>7. commands'[j].status = "pending" /\ commands'[j].run \in 0..nextRun
        BY <2>3, <2>4, <2>11, <3>6
      <3> QED
        BY <2>5, <3>2, <3>3, <3>5, <3>7 DEF CommandMoves
    <2>12. ASSUME NEW j \in CommandId, j \notin stale PROVE CommandMoves(rs, j)
      <3>1. \A f \in R : f \notin CommandClass(j)
        BY <2>7, <2>12 DEF CommandClass
      <3>2. NoneOf(rs, CommandClass(j))
        BY <2>10, <3>1, HasNoneOf
      <3>3. commands'[j] = commands[j]
        BY <2>3, <2>12
      <3> QED
        BY <2>4, <3>2, <3>3 DEF CommandMoves
    <2>13. \A j \in CommandId : CommandMoves(rs, j)
      BY <2>11, <2>12
    <2>14. \A f \in R : AsideRecord(f)
      BY <2>7
    <2> QED
      BY <2>1, <2>2, <2>10, <2>13, <2>14, <1>CommandStepTold

  <1>1. \A cc \in commandClaims : cc.command \in CommandId
    BY DEF CommandCore, CommandTypeOK, CommandClaim
  <1>2. ASSUME NEW kind \in Kind, NEW t \in TaskId, NEW run \in 0..nextRun,
               CreateCommandTx(kind, t, run)
        PROVE  CommandCore' /\ Told
    <2>1. CommandCore'
      BY <1>2, CreateCommandKeeps DEF CreateCommandTx
    <2> QED
      BY <1>2, <2>1, <1>CreateCommandTold
  <1>3. ASSUME NEW k \in CommandId, NEW w \in Worker, NEW now \in Time,
               NEW seen \in SUBSET CommandId, Pending(k), \A j \in seen : Pending(j),
               ClaimCommandTx(k, w, now, seen)
        PROVE  CommandCore' /\ Told
    <2>1. CommandCore'
      BY <1>3, ClaimSeenKeeps DEF ClaimCommandTx
    <2> QED
      BY <1>3, <2>1, <1>ClaimCommandTold
  <1>4. ASSUME NEW w \in Worker, NEW now \in Time, ClaimPendingCommandTx(w, now)
        PROVE  CommandCore' /\ Told
    <2> DEFINE pending == {k \in CommandId : Pending(k)}
    <2>1. PICK k \in pending : ClaimCommandTx(k, w, now, {j \in pending : j < k})
      BY <1>4 DEF ClaimPendingCommandTx
    <2> DEFINE seen == {j \in pending : j < k}
    <2>2. /\ seen \in SUBSET CommandId /\ \A j \in seen : Pending(j)
          /\ k \in CommandId /\ Pending(k) /\ ClaimCommandTx(k, w, now, seen)
      BY <2>1
    <2> HIDE DEF seen
    <2> QED
      BY <1>3, <2>2
  <1>5. ASSUME NEW w \in Worker, NEW now \in Time, NEW k \in CommandId, Pending(k),
               ClaimCommandTx(k, w, now, {})
        PROVE  CommandCore' /\ Told
    <2>1. {} \in SUBSET CommandId /\ \A j \in {} : Pending(j)
      OBVIOUS
    <2> QED
      BY <1>3, <1>5, <2>1
  <1>6. ASSUME NEW cc \in commandClaims, HandleCommandTx(cc.command, cc.token, cc.worker)
        PROVE  CommandCore' /\ Told
    <2>1. CommandCore'
      BY <1>6, HandleCommandKeeps DEF HandleCommandTx
    <2> QED
      BY <1>1, <1>6, <2>1, <1>HandleCommandTold
  <1>7. ASSUME NEW cc \in commandClaims, ReleaseCommandTx(cc.command, cc.token)
        PROVE  CommandCore' /\ Told
    <2>1. CommandCore'
      BY <1>1, <1>7, ReleaseCommandKeeps DEF ReleaseCommandTx
    <2> QED
      BY <1>1, <1>7, <2>1, <1>ReleaseCommandTold
  <1>8. ASSUME NEW S \in SUBSET CommandId, NEW before \in Time, RecoverCommandsTx(S, before)
        PROVE  CommandCore' /\ Told
    <2>1. CommandCore'
      BY <1>8, RecoverCommandsKeeps DEF RecoverCommandsTx
    <2> QED
      BY <1>8, <2>1, <1>RecoverCommandsTold
  <1>9. \A S \in {CommandId} \cup {{k} : k \in CommandId} : S \in SUBSET CommandId
    OBVIOUS
  <1> QED
    BY <1>2, <1>4, <1>5, <1>6, <1>7, <1>8, <1>9, ZenonT(40) DEF CommandTx

-----------------------------------------------------------------------------
(* The theorems. *)

\* The inductive invariant of the durable store.
SqliteInv == CommandCore /\ RunsKnown /\ HistoryInv

\* A new database satisfies it.
LEMMA SqliteStart == SqliteInit => SqliteInv
  <1> SUFFICES ASSUME SqliteInit PROVE SqliteInv
    BY SMT
  <1>1. CommandCore
    BY CommandInit, CoreOfCommands DEF SqliteInit
  <1>2. /\ claims = {} /\ nextRun = 0 /\ events = <<>>
        /\ tasks = [t \in TaskId |-> NoTask]
        /\ commands = [k \in CommandId |-> NoCommand]
    BY DEF SqliteInit, Init, StoreInit
  <1>3. /\ \A t \in TaskId : tasks[t].run.id = 0 /\ tasks[t].status = "absent"
        /\ \A k \in CommandId : commands[k].run = 0 /\ commands[k].status = "absent"
    BY <1>2 DEF NoTask, NoRun, NoCommand
  <1>4. RunsKnown
    BY <1>2, <1>3, SMTT(30) DEF RunsKnown
  <1>5. events \in Seq(EventRecord) /\ Len(events) = 0 /\ 1..Len(events) = {}
    BY <1>2, SMT
  <1>6. \A t \in TaskId : TaskTold(events, t)
    BY <1>3, <1>5 DEF TaskTold, NoneOf
  <1>7. \A k \in CommandId : CommandTold(events, k)
    BY <1>3, <1>5 DEF CommandTold, NoneOf
  <1>8. HistoryInv
    BY <1>2, <1>5, <1>6, <1>7 DEF HistoryInv
  <1> QED
    BY <1>1, <1>4, <1>8 DEF SqliteInv

\* A told step that preserves the core preserves all of it.
LEMMA ToldKeeps ==
    ASSUME SqliteInv, CommandCore', Told
    PROVE  SqliteInv'
  <1>1. PICK rs : StepTold(rs)
    BY DEF Told
  <1>2. TypeOK /\ RunsKnown /\ HistoryInv
    BY DEF SqliteInv, CommandCore, CoreInv
  <1>3. RunsKnown' /\ HistoryInv'
    BY <1>1, <1>2, RunsStayKnown, HistoryGrows
  <1> QED
    BY <1>3 DEF SqliteInv

\* A step that changes neither the store nor its history.
LEMMA IdleKeeps ==
    ASSUME SqliteInv, UNCHANGED <<allVars, events>>
    PROVE  SqliteInv'
  <1>1. UNCHANGED storeVars /\ UNCHANGED commandVars /\ events' = events
    BY DEF allVars
  <1>2. /\ tasks' = tasks /\ claims' = claims /\ nextRun' = nextRun
        /\ commands' = commands
    BY <1>1 DEF storeVars, commandVars
  <1>3. CommandCore'
    <2>1. CommandCore
      BY DEF SqliteInv
    <2>2. CoreInv' /\ RunsWereClaimed'
      BY <1>1, <2>1, TasksAlone
    <2>3. CommandTypeOK' /\ OnlyClaimantHandles' /\ AbortPinnedToItsRun'
      BY <1>1, <1>2, <2>1 DEF commandVars, CommandCore, CommandTypeOK, OnlyClaimantHandles,
                                     ClaimHeld, AbortPinnedToItsRun
    <2> QED
      BY <2>2, <2>3 DEF CommandCore
  <1>4. RunsKnown'
    BY <1>2 DEF SqliteInv, RunsKnown
  <1>5. HistoryInv'
    <2>1. HistoryInv
      BY DEF SqliteInv
    <2>2. events' \in Seq(EventRecord) /\ \A i \in 1..Len(events') : Filed(events[i])'
      BY <1>1, <1>2, <2>1 DEF HistoryInv, Filed
    <2>3. \A c \in claims' : \E i \in 1..Len(events') : StartOf(events'[i], c)
      BY <1>1, <1>2, <2>1 DEF HistoryInv
    <2>4. \A t \in TaskId : TaskTold(events, t)'
      BY <1>1, <1>2, <2>1 DEF HistoryInv, TaskTold, Says, Exhausted
    <2>5. \A k \in CommandId : CommandTold(events, k)'
      BY <1>1, <1>2, <2>1 DEF HistoryInv, CommandTold
    <2>6. \A c \in claims' : tasks'[c.task].run.id = c.run => EndTold(events, c)'
      BY <1>1, <1>2, <2>1 DEF HistoryInv, EndTold, Says, Exhausted
    <2> QED
      BY <2>2, <2>3, <2>4, <2>5, <2>6 DEF HistoryInv
  <1> QED
    BY <1>3, <1>4, <1>5 DEF SqliteInv

\* Every step preserves the invariant.
LEMMA SqliteStep == SqliteInv /\ [SqliteNext]_sqliteVars => SqliteInv'
  <1> SUFFICES ASSUME SqliteInv, [SqliteNext]_sqliteVars PROVE SqliteInv'
    BY SMT
  <1>0. CommandCore /\ RunsKnown
    BY DEF SqliteInv
  <1>1. CASE TaskTx /\ UNCHANGED commandVars
    <2>1. CommandCore'
      BY <1>0, <1>1, TaskTxKeeps
    <2>2. Told
      BY <1>0, <1>1, <2>1, TaskTxTold DEF CommandCore
    <2> QED
      BY <2>1, <2>2, ToldKeeps
  <1>2. CASE CommandTx
    BY <1>0, <1>2, CommandTxTold, ToldKeeps
  <1>3. CASE Publish \/ Crash
    BY <1>3, IdleKeeps DEF Publish, Crash
  <1>4. CASE UNCHANGED sqliteVars
    BY <1>4, IdleKeeps DEF sqliteVars, historyVars
  <1> QED
    BY <1>1, <1>2, <1>3, <1>4 DEF SqliteNext

\* The invariant holds in every reachable state of the durable store.
THEOREM SqliteSafe == SqliteSpec => []SqliteInv
  BY SqliteStart, SqliteStep, PTL DEF SqliteSpec

\* The tokens fence the runs in the durable store as in the memory store: of
\* all claims of a task only that of its lease opens it, and a task runs exactly
\* as long as it is leased.
THEOREM SqliteFencing == SqliteSpec => [](LeaseFencesRun /\ RunningIffLeased)
  <1>1. SqliteInv => LeaseFencesRun /\ RunningIffLeased
    BY DEF SqliteInv, CommandCore, CoreInv
  <1> QED
    BY <1>1, SqliteSafe, PTL

\* Of all the claims handed out for a command one at most is good, and who
\* acknowledges the command holds it.
THEOREM SqliteClaimant == SqliteSpec => []OnlyClaimantHandles
  <1>1. SqliteInv => OnlyClaimantHandles
    BY DEF SqliteInv, CommandCore
  <1> QED
    BY <1>1, SqliteSafe, PTL

-----------------------------------------------------------------------------
(* What is published is what the history says. *)

\* s is a sequence, of whatever.
IsSeq(s) == \E S : s \in Seq(S)

LEMMA OneIsSeq == ASSUME NEW e PROVE IsSeq(<<e>>)
  <1>1. <<e>> \in Seq({e})
    BY SMT
  <1> QED
    BY <1>1 DEF IsSeq

LEMMA NoneIsSeq == IsSeq(<<>>)
  <1>1. <<>> \in Seq({})
    BY SMT
  <1> QED
    BY <1>1 DEF IsSeq

LEMMA BothAreSeq == ASSUME NEW a, NEW b, IsSeq(a), IsSeq(b) PROVE IsSeq(a \o b)
  <1>1. PICK A, B : a \in Seq(A) /\ b \in Seq(B)
    BY DEF IsSeq
  <1>2. a \in Seq(A \cup B) /\ b \in Seq(A \cup B)
    BY <1>1, SMT
  <1>3. a \o b \in Seq(A \cup B)
    BY <1>2, SMT
  <1> QED
    BY <1>3 DEF IsSeq

\* The new end of a sequence.
LEMMA NewEnd ==
    ASSUME NEW s, NEW r, IsSeq(s), IsSeq(r)
    PROVE  SubSeq(s \o r, Len(s) + 1, Len(s \o r)) = r
  <1>1. PICK A, B : s \in Seq(A) /\ r \in Seq(B)
    BY DEF IsSeq
  <1>2. s \in Seq(A \cup B) /\ r \in Seq(A \cup B)
    BY <1>1, SMT
  <1>3. Len(s) \in Nat /\ Len(r) \in Nat /\ Len(s \o r) = Len(s) + Len(r)
    BY <1>2, SMT
  <1> QED
    BY <1>2, <1>3, SMT

\* Of the records R none is of a command, and of those of one task one at most
\* tells its status.
OneWordEach(R) ==
    /\ \A e \in R : e.command = 0
    /\ \A d, e \in R : /\ d.task = e.task
                      /\ d.kind \in DOMAIN StatusAfter /\ e.kind \in DOMAIN StatusAfter => d = e

\* A transaction publishes what it wrote, or the same records in another order,
\* of which one at most tells the status of a task.
Committed ==
    \E written, published :
        /\ IsSeq(written) /\ Commit(written, published)
        /\ \/ published = written
           \/ \E R : written \in Listings(R) /\ published \in Listings(R) /\ OneWordEach(R)

LEMMA PublishesOwn ==
    ASSUME NEW records, IsSeq(records), CommitAndPublish(records)
    PROVE  Committed
  BY DEF CommitAndPublish, Committed

LEMMA ListingIsSeq == ASSUME NEW R, NEW s \in Listings(R) PROVE IsSeq(s)
  <1>1. PICK n \in 0..Cardinality(R) : s \in Bijection(1..n, R)
    BY DEF Listings
  <1>2. s \in [1..n -> R]
    BY <1>1 DEF Bijection, Injection
  <1>3. s \in Seq(R)
    BY <1>1, <1>2, SMT
  <1> QED
    BY <1>3 DEF IsSeq

\* Every transaction on tasks does.
LEMMA TaskTxCommits ==
    ASSUME CommandCore, TaskTx
    PROVE  Committed
  <1>1. ASSUME NEW e, NEW R, NEW updated \in Listings(R), CommitAndPublish(<<e>> \o updated)
        PROVE  Committed
    BY <1>1, OneIsSeq, ListingIsSeq, BothAreSeq, PublishesOwn
  <1>2. ASSUME NEW e, CommitAndPublish(<<e>>) PROVE Committed
    BY <1>2, OneIsSeq, PublishesOwn
  <1>3. ASSUME NEW B, NEW D, NEW limit, CreateTaskTx(B, D, limit) PROVE Committed
    BY <1>1, <1>3 DEF CreateTaskTx, PeerRecords
  <1>4. ASSUME NEW t, NEW B, NEW D, UpdateTaskTx(t, B, D) PROVE Committed
    BY <1>1, <1>4 DEF UpdateTaskTx, PeerRecords
  <1>5. ASSUME NEW t, DeleteTaskTx(t) \/ RetryTaskTx(t) \/ CreateArtifactTx(t) PROVE Committed
    BY <1>1, <1>2, <1>5 DEF DeleteTaskTx, RetryTaskTx, CreateArtifactTx, PeerRecords
  <1>6. ASSUME NEW reported, NEW failed \in FailedRecords(reported)
        PROVE  IsSeq(failed)
    BY <1>6, ListingIsSeq DEF FailedRecords
  <1>7. ASSUME Rejected PROVE Committed
    BY <1>6, <1>7, PublishesOwn DEF Rejected, RejectTx
  <1>8. ASSUME Granted PROVE Committed
    BY <1>6, <1>8, OneIsSeq, BothAreSeq, PublishesOwn DEF Granted, GrantTx
  <1>9. ASSUME NEW t, NEW token, NEW emits, NEW now, CompleteTaskTx(t, token, emits, now)
        PROVE  Committed
    <2> DEFINE e == RunRecord("task_completed", t)
               rest == IF emits THEN <<RunRecord("artifact_created", t)>> ELSE <<>>
    <2>1. CommitAndPublish(<<e>> \o rest)
      BY <1>9 DEF CompleteTaskTx
    <2>2. IsSeq(rest)
      BY OneIsSeq, NoneIsSeq
    <2> HIDE DEF e, rest
    <2> QED
      BY <2>1, <2>2, OneIsSeq, BothAreSeq, PublishesOwn
  <1>10. ASSUME NEW t, NEW token, NEW retryable, NEW ttl, NEW now,
                \/ FailTaskTx(t, token, retryable, now)
                \/ RenewLeaseTx(t, token, ttl, now)
                \/ CancelTaskTx(t, token, now)
         PROVE  Committed
    BY <1>2, <1>10 DEF FailTaskTx, RenewLeaseTx, CancelTaskTx
  <1>11. ASSUME NEW t, NEW token, ReleaseLeaseTx(t, token) PROVE Committed
    <2> DEFINE e == LeaseRecord("lease_released", t)
               rest == IF tasks[t].status = "running" THEN <<RunRecord("task_requeued", t)>> ELSE <<>>
    <2>1. CommitAndPublish(<<e>> \o rest)
      BY <1>11 DEF ReleaseLeaseTx
    <2>2. IsSeq(rest)
      BY OneIsSeq, NoneIsSeq
    <2> HIDE DEF e, rest
    <2> QED
      BY <2>1, <2>2, OneIsSeq, BothAreSeq, PublishesOwn
  <1>12. ASSUME NEW S, NEW now, RecoverLeasesTx(S, now) PROVE Committed
    <2> DEFINE lost == {t \in S : LeaseExpired(t, now)}
               R == {LeaseRecord("lease_released", t) : t \in lost}
                    \cup {RunRecord(IF Exhausted(t) THEN "task_failed" ELSE "task_requeued", t) :
                             t \in {u \in lost : tasks[u].status = "running"}}
    <2>1. PICK written \in Listings(R), published \in Listings(R) : Commit(written, published)
      BY <1>12 DEF RecoverLeasesTx
    <2>2. OneWordEach(R)
      <3>1. ASSUME NEW e \in R
            PROVE  /\ e.command = 0
                   /\ e.kind \in DOMAIN StatusAfter =>
                        e = RunRecord(IF Exhausted(e.task) THEN "task_failed" ELSE "task_requeued", e.task)
        <4>1. CASE \E t \in lost : e = LeaseRecord("lease_released", t)
          BY <4>1, Kinds, SMT DEF LeaseRecord, Record
        <4>2. CASE \E t \in lost : e = RunRecord(IF Exhausted(t) THEN "task_failed" ELSE "task_requeued", t)
          <5>1. PICK t \in lost : e = RunRecord(IF Exhausted(t) THEN "task_failed" ELSE "task_requeued", t)
            BY <4>2
          <5>2. e.task = t /\ e.command = 0
            BY <5>1 DEF RunRecord, Record
          <5> QED
            BY <5>1, <5>2
        <4> QED
          BY <4>1, <4>2
      <3> HIDE DEF R
      <3> QED
        BY <3>1 DEF OneWordEach
    <2> HIDE DEF R
    <2> QED
      BY <2>1, <2>2, ListingIsSeq DEF Committed
  <1> QED
    BY <1>3, <1>4, <1>5, <1>7, <1>8, <1>9, <1>10, <1>11, <1>12,
       ClaimTaskMade, ClaimReadyTaskMade, ZenonT(40) DEF TaskTx

\* So does every transaction on commands.
LEMMA CommandTxCommits ==
    ASSUME CommandTx
    PROVE  Committed
  <1>1. ASSUME NEW e, CommitAndPublish(<<e>>) PROVE Committed
    BY <1>1, OneIsSeq, PublishesOwn
  <1>2. ASSUME NEW S, NEW before, RecoverCommandsTx(S, before) PROVE Committed
    BY <1>2, ListingIsSeq, PublishesOwn DEF RecoverCommandsTx
  <1> QED
    BY <1>1, <1>2, ZenonT(40) DEF CommandTx, CreateCommandTx, ClaimPendingCommandTx, ClaimCommandTx,
                                   HandleCommandTx, ReleaseCommandTx

-----------------------------------------------------------------------------
(* What a subscriber makes of what is published. *)

\* A subscriber that takes the status of task t, or of command k, to be s is right.
FollowsTask(s, t) ==
    \/ s = tasks[t].status
    \/ s = "failed" /\ tasks[t].status = "completed" /\ Exhausted(t)

\* The subscriber is right or will be, when it has heard the events of the outbox.
TaskFollows(t) ==
    \/ NoneOf(outbox, TaskClass(t)) /\ FollowsTask(told.tasks[t], t)
    \/ \E e \in EventRecord : LastOf(outbox, e, TaskClass(t)) /\ Says(e.kind, t, StatusAfter)
CommandFollows(k) ==
    \/ NoneOf(outbox, CommandClass(k)) /\ told.commands[k] = commands[k].status
    \/ \E e \in EventRecord :
          LastOf(outbox, e, CommandClass(k)) /\ StatusAfter[e.kind] = commands[k].status

FollowInv ==
    /\ outbox \in Seq(EventRecord)
    /\ \A t \in TaskId : TaskFollows(t)
    /\ \A k \in CommandId : CommandFollows(k)

\* With nothing left to hear the subscriber is right.
LEMMA FollowsWhenHeard ==
    ASSUME FollowInv
    PROVE  SubscribersFollow
  <1> SUFFICES ASSUME outbox = <<>>
               PROVE  /\ \A t \in TaskId : FollowsTask(told.tasks[t], t)
                      /\ \A k \in CommandId : told.commands[k] = commands[k].status
    BY DEF SubscribersFollow, FollowsTask
  <1>1. 1..Len(outbox) = {}
    BY SMT
  <1>2. \A e, C : ~LastOf(outbox, e, C)
    BY <1>1 DEF LastOf
  <1> QED
    BY <1>2 DEF FollowInv, TaskFollows, CommandFollows

\* Two listings of the same records have them both.
LEMMA SameListed ==
    ASSUME NEW R, NEW r \in Listings(R), NEW p \in Listings(R), r \in Seq(EventRecord)
    PROVE  Has(r, R) /\ Has(p, R)
  <1>1. PICK n \in 0..Cardinality(R) : r \in Bijection(1..n, R)
    BY DEF Listings
  <1>2. r \in [1..n -> R] /\ (\A e \in R : \E i \in 1..n : r[i] = e) /\ n \in Nat
    BY <1>1, SMT DEF Bijection, Injection, Surjection
  <1>3. Len(r) = n
    BY <1>2, SMT
  <1>4. \A i \in 1..Len(r) : r[i] \in EventRecord
    BY SMT
  <1>5. R \in SUBSET EventRecord
    BY <1>2, <1>3, <1>4
  <1> QED
    BY <1>5, HasListing

\* What is published tells what the records written tell.
LEMMA PublishedTells ==
    ASSUME NEW rs \in Seq(EventRecord), NEW ps,
           \/ ps = rs
           \/ \E R : rs \in Listings(R) /\ ps \in Listings(R) /\ OneWordEach(R)
    PROVE  /\ ps \in Seq(EventRecord)
           /\ \A t \in TaskId : /\ NoneOf(rs, TaskClass(t)) => NoneOf(ps, TaskClass(t))
                                /\ \A e : LastOf(rs, e, TaskClass(t)) => LastOf(ps, e, TaskClass(t))
           /\ \A k \in CommandId :
                 /\ NoneOf(rs, CommandClass(k)) => NoneOf(ps, CommandClass(k))
                 /\ \A e : LastOf(rs, e, CommandClass(k)) => LastOf(ps, e, CommandClass(k))
  <1>1. CASE ps = rs
    BY <1>1
  <1>2. ASSUME NEW R, rs \in Listings(R), ps \in Listings(R), OneWordEach(R)
        PROVE  /\ ps \in Seq(EventRecord)
               /\ \A t \in TaskId : /\ NoneOf(rs, TaskClass(t)) => NoneOf(ps, TaskClass(t))
                                    /\ \A e : LastOf(rs, e, TaskClass(t)) => LastOf(ps, e, TaskClass(t))
               /\ \A k \in CommandId :
                     /\ NoneOf(rs, CommandClass(k)) => NoneOf(ps, CommandClass(k))
                     /\ \A e : LastOf(rs, e, CommandClass(k)) => LastOf(ps, e, CommandClass(k))
    <2>1. Has(rs, R) /\ Has(ps, R)
      BY <1>2, SameListed
    <2>2. ASSUME NEW C, NoneOf(rs, C) PROVE NoneOf(ps, C)
      <3>1. \A e \in R : e \notin C
        BY <2>1, <2>2 DEF Has, NoneOf
      <3> QED
        BY <2>1, <3>1, HasNoneOf
    <2>3. ASSUME NEW t \in TaskId, NEW e, LastOf(rs, e, TaskClass(t))
          PROVE  LastOf(ps, e, TaskClass(t))
      <3>1. e \in R /\ e \in TaskClass(t)
        BY <2>1, <2>3 DEF Has, LastOf
      <3>2. \A f \in R : f \in TaskClass(t) => f = e
        BY <1>2, <3>1 DEF OneWordEach, TaskClass
      <3> QED
        BY <2>1, <3>1, <3>2, HasLastOf
    <2>4. ASSUME NEW k \in CommandId, NEW e, LastOf(rs, e, CommandClass(k)) PROVE FALSE
      <3>1. e \in R /\ e.command = k
        BY <2>1, <2>4 DEF Has, LastOf, CommandClass
      <3>2. k = 0
        BY <1>2, <3>1 DEF OneWordEach
      <3> QED
        BY <3>2, SMT DEF CommandId
    <2>5. ps \in Seq(EventRecord)
      BY <2>1 DEF Has
    <2> QED
      BY <2>2, <2>3, <2>4, <2>5
  <1> QED
    BY <1>1, <1>2

\* A transaction that is told by its records is told to subscribers too.
LEMMA CommitFollows ==
    ASSUME HistoryInv, FollowInv, outbox = <<>>, Told, Committed
    PROVE  FollowInv'
  <1>1. PICK rs : StepTold(rs)
    BY DEF Told
  <1>2. PICK written, published :
            /\ IsSeq(written) /\ Commit(written, published)
            /\ \/ published = written
               \/ \E R : written \in Listings(R) /\ published \in Listings(R) /\ OneWordEach(R)
    BY DEF Committed
  <1>3. /\ events' = events \o written /\ outbox' = published /\ told' = told
        /\ events' = events \o rs /\ rs \in Seq(EventRecord)
    BY <1>1, <1>2 DEF Commit, StepTold
  <1>4. IsSeq(events) /\ IsSeq(rs)
    BY <1>3 DEF HistoryInv, IsSeq
  <1>5. written = rs
    <2> DEFINE new == SubSeq(events', Len(events) + 1, Len(events'))
    <2>1. new = written
      BY <1>2, <1>3, <1>4, NewEnd
    <2>2. new = rs
      BY <1>3, <1>4, NewEnd
    <2> QED
      BY <2>1, <2>2
  <1>6. /\ outbox' \in Seq(EventRecord)
        /\ \A t \in TaskId : /\ NoneOf(rs, TaskClass(t)) => NoneOf(outbox', TaskClass(t))
                             /\ \A e : LastOf(rs, e, TaskClass(t)) => LastOf(outbox', e, TaskClass(t))
        /\ \A k \in CommandId :
              /\ NoneOf(rs, CommandClass(k)) => NoneOf(outbox', CommandClass(k))
              /\ \A e : LastOf(rs, e, CommandClass(k)) => LastOf(outbox', e, CommandClass(k))
    BY <1>2, <1>3, <1>5, PublishedTells
  <1>7. /\ \A t \in TaskId : FollowsTask(told.tasks[t], t)
        /\ \A k \in CommandId : told.commands[k] = commands[k].status
    BY FollowsWhenHeard DEF SubscribersFollow, FollowsTask
  <1>8. ASSUME NEW t \in TaskId PROVE TaskFollows(t)'
    <2>1. CASE TaskRests(t) /\ NoneOf(rs, TaskClass(t))
      <3>1. FollowsTask(told.tasks[t], t)'
        BY <1>3, <1>7, <2>1 DEF FollowsTask, TaskRests, Exhausted
      <3> QED
        BY <1>6, <2>1, <3>1 DEF TaskFollows
    <2>2. ASSUME NEW e \in EventRecord, LastOf(rs, e, TaskClass(t)), Says(e.kind, t, StatusAfter)'
          PROVE  TaskFollows(t)'
      BY <1>6, <2>2 DEF TaskFollows
    <2> QED
      BY <1>1, <2>1, <2>2 DEF StepTold, TaskMoves
  <1>9. ASSUME NEW k \in CommandId PROVE CommandFollows(k)'
    <2>1. CASE commands'[k].status = commands[k].status /\ NoneOf(rs, CommandClass(k))
      BY <1>3, <1>6, <1>7, <2>1 DEF CommandFollows
    <2>2. ASSUME NEW e \in EventRecord, LastOf(rs, e, CommandClass(k)),
                 StatusAfter[e.kind] = commands'[k].status
          PROVE  CommandFollows(k)'
      BY <1>6, <2>2 DEF CommandFollows
    <2> QED
      BY <1>1, <2>1, <2>2 DEF StepTold, CommandMoves
  <1> QED
    BY <1>6, <1>8, <1>9 DEF FollowInv

\* What a subscriber makes of the events of the outbox that are in C.
LEMMA LastIsHeard ==
    ASSUME WellOrdered, outbox \in Seq(EventRecord), NEW C, NEW news,
           news = {i \in 1..Len(outbox) : outbox[i] \in C}
    PROVE  /\ NoneOf(outbox, C) => news = {}
           /\ \A e : LastOf(outbox, e, C) => news # {} /\ outbox[Max(news)] = e
  <1>1. NoneOf(outbox, C) => news = {}
    BY DEF NoneOf
  <1>2. ASSUME NEW e, LastOf(outbox, e, C) PROVE news # {} /\ outbox[Max(news)] = e
    <2>0. Len(outbox) \in Nat
      BY SMT
    <2>1. PICK m \in 1..Len(outbox) :
              /\ outbox[m] = e /\ e \in C
              /\ \A j \in 1..Len(outbox) : outbox[j] \in C => j <= m \/ outbox[j] = e
      BY <1>2 DEF LastOf
    <2>2. m \in news /\ news \in SUBSET (1..Len(outbox))
      BY <2>1
    <2>3. PICK x \in news : \A y \in news : y <= x
      BY <2>0, <2>2, GreatestPosition
    <2>4. \A y \in news : x >= y
      BY <2>0, <2>2, <2>3, SMT
    <2>5. Max(news) \in news /\ \A y \in news : Max(news) >= y
      BY <2>4 DEF Max
    <2>6. PICK i \in 1..Len(outbox) : i = Max(news) /\ i >= m /\ outbox[i] \in C
      BY <2>2, <2>5
    <2>7. i <= m => i = m
      BY <2>0, <2>6, SMT
    <2> QED
      BY <2>1, <2>2, <2>6, <2>7
  <1> QED
    BY <1>1, <1>2

LEMMA HeardTells ==
    ASSUME WellOrdered, FollowInv
    PROVE  /\ \A t \in TaskId : FollowsTask(Heard(told.tasks[t], t, 0), t)
           /\ \A k \in CommandId : Heard(told.commands[k], 0, k) = commands[k].status
  <1>0. outbox \in Seq(EventRecord)
    BY DEF FollowInv
  <1>1. \A i \in 1..Len(outbox) : outbox[i] \in EventRecord
    BY <1>0, SMT
  <1>2. ASSUME NEW t \in TaskId PROVE FollowsTask(Heard(told.tasks[t], t, 0), t)
    <2> DEFINE news == {i \in 1..Len(outbox) : outbox[i] \in TaskClass(t)}
    <2>1. Heard(told.tasks[t], t, 0) =
              IF news = {} THEN told.tasks[t] ELSE StatusAfter[outbox[Max(news)].kind]
      <3>1. news = {i \in 1..Len(outbox) : /\ outbox[i].command = 0 /\ (0 = 0 => outbox[i].task = t)
                                           /\ outbox[i].kind \in DOMAIN StatusAfter}
        BY <1>1 DEF TaskClass
      <3> HIDE DEF news
      <3> QED
        BY <3>1 DEF Heard
    <2>2. /\ NoneOf(outbox, TaskClass(t)) => news = {}
          /\ \A e : LastOf(outbox, e, TaskClass(t)) => news # {} /\ outbox[Max(news)] = e
      BY <1>0, LastIsHeard
    <2> HIDE DEF news
    <2>3. TaskFollows(t)
      BY DEF FollowInv
    <2>4. CASE NoneOf(outbox, TaskClass(t)) /\ FollowsTask(told.tasks[t], t)
      BY <2>1, <2>2, <2>4
    <2>5. ASSUME NEW e \in EventRecord, LastOf(outbox, e, TaskClass(t)), Says(e.kind, t, StatusAfter)
          PROVE  FollowsTask(Heard(told.tasks[t], t, 0), t)
      <3>1. Heard(told.tasks[t], t, 0) = StatusAfter[e.kind]
        BY <2>1, <2>2, <2>5
      <3> QED
        BY <2>5, <3>1, Kinds DEF Says, FollowsTask
    <2> QED
      BY <2>3, <2>4, <2>5 DEF TaskFollows
  <1>3. ASSUME NEW k \in CommandId PROVE Heard(told.commands[k], 0, k) = commands[k].status
    <2> DEFINE news == {i \in 1..Len(outbox) : outbox[i] \in CommandClass(k)}
    <2>1. Heard(told.commands[k], 0, k) =
              IF news = {} THEN told.commands[k] ELSE StatusAfter[outbox[Max(news)].kind]
      <3>1. k # 0
        BY SMT DEF CommandId
      <3>2. news = {i \in 1..Len(outbox) : /\ outbox[i].command = k /\ (k = 0 => outbox[i].task = 0)
                                           /\ outbox[i].kind \in DOMAIN StatusAfter}
        BY <1>1, <3>1 DEF CommandClass
      <3> HIDE DEF news
      <3> QED
        BY <3>2 DEF Heard
    <2>2. /\ NoneOf(outbox, CommandClass(k)) => news = {}
          /\ \A e : LastOf(outbox, e, CommandClass(k)) => news # {} /\ outbox[Max(news)] = e
      BY <1>0, LastIsHeard
    <2> HIDE DEF news
    <2>3. CommandFollows(k)
      BY DEF FollowInv
    <2>4. CASE NoneOf(outbox, CommandClass(k)) /\ told.commands[k] = commands[k].status
      BY <2>1, <2>2, <2>4
    <2>5. ASSUME NEW e \in EventRecord, LastOf(outbox, e, CommandClass(k)),
                 StatusAfter[e.kind] = commands[k].status
          PROVE  Heard(told.commands[k], 0, k) = commands[k].status
      BY <2>1, <2>2, <2>5
    <2> QED
      BY <2>3, <2>4, <2>5 DEF CommandFollows
  <1> QED
    BY <1>2, <1>3

\* When everything is heard, and nothing is left to hear, the invariant holds.
LEMMA NothingLeft ==
    ASSUME outbox' = <<>>, UNCHANGED allVars,
           \A t \in TaskId : FollowsTask(told'.tasks[t], t),
           \A k \in CommandId : told'.commands[k] = commands[k].status
    PROVE  FollowInv'
  <1>1. outbox' \in Seq(EventRecord) /\ 1..Len(outbox') = {}
    BY SMT
  <1>2. \A C : NoneOf(outbox', C)
    BY <1>1 DEF NoneOf
  <1>3. tasks' = tasks /\ commands' = commands
    BY DEF allVars, storeVars, commandVars
  <1>4. \A t \in TaskId : FollowsTask(told.tasks[t], t)'
    BY <1>3 DEF FollowsTask, Exhausted
  <1> QED
    BY <1>1, <1>2, <1>3, <1>4 DEF FollowInv, TaskFollows, CommandFollows

\* Every step keeps a subscriber right, or lets it become so.
LEMMA FollowStep == WellOrdered /\ SqliteInv /\ FollowInv /\ [SqliteNext]_sqliteVars => FollowInv'
  <1> SUFFICES ASSUME WellOrdered, SqliteInv, FollowInv, [SqliteNext]_sqliteVars PROVE FollowInv'
    BY SMT
  <1>0. CommandCore /\ RunsKnown /\ HistoryInv
    BY DEF SqliteInv
  <1>1. CASE Unlocked /\ TaskTx /\ UNCHANGED commandVars
    <2>1. CommandCore'
      BY <1>0, <1>1, TaskTxKeeps
    <2>2. Told /\ Committed /\ outbox = <<>>
      BY <1>0, <1>1, <2>1, TaskTxTold, TaskTxCommits DEF CommandCore, Unlocked
    <2> QED
      BY <1>0, <2>2, CommitFollows
  <1>2. CASE Unlocked /\ CommandTx
    <2>1. Told /\ Committed /\ outbox = <<>>
      BY <1>0, <1>2, CommandTxTold, CommandTxCommits DEF Unlocked
    <2> QED
      BY <1>0, <2>1, CommitFollows
  <1>3. CASE Publish
    <2>1. /\ outbox' = <<>> /\ UNCHANGED allVars
          /\ \A t \in TaskId : told'.tasks[t] = Heard(told.tasks[t], t, 0)
          /\ \A k \in CommandId : told'.commands[k] = Heard(told.commands[k], 0, k)
      BY <1>3 DEF Publish
    <2> QED
      BY <2>1, HeardTells, NothingLeft
  <1>4. CASE Crash
    <2>1. /\ outbox' = <<>> /\ UNCHANGED allVars
          /\ \A t \in TaskId : told'.tasks[t] = tasks[t].status
          /\ \A k \in CommandId : told'.commands[k] = commands[k].status
      BY <1>4 DEF Crash
    <2> QED
      BY <2>1, NothingLeft DEF FollowsTask
  <1>5. CASE UNCHANGED sqliteVars
    <2>1. tasks' = tasks /\ commands' = commands /\ outbox' = outbox /\ told' = told
      BY <1>5 DEF sqliteVars, historyVars, allVars, storeVars, commandVars
    <2> QED
      BY <2>1 DEF FollowInv, TaskFollows, CommandFollows, FollowsTask, Says, Exhausted
  <1> QED
    BY <1>1, <1>2, <1>3, <1>4, <1>5 DEF SqliteNext

-----------------------------------------------------------------------------
(* What rests on the library: induction over the numbers. *)

INSTANCE WellFoundedInduction

\* A set of numbers has a least element.
LEMMA NumbersAreWellOrdered == WellOrdered
  <1> SUFFICES ASSUME NEW T \in SUBSET Nat, T # {}
               PROVE  \E x \in T : \A y \in T : x <= y
    BY DEF WellOrdered
  <1>1. IsWellFoundedOn(OpToRel(<, Nat), Nat)
    BY NatLessThanWellFounded
  <1>2. \E x \in T : \A y \in T : ~(<<y, x>> \in OpToRel(<, Nat))
    BY <1>1, WFMin
  <1>3. ASSUME NEW x \in T, NEW y \in T, y < x PROVE <<y, x>> \in OpToRel(<, Nat)
    BY <1>3, SMTT(30) DEF OpToRel
  <1>4. PICK x \in T : \A y \in T : ~(y < x)
    BY <1>2, <1>3
  <1> QED
    BY <1>4, SMTT(30)

\* Whoever crashed when, the last record that speaks of a task or a command
\* tells its status.
THEOREM SqliteHistoryTells == SqliteSpec => []HistoryTellsStatus
  <1>1. SqliteInv => HistoryTellsStatus
    BY WordsTell, NumbersAreWellOrdered DEF SqliteInv
  <1> QED
    BY <1>1, SqliteSafe, PTL

\* The summary GetRun makes of a run agrees with the claim and with the task.
THEOREM SqliteRunsTold == SqliteSpec => []RunHistoryAgrees
  <1>1. SqliteInv => RunHistoryAgrees
    BY RunsTell, NumbersAreWellOrdered DEF SqliteInv, CommandCore, CoreInv
  <1> QED
    BY <1>1, SqliteSafe, PTL

\* A subscriber of the bus knows the status of every task and of every command
\* whenever the mutex is free, though recovery publishes in another order than
\* it records.
THEOREM SqliteSubscribersFollow == SqliteSpec => []SubscribersFollow
  <1>1. SqliteInit => FollowInv
    <2> SUFFICES ASSUME SqliteInit PROVE FollowInv
      BY SMT
    <2>1. /\ tasks = [t \in TaskId |-> NoTask] /\ commands = [k \in CommandId |-> NoCommand]
          /\ outbox = <<>>
          /\ \A t \in TaskId : told.tasks[t] = "absent"
          /\ \A k \in CommandId : told.commands[k] = "absent"
      BY DEF SqliteInit, Init, StoreInit
    <2>2. outbox \in Seq(EventRecord) /\ 1..Len(outbox) = {}
      BY <2>1, SMT
    <2>3. /\ \A t \in TaskId : tasks[t].status = "absent"
          /\ \A k \in CommandId : commands[k].status = "absent"
      BY <2>1 DEF NoTask, NoCommand
    <2> QED
      BY <2>1, <2>2, <2>3 DEF FollowInv, TaskFollows, CommandFollows, FollowsTask, NoneOf
  <1>2. SqliteInv /\ FollowInv /\ [SqliteNext]_sqliteVars => FollowInv'
    BY FollowStep, NumbersAreWellOrdered
  <1>3. FollowInv => SubscribersFollow
    BY FollowsWhenHeard
  <1> QED
    BY <1>1, <1>2, <1>3, SqliteSafe, PTL DEF SqliteSpec

=============================================================================
