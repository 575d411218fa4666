----------------------------- MODULE TeamProofs -----------------------------
(***************************************************************************)
(* The safety properties of Team, for any number of names, teammates,      *)
(* tasks and faults.                                                       *)
(***************************************************************************)
EXTENDS Team, FiniteSetTheorems, TLAPS

-----------------------------------------------------------------------------
(* The inductive invariant. *)

MateRecord == [pc: {"none", "spawning", "created", "loop", "drain", "removed",
                    "releasing", "gone", "cut", "failed"},
               name: Name \cup {NoName},
               state: {"starting", "idle", "running", "shutting_down", "stopped"},
               cancel: BOOLEAN, canceled: BOOLEAN, requested: BOOLEAN, early: BOOLEAN,
               active: [task: 0..MaxTasks, ended: BOOLEAN, settled: BOOLEAN],
               work: {"none", "claimed", "executing", "ended", "canceled", "settled"},
               task: 0..MaxTasks,
               cmd: [task: 0..MaxTasks, at: {"none", "cancel", "retry", "tell", "ack", "nack"}],
               todo: SUBSET Task]
TaskRecord == [status: {"absent", "pending", "running", "over", "deleted"},
               assignee: Name \cup {NoName}, owner: 0..MaxSpawns, late: BOOLEAN]

\* Every variable has its type; teammates and tasks are numbered as they come.
Typed ==
    /\ members \in [Name -> 0..MaxSpawns]
    /\ mates \in [Mate -> MateRecord]
    /\ tasks \in [Task -> TaskRecord]
    /\ commands \in [Task -> {"none", "cancel", "retry", "claimed"}]
    /\ creating \in Name \cup {NoName}
    /\ shutdown \in [at: {"none", "asking", "waiting", "done", "expired"}, ask: SUBSET Mate]
    /\ faults \in Nat
    /\ \E k \in 0..MaxSpawns : Spawned = 1..k
    /\ \E k \in 0..MaxTasks : Created = 1..k

\* What holds of a teammate by itself.  The run of a task that has begun and
\* not ended is the active one; a teammate shown as running has an active run
\* and one shown as idle has none; a request shows in the state; the context
\* of a teammate shown as stopping is canceled, unless it was asked too early.
MateOK(m) ==
    /\ m.pc # "none" => m.name \in Name
    /\ m.work # "none" => m.pc \in {"loop", "drain"} /\ m.task # 0
    /\ m.cmd.at # "none" => m.pc = "loop" /\ m.cmd.task # 0
    /\ m.work = "executing" => m.state = "running" /\ m.active.task = m.task /\ ~m.active.ended
    /\ m.active.task # 0 /\ ~m.active.ended => m.work = "executing"
    /\ m.work \in {"ended", "canceled", "settled"} => m.active.task \in {0, m.task}
    /\ m.state = "running" => m.active.task # 0
    /\ m.state = "idle" => m.active.task = 0
    /\ m.requested => m.state \notin {"idle", "starting"}
    /\ m.state = "stopped" => m.pc \in {"removed", "releasing"}
    /\ m.active.task # 0 => m.pc \in {"loop", "drain"}
    /\ m.pc \in {"loop", "drain"} => m.cancel
    /\ m.state = "shutting_down" => m.early \/ m.canceled

\* From m to p the context of a teammate stays canceled and keeps its past.
SameContext(m, p) ==
    p.cancel = m.cancel /\ p.early = m.early /\ (m.canceled => p.canceled)

\* The names taken are those of the teammates that have not been removed.
InTeam == {"spawning", "created", "loop", "drain"}
NamesTaken ==
    /\ \A n \in Name : members[n] # 0 =>
          mates[members[n]].name = n /\ mates[members[n]].pc \in InTeam
    /\ \A i \in Mate : mates[i].pc \in InTeam => members[mates[i].name] = i

\* A running task is leased to a teammate that is at it, that was allowed to
\* claim it, and that has not been told that it is settled.
AtWork(i, t) ==
    /\ mates[i].task = t
    /\ mates[i].work \in {"claimed", "executing", "ended", "canceled"}
    /\ tasks[t].assignee \in {mates[i].name, NoName}
    /\ mates[i].work # "claimed" => mates[i].active.task = t /\ ~mates[i].active.settled
LeasedToWorkers ==
    \A t \in Task : tasks[t].status = "running" =>
        tasks[t].owner # 0 /\ AtWork(tasks[t].owner, t)

\* A teammate is told of the cancellation of a task that it does not hold: the
\* task may be retried before, but not by this teammate, which is at the command.
ToldOfTheEnd ==
    \A i \in Mate : mates[i].cmd.at = "tell" => ~Holds(i, mates[i].cmd.task)

\* An assigned task waits for a teammate that will still look for it.
LooksFor(i, t) ==
    \/ mates[i].pc \notin {"none", "releasing", "gone"}
    \/ mates[i].pc = "releasing" /\ t \in mates[i].todo
WaitsForSomebody ==
    \A t \in Task :
        tasks[t].status = "pending" /\ tasks[t].assignee # NoName /\ ~tasks[t].late
            => \E i \in Mate : mates[i].name = tasks[t].assignee /\ LooksFor(i, t)

NobodyAfterShutdown == shutdown.at = "done" => \A i \in Spawned : Departed(i)

TeamInv ==
    /\ Typed
    /\ \A i \in Mate : MateOK(mates[i])
    /\ NamesTaken
    /\ LeasedToWorkers
    /\ ToldOfTheEnd
    /\ WaitsForSomebody
    /\ NobodyAfterShutdown

-----------------------------------------------------------------------------
(* Steps in which nobody joins, leaves or is removed. *)

\* The step leaves teammate i in its place.
SameSeat(i) ==
    /\ mates'[i].name = mates[i].name /\ mates'[i].todo = mates[i].todo
    /\ mates'[i].pc = mates[i].pc \/ {mates[i].pc, mates'[i].pc} \subseteq InTeam

\* The step leaves task t to those who look for it.
SameQueue(t) ==
    /\ tasks'[t].status = "absent" <=> tasks[t].status = "absent"
    /\ tasks'[t].status = "pending" /\ tasks'[t].assignee # NoName /\ ~tasks'[t].late =>
          \/ /\ tasks[t].status = "pending" /\ ~tasks[t].late
             /\ tasks'[t].assignee = tasks[t].assignee
          \/ WillLook(tasks'[t].assignee)

SeatsKept ==
    /\ mates' \in [Mate -> MateRecord] /\ tasks' \in [Task -> TaskRecord]
    /\ commands' \in [Task -> {"none", "cancel", "retry", "claimed"}] /\ faults' \in Nat
    /\ shutdown' \in [at: {"none", "asking", "waiting", "done", "expired"}, ask: SUBSET Mate]
    /\ shutdown'.at = "done" => shutdown.at = "done"
    /\ UNCHANGED <<members, creating>>
    /\ \A i \in Mate : MateOK(mates'[i]) /\ SameSeat(i)
    /\ \A t \in Task : SameQueue(t)

\* A scheduler that tells its runner of a task names one of the table.
LEMMA TellsOfATask ==
  ASSUME NEW m \in MateRecord, MateOK(m), m.cmd.at = "tell"
  PROVE  m.cmd.task \in Task
  <1>1. m.cmd \in [task: 0..MaxTasks, at: {"none", "cancel", "retry", "tell", "ack", "nack"}]
    BY Zenon DEF MateRecord
  <1>2. m.cmd.task \in 0..MaxTasks
    BY <1>1, Zenon
  <1>3. m.cmd.task # 0
    BY Zenon DEF MateOK
  <1> QED
    BY <1>2, <1>3, TeamConstants DEF Task

\* Such a step preserves all that is said of seats and queues.
LEMMA SeatsKeptInv ==
    ASSUME TeamInv, SeatsKept, LeasedToWorkers', ToldOfTheEnd'
    PROVE  TeamInv'
  <1> USE DEF TeamInv
  <1>1. \A i \in Mate : SameSeat(i)
    BY Zenon DEF SeatsKept
  <1>2. \A t \in Task : SameQueue(t)
    BY Zenon DEF SeatsKept
  <1>3. /\ members \in [Name -> 0..MaxSpawns] /\ members' = members
        /\ creating \in Name \cup {NoName} /\ creating' = creating
        /\ tasks \in [Task -> TaskRecord] /\ mates \in [Mate -> MateRecord]
    BY Zenon DEF Typed, SeatsKept
  <1>4. \A i \in Mate : mates'[i].pc = "none" <=> mates[i].pc = "none"
    BY <1>1, Zenon DEF SameSeat, InTeam
  <1>5. Spawned' = Spawned /\ Created' = Created
    BY <1>2, <1>4, Zenon DEF Spawned, Created, SameQueue
  <1>6. Typed'
    BY <1>3, <1>5, Zenon DEF Typed, SeatsKept
  <1>7. \A i \in Mate : mates'[i].pc \in InTeam <=> mates[i].pc \in InTeam
    BY <1>1, Zenon DEF SameSeat
  <1>8. NamesTaken'
    <2>1. \A n \in Name : members[n] # 0 => members[n] \in Mate
      BY <1>3 DEF Mate
    <2>2. \A n \in Name : members[n] # 0 =>
             mates'[members[n]].name = n /\ mates'[members[n]].pc \in InTeam
      BY <1>1, <1>7, <2>1, Zenon DEF NamesTaken, SameSeat
    <2>3. \A i \in Mate : mates'[i].pc \in InTeam => members[mates'[i].name] = i
      BY <1>1, <1>7, Zenon DEF NamesTaken, SameSeat
    <2> QED
      BY <1>3, <2>2, <2>3, Zenon DEF NamesTaken
  <1>10. WaitsForSomebody'
    <2> SUFFICES ASSUME NEW t \in Task, tasks'[t].status = "pending",
                        tasks'[t].assignee # NoName, ~tasks'[t].late
                 PROVE  \E i \in Mate : mates'[i].name = tasks'[t].assignee /\ LooksFor(i, t)'
      BY Zenon DEF WaitsForSomebody
    <2>1. \A i \in Mate : LooksFor(i, t) => LooksFor(i, t)'
      BY <1>1, Zenon DEF SameSeat, LooksFor, InTeam
    <2>2. WillLook(tasks'[t].assignee) =>
            \E i \in Mate : mates[i].name = tasks'[t].assignee /\ LooksFor(i, t)
      BY Zenon DEF LooksFor, WillLook
    <2>3. \E i \in Mate : mates[i].name = tasks'[t].assignee /\ LooksFor(i, t)
      BY <1>2, <2>2, Zenon DEF SameQueue, WaitsForSomebody
    <2> QED
      BY <1>1, <2>1, <2>3, Zenon DEF SameSeat
  <1>11. NobodyAfterShutdown'
    <2> SUFFICES ASSUME shutdown'.at = "done", NEW i \in Mate, mates'[i].pc # "none"
                 PROVE  mates'[i].pc \in {"gone", "cut", "failed"}
      BY Zenon DEF NobodyAfterShutdown, Departed, Spawned
    <2>1. mates[i].pc \in {"gone", "cut", "failed"}
      BY <1>4, Zenon DEF NobodyAfterShutdown, Departed, Spawned, SeatsKept
    <2> QED
      BY <1>1, <2>1, Zenon DEF SameSeat, InTeam
  <1> QED
    BY <1>6, <1>8, <1>10, <1>11, Zenon DEF SeatsKept

\* The same for a step of one teammate that leaves the tasks alone.
MateStep(i, m) ==
    /\ m \in MateRecord /\ MateOK(m)
    /\ m.name = mates[i].name /\ m.todo = mates[i].todo
    /\ m.pc = mates[i].pc \/ {mates[i].pc, m.pc} \subseteq InTeam
    /\ mates' = [mates EXCEPT ![i] = m]
    /\ \A t \in Task : Holds(i, t) => AtWork(i, t)'
    /\ m.cmd.at = "tell" => ~Holds(i, m.cmd.task)
    /\ UNCHANGED <<members, tasks, creating>>

\* Such a step preserves the invariant.
LEMMA MateStepInv ==
    ASSUME TeamInv, NEW i \in Mate, NEW m, MateStep(i, m),
           commands' \in [Task -> {"none", "cancel", "retry", "claimed"}], faults' \in Nat,
           shutdown' \in [at: {"none", "asking", "waiting", "done", "expired"}, ask: SUBSET Mate],
           shutdown'.at = "done" => shutdown.at = "done"
    PROVE  TeamInv'
  <1> USE DEF TeamInv
  <1>1. mates \in [Mate -> MateRecord] /\ tasks \in [Task -> TaskRecord] /\ tasks' = tasks
    BY Zenon DEF Typed, MateStep
  <1>2. mates'[i] = m /\ \A j \in Mate \ {i} : mates'[j] = mates[j]
    BY <1>1, Zenon DEF MateStep
  <1>3. mates' \in [Mate -> MateRecord]
    BY <1>1, Zenon DEF MateStep
  <1>4. \A j \in Mate : MateOK(mates'[j]) /\ SameSeat(j)
    BY <1>2 DEF MateStep, SameSeat
  <1>5. \A t \in Task : SameQueue(t)
    BY <1>1, Zenon DEF SameQueue
  <1>6. SeatsKept
    BY <1>1, <1>3, <1>4, <1>5, Zenon DEF SeatsKept, MateStep
  <1>7. LeasedToWorkers'
    <2> SUFFICES ASSUME NEW t \in Task, tasks[t].status = "running"
                 PROVE  tasks[t].owner # 0 /\ AtWork(tasks[t].owner, t)'
      BY <1>1, Zenon DEF LeasedToWorkers
    <2>1. tasks[t].owner # 0 /\ AtWork(tasks[t].owner, t) /\ tasks[t].owner \in Mate
      BY <1>1 DEF LeasedToWorkers, TaskRecord, Mate
    <2>2. CASE tasks[t].owner = i
      BY <2>1, <2>2, Zenon DEF MateStep, Holds
    <2>3. CASE tasks[t].owner # i
      BY <1>1, <1>2, <2>1, <2>3, Zenon DEF AtWork
    <2> QED
      BY <2>1, <2>2, <2>3, Zenon
  <1>8. ToldOfTheEnd'
    <2> SUFFICES ASSUME NEW j \in Mate, mates'[j].cmd.at = "tell"
                 PROVE  ~Holds(j, mates[j].cmd.task)'
      BY Zenon DEF ToldOfTheEnd
    <2>1. ~Holds(j, mates'[j].cmd.task)
      <3>1. CASE j = i
        BY <1>2, <3>1, Zenon DEF MateStep
      <3>2. CASE j # i
        BY <1>2, <3>2, Zenon DEF ToldOfTheEnd
      <3> QED
        BY <3>1, <3>2, Zenon
    <2> QED
      BY <1>1, <2>1, Zenon DEF Holds
  <1> QED
    BY <1>6, <1>7, <1>8, SeatsKeptInv, Zenon

\* A step of one teammate that also moves a task.
TaskStep(i, m, t, k) ==
    /\ m \in MateRecord /\ MateOK(m) /\ k \in TaskRecord
    /\ m.name = mates[i].name /\ m.todo = mates[i].todo /\ m.pc = mates[i].pc
    /\ mates' = [mates EXCEPT ![i] = m]
    /\ tasks' = [tasks EXCEPT ![t] = k]
    /\ {tasks[t].status, k.status} \subseteq {"pending", "running", "over"}
    /\ k.status = "pending" => k.late \/ k.assignee = NoName \/ WillLook(k.assignee)
    /\ k.status = "running" => k.owner = i /\ AtWork(i, t)'
    /\ \A u \in Task \ {t} : Holds(i, u) => AtWork(i, u)'
    /\ m.cmd.at = "tell" =>
          IF m.cmd.task = t THEN k.status # "running" ELSE ~Holds(i, m.cmd.task)
    /\ UNCHANGED <<members, creating, commands, shutdown, faults>>

\* Such a step preserves the invariant.
LEMMA TaskStepInv ==
    ASSUME TeamInv, NEW i \in Mate, NEW m, NEW t \in Task, NEW k, TaskStep(i, m, t, k)
    PROVE  TeamInv'
  <1> USE DEF TeamInv
  <1>1. /\ mates \in [Mate -> MateRecord] /\ tasks \in [Task -> TaskRecord]
        /\ mates' \in [Mate -> MateRecord] /\ tasks' \in [Task -> TaskRecord]
    BY Zenon DEF Typed, TaskStep
  <1>2. mates'[i] = m /\ \A j \in Mate \ {i} : mates'[j] = mates[j]
    BY <1>1, Zenon DEF TaskStep
  <1>3. tasks'[t] = k /\ \A u \in Task \ {t} : tasks'[u] = tasks[u]
    BY <1>1, Zenon DEF TaskStep
  <1>4. \A j \in Mate : MateOK(mates'[j]) /\ SameSeat(j)
    BY <1>2, Zenon DEF TaskStep, SameSeat
  <1>5. \A u \in Task : SameQueue(u)
    BY <1>3, Zenon DEF SameQueue, TaskStep
  <1>6. SeatsKept
    BY <1>1, <1>4, <1>5, Zenon DEF SeatsKept, TaskStep, Typed
  <1>7. LeasedToWorkers'
    <2> SUFFICES ASSUME NEW u \in Task, tasks'[u].status = "running"
                 PROVE  tasks'[u].owner # 0 /\ AtWork(tasks[u].owner, u)'
      BY Zenon DEF LeasedToWorkers
    <2>1. CASE u = t
      BY <1>3, <2>1 DEF TaskStep, Mate
    <2>2. CASE u # t
      <3>1. tasks'[u] = tasks[u]
        BY <1>3, <2>2, Zenon
      <3>2. tasks[u].owner # 0 /\ AtWork(tasks[u].owner, u) /\ tasks[u].owner \in Mate
        BY <1>1, <3>1 DEF LeasedToWorkers, TaskRecord, Mate
      <3>3. CASE tasks[u].owner = i
        BY <2>2, <3>1, <3>2, <3>3, Zenon DEF TaskStep, Holds
      <3>4. CASE tasks[u].owner # i
        BY <1>2, <3>1, <3>2, <3>4, Zenon DEF AtWork
      <3> QED
        BY <3>3, <3>4, Zenon
    <2> QED
      BY <2>1, <2>2, Zenon
  <1>8. ToldOfTheEnd'
    <2> SUFFICES ASSUME NEW j \in Mate, mates'[j].cmd.at = "tell"
                 PROVE  ~Holds(j, mates[j].cmd.task)'
      BY Zenon DEF ToldOfTheEnd
    <2>1. mates'[j].cmd.task \in Task
      <3>1. mates'[j] \in MateRecord /\ MateOK(mates'[j])
        BY <1>1, <1>4, Zenon
      <3> QED
        BY <3>1, TellsOfATask, Zenon
    <2>2. CASE j = i
      BY <1>2, <1>3, <2>1, <2>2 DEF TaskStep, Holds
    <2>3. CASE j # i
      BY <1>2, <1>3, <2>1, <2>3 DEF TaskStep, ToldOfTheEnd, Holds
    <2> QED
      BY <2>2, <2>3, Zenon
  <1> QED
    BY <1>6, <1>7, <1>8, SeatsKeptInv, Zenon

\* A task that is deleted or fails from outside takes nothing with it.
LEMMA TaskEndsInv ==
    ASSUME TeamInv, NEW t \in Task, NEW k \in TaskRecord, k.status \in {"over", "deleted"},
           tasks[t].status # "absent", tasks' = [tasks EXCEPT ![t] = k],
           commands' \in [Task -> {"none", "cancel", "retry", "claimed"}],
           UNCHANGED <<members, mates, creating, shutdown>>, faults' \in Nat
    PROVE  TeamInv'
  <1> USE DEF TeamInv
  <1>1. mates \in [Mate -> MateRecord] /\ tasks' \in [Task -> TaskRecord]
    BY Zenon DEF Typed
  <1>2. tasks'[t] = k /\ \A u \in Task \ {t} : tasks'[u] = tasks[u]
    BY Zenon DEF Typed
  <1>3. SeatsKept
    BY <1>1, <1>2, Zenon DEF SeatsKept, SameSeat, SameQueue, Typed
  <1>4. LeasedToWorkers'
    BY <1>2, SMTT(30) DEF LeasedToWorkers, AtWork
  <1>5. ToldOfTheEnd'
    <2>1. \A j \in Mate : mates[j].cmd.at = "tell" => mates[j].cmd.task \in Task
      BY <1>1 DEF MateOK, MateRecord, Task
    <2> SUFFICES ASSUME NEW j \in Mate, mates[j].cmd.at = "tell"
                 PROVE  ~Holds(j, mates[j].cmd.task)'
      BY Zenon DEF ToldOfTheEnd
    <2>2. ~Holds(j, mates[j].cmd.task) /\ mates[j].cmd.task \in Task /\ mates' = mates
      BY <2>1, Zenon DEF ToldOfTheEnd
    <2> QED
      BY <1>2, <2>2 DEF Holds
  <1> QED
    BY <1>3, <1>4, <1>5, SeatsKeptInv, Zenon

-----------------------------------------------------------------------------
(* What the steps do to a teammate. *)

\* requestShutdown.
LEMMA RequestedFields ==
    ASSUME NEW m \in MateRecord, MateOK(m)
    PROVE  LET r == Requested(m)
           IN  /\ r \in MateRecord /\ MateOK(r)
               /\ r.name = m.name /\ r.todo = m.todo /\ r.pc = m.pc /\ r.cmd = m.cmd
               /\ r.work = m.work /\ r.task = m.task /\ r.active = m.active
  <1> DEFINE r == Requested(m)
             c == m.canceled \/ m.cancel
             e == ~m.cancel
  <1>1. CASE r = m
    BY <1>1, Zenon
  <1>2. CASE r # m
    <2>1. \/ /\ r = [m EXCEPT !.requested = TRUE, !.state = "shutting_down", !.canceled = c,
                             !.early = e]
             /\ m.state \in {"idle", "starting"}
          \/ r = [m EXCEPT !.requested = TRUE] /\ m.state \notin {"idle", "starting"}
      BY <1>2, Zenon DEF Requested
    <2>2. c \in BOOLEAN /\ e \in BOOLEAN
      OBVIOUS
    <2>3. e \/ c
      OBVIOUS
    <2> HIDE DEF c, e
    <2>4. r \in MateRecord
      <3>1. [m EXCEPT !.requested = TRUE, !.state = "shutting_down", !.canceled = c,
                      !.early = e] \in MateRecord
        BY <2>2, Zenon DEF MateRecord
      <3>2. [m EXCEPT !.requested = TRUE] \in MateRecord
        BY Zenon DEF MateRecord
      <3> QED
        BY <2>1, <3>1, <3>2, Zenon
    <2>5. /\ r.name = m.name /\ r.todo = m.todo /\ r.pc = m.pc /\ r.cmd = m.cmd
          /\ r.work = m.work /\ r.task = m.task /\ r.active = m.active /\ r.cancel = m.cancel
          /\ r.state \notin {"idle", "starting"}
          /\ \/ r.state = m.state /\ r.early = m.early /\ r.canceled = m.canceled
             \/ /\ r.state = "shutting_down" /\ m.state \in {"idle", "starting"}
                /\ r.early \/ r.canceled
      <3>1. CASE /\ r = [m EXCEPT !.requested = TRUE, !.state = "shutting_down",
                                 !.canceled = c, !.early = e]
                 /\ m.state \in {"idle", "starting"}
        BY <2>3, <3>1, ZenonT(60) DEF MateRecord
      <3>2. CASE r = [m EXCEPT !.requested = TRUE] /\ m.state \notin {"idle", "starting"}
        BY <3>2, ZenonT(60) DEF MateRecord
      <3> QED
        BY <2>1, <3>1, <3>2, Zenon
    <2>6. MateOK(r)
      BY <2>5, Zenon DEF MateOK
    <2> QED
      BY <2>4, <2>5, <2>6, Zenon
  <1> QED
    BY <1>1, <1>2, Zenon

\* The bounds are numbers.
LEMMA BoundsAreNat ==
    /\ MaxSpawns \in Nat /\ MaxTasks \in Nat
    /\ 0 \in 0..MaxSpawns /\ 0 \in 0..MaxTasks
  <1>1. MaxSpawns \in Nat /\ MaxTasks \in Nat
    BY TeamConstants, Zenon
  <1> QED
    BY <1>1

ActiveRecord == [task: 0..MaxTasks, ended: BOOLEAN, settled: BOOLEAN]

\* markTaskProgress, when it makes a of the active run.
Progressed(m, t, a) ==
    IF m.active.task # t THEN m
    ELSE IF ~(a.ended /\ a.settled) THEN [m EXCEPT !.active = a]
    ELSE IF m.requested
    THEN [m EXCEPT !.active = NoActive, !.state = "shutting_down", !.canceled = @ \/ m.cancel]
    ELSE [m EXCEPT !.active = NoActive, !.state = "idle"]

\* What it leaves alone, and what it may come to.
LEMMA ProgressFields ==
    ASSUME NEW m \in MateRecord, NEW t \in Task, NEW a \in ActiveRecord, NEW p,
           p = Progressed(m, t, a)
    PROVE  /\ p \in MateRecord
           /\ p.pc = m.pc /\ p.name = m.name
           /\ p.requested = m.requested /\ p.work = m.work /\ p.task = m.task
           /\ p.cmd = m.cmd /\ p.todo = m.todo /\ SameContext(m, p)
           /\ \/ m.active.task # t /\ p.state = m.state /\ p.active = m.active
              \/ m.active.task = t /\ ~(a.ended /\ a.settled) /\ p.state = m.state /\ p.active = a
              \/ /\ m.active.task = t /\ a.ended /\ a.settled /\ p.active = NoActive
                 /\ p.state = IF m.requested THEN "shutting_down" ELSE "idle"
                 /\ m.requested /\ m.cancel => p.canceled
  <1> DEFINE c == m.canceled \/ m.cancel
  <1>1. NoActive \in ActiveRecord
    BY BoundsAreNat, Zenon DEF NoActive, ActiveRecord
  <1>2. c \in BOOLEAN
    OBVIOUS
  <1>3. p = IF m.active.task # t THEN m
            ELSE IF ~(a.ended /\ a.settled) THEN [m EXCEPT !.active = a]
            ELSE IF m.requested
            THEN [m EXCEPT !.active = NoActive, !.state = "shutting_down", !.canceled = c]
            ELSE [m EXCEPT !.active = NoActive, !.state = "idle"]
    BY Zenon DEF Progressed
  <1> HIDE DEF c
  <1>4. CASE m.active.task # t
    BY <1>3, <1>4, Zenon DEF SameContext
  <1>5. CASE m.active.task = t /\ ~(a.ended /\ a.settled)
    <2>1. p = [m EXCEPT !.active = a]
      BY <1>3, <1>5, Zenon
    <2> QED
      BY <1>5, <2>1 DEF MateRecord, ActiveRecord, SameContext
  <1>6. CASE m.active.task = t /\ a.ended /\ a.settled /\ m.requested
    <2>1. p = [m EXCEPT !.active = NoActive, !.state = "shutting_down", !.canceled = c]
      BY <1>3, <1>6, Zenon
    <2>2. p \in MateRecord
      BY <1>1, <1>2, <2>1, ZenonT(40) DEF MateRecord, ActiveRecord
    <2>3. /\ p.pc = m.pc /\ p.name = m.name
          /\ p.requested = m.requested /\ p.work = m.work /\ p.task = m.task
          /\ p.cmd = m.cmd /\ p.todo = m.todo
          /\ p.active = NoActive /\ p.state = "shutting_down"
          /\ p.cancel = m.cancel /\ p.early = m.early /\ p.canceled = c
      BY <2>1, Zenon DEF MateRecord
    <2>4. (m.canceled => c) /\ (m.cancel => c)
      BY DEF c
    <2> QED
      BY <1>6, <2>2, <2>3, <2>4, Zenon DEF SameContext
  <1>7. CASE m.active.task = t /\ a.ended /\ a.settled /\ ~m.requested
    <2>1. p = [m EXCEPT !.active = NoActive, !.state = "idle"]
      BY <1>3, <1>7, Zenon
    <2>2. p \in MateRecord
      BY <1>1, <2>1, Zenon DEF MateRecord, ActiveRecord
    <2>3. /\ p.pc = m.pc /\ p.name = m.name
          /\ p.requested = m.requested /\ p.work = m.work /\ p.task = m.task
          /\ p.cmd = m.cmd /\ p.todo = m.todo
          /\ p.active = NoActive /\ p.state = "idle" /\ SameContext(m, p)
      BY <2>1, Zenon DEF MateRecord, SameContext
    <2> QED
      BY <1>7, <2>2, <2>3, Zenon
  <1> QED
    BY <1>4, <1>5, <1>6, <1>7, Zenon

\* A task that is over, deleted, or pending: for nobody, for somebody who will
\* look for it, or too late.
LEMMA TaskFields ==
    /\ \A t \in Task : tasks[t] \in TaskRecord =>
          Over(t) \in TaskRecord /\ Over(t).status = "over"
    /\ [NoTask EXCEPT !.status = "deleted"] \in TaskRecord
    /\ [NoTask EXCEPT !.status = "deleted"].status = "deleted"
    /\ \A n \in Name \cup {NoName} :
          /\ Pending(n) \in TaskRecord
          /\ Pending(n).status = "pending" /\ Pending(n).assignee = n
          /\ Pending(n).late \/ n = NoName \/ WillLook(n)
  <1>1. NoTask \in TaskRecord
    BY BoundsAreNat, Zenon DEF NoTask, TaskRecord
  <1> HIDE DEF NoTask
  <1>2. ASSUME NEW t \in Task, tasks[t] \in TaskRecord
        PROVE  Over(t) \in TaskRecord /\ Over(t).status = "over"
    BY <1>1, <1>2, Zenon DEF Over, TaskRecord
  <1>3. ASSUME NEW n \in Name \cup {NoName}
        PROVE  /\ Pending(n) \in TaskRecord
               /\ Pending(n).status = "pending" /\ Pending(n).assignee = n
               /\ Pending(n).late \/ n = NoName \/ WillLook(n)
    <2> DEFINE late == n # NoName /\ ~WillLook(n)
    <2>1. late \in BOOLEAN /\ (late \/ n = NoName \/ WillLook(n))
      BY Zenon
    <2>2. Pending(n) = [NoTask EXCEPT !.status = "pending", !.assignee = n, !.late = late]
      BY Zenon DEF Pending
    <2> HIDE DEF late
    <2>3. /\ Pending(n) \in TaskRecord
          /\ Pending(n).status = "pending" /\ Pending(n).assignee = n /\ Pending(n).late = late
      BY <1>1, <2>1, <2>2, Zenon DEF TaskRecord
    <2> QED
      BY <2>1, <2>3, Zenon
  <1> QED
    BY <1>1, <1>2, <1>3, Zenon DEF TaskRecord

\* markRunEnded: the active run has ended.
LEMMA RunEndedFields ==
    ASSUME NEW m \in MateRecord, NEW t \in Task, m.active.task = t
    PROVE  LET p == Progress(m, t, TRUE, FALSE)
           IN  /\ p \in MateRecord
               /\ p.pc = m.pc /\ p.name = m.name /\ p.requested = m.requested
               /\ p.task = m.task /\ p.cmd = m.cmd /\ p.todo = m.todo /\ SameContext(m, p)
               /\ \/ /\ ~m.active.settled /\ p.state = m.state
                     /\ p.active.task = t /\ p.active.ended /\ ~p.active.settled
                  \/ /\ m.active.settled /\ p.active.task = 0
                     /\ p.state = IF m.requested THEN "shutting_down" ELSE "idle"
                     /\ m.requested /\ m.cancel => p.canceled
  <1> DEFINE p == Progress(m, t, TRUE, FALSE)
             a == [m.active EXCEPT !.ended = @ \/ TRUE, !.settled = @ \/ FALSE]
  <1>1. m.active \in ActiveRecord
    BY Zenon DEF MateRecord, ActiveRecord
  <1>2. /\ a \in ActiveRecord /\ a.task = m.active.task
        /\ a.ended /\ (a.settled <=> m.active.settled)
    BY <1>1, Zenon DEF ActiveRecord
  <1>3. p = Progressed(m, t, a)
    BY Zenon DEF Progress, Progressed
  <1>4. NoActive.task = 0
    BY Zenon DEF NoActive
  <1> HIDE DEF a, p
  <1>5. /\ p \in MateRecord
        /\ p.pc = m.pc /\ p.name = m.name
        /\ p.requested = m.requested /\ p.work = m.work /\ p.task = m.task
        /\ p.cmd = m.cmd /\ p.todo = m.todo /\ SameContext(m, p)
        /\ \/ m.active.task # t /\ p.state = m.state /\ p.active = m.active
           \/ m.active.task = t /\ ~(a.ended /\ a.settled) /\ p.state = m.state /\ p.active = a
           \/ /\ m.active.task = t /\ a.ended /\ a.settled /\ p.active = NoActive
              /\ p.state = IF m.requested THEN "shutting_down" ELSE "idle"
              /\ m.requested /\ m.cancel => p.canceled
    BY <1>2, <1>3, ProgressFields
  <1>6. /\ p \in MateRecord
        /\ p.pc = m.pc /\ p.name = m.name /\ p.requested = m.requested
        /\ p.task = m.task /\ p.cmd = m.cmd /\ p.todo = m.todo /\ SameContext(m, p)
        /\ \/ /\ ~m.active.settled /\ p.state = m.state
              /\ p.active.task = t /\ p.active.ended /\ ~p.active.settled
           \/ /\ m.active.settled /\ p.active.task = 0
              /\ p.state = IF m.requested THEN "shutting_down" ELSE "idle"
              /\ m.requested /\ m.cancel => p.canceled
    BY <1>2, <1>4, <1>5, Zenon
  <1> QED
    BY <1>6, Zenon DEF p

\* The task of the active run has been settled.
WhenSettled(m, t) == Progress(m, t, FALSE, TRUE)

\* What that may come to.
LEMMA SettledFields ==
    ASSUME NEW m \in MateRecord, NEW t \in Task
    PROVE  LET p == WhenSettled(m, t)
           IN  /\ p \in MateRecord
               /\ p.pc = m.pc /\ p.name = m.name /\ p.requested = m.requested
               /\ p.work = m.work /\ p.task = m.task /\ p.cmd = m.cmd /\ p.todo = m.todo
               /\ SameContext(m, p)
               /\ \/ m.active.task # t /\ p.state = m.state /\ p.active = m.active
                  \/ /\ m.active.task = t /\ ~m.active.ended /\ p.state = m.state
                     /\ p.active.task = t /\ ~p.active.ended
                  \/ /\ m.active.task = t /\ m.active.ended /\ p.active = NoActive
                     /\ p.state = IF m.requested THEN "shutting_down" ELSE "idle"
                     /\ m.requested /\ m.cancel => p.canceled
  <1> DEFINE p == WhenSettled(m, t)
             a == [m.active EXCEPT !.ended = @ \/ FALSE, !.settled = @ \/ TRUE]
  <1>1. m.active \in ActiveRecord
    BY Zenon DEF MateRecord, ActiveRecord
  <1>2. /\ a \in ActiveRecord /\ a.task = m.active.task
        /\ a.settled /\ (a.ended <=> m.active.ended)
    BY <1>1, Zenon DEF ActiveRecord
  <1>3. p = Progressed(m, t, a)
    BY Zenon DEF WhenSettled, Progress, Progressed
  <1>4. NoActive.task = 0
    BY Zenon DEF NoActive
  <1> HIDE DEF a, p
  <1>5. /\ p \in MateRecord
        /\ p.pc = m.pc /\ p.name = m.name
        /\ p.requested = m.requested /\ p.work = m.work /\ p.task = m.task
        /\ p.cmd = m.cmd /\ p.todo = m.todo
        /\ SameContext(m, p)
        /\ \/ m.active.task # t /\ p.state = m.state /\ p.active = m.active
           \/ m.active.task = t /\ ~(a.ended /\ a.settled) /\ p.state = m.state /\ p.active = a
           \/ /\ m.active.task = t /\ a.ended /\ a.settled /\ p.active = NoActive
              /\ p.state = IF m.requested THEN "shutting_down" ELSE "idle"
              /\ m.requested /\ m.cancel => p.canceled
    BY <1>2, <1>3, ProgressFields
  <1>6. /\ p \in MateRecord
        /\ p.pc = m.pc /\ p.name = m.name /\ p.requested = m.requested
        /\ p.work = m.work /\ p.task = m.task /\ p.cmd = m.cmd /\ p.todo = m.todo
        /\ SameContext(m, p)
        /\ \/ m.active.task # t /\ p.state = m.state /\ p.active = m.active
           \/ /\ m.active.task = t /\ ~m.active.ended /\ p.state = m.state
              /\ p.active.task = t /\ ~p.active.ended
           \/ /\ m.active.task = t /\ m.active.ended /\ p.active = NoActive
              /\ p.state = IF m.requested THEN "shutting_down" ELSE "idle"
              /\ m.requested /\ m.cancel => p.canceled
    BY <1>2, <1>4, <1>5, Zenon
  <1> QED
    BY <1>6, Zenon DEF p

\* The types of the variables a step may leave alone.
LEMMA TypesOf ==
    ASSUME TeamInv
    PROVE  /\ mates \in [Mate -> MateRecord] /\ tasks \in [Task -> TaskRecord]
           /\ members \in [Name -> 0..MaxSpawns]
           /\ commands \in [Task -> {"none", "cancel", "retry", "claimed"}] /\ faults \in Nat
           /\ shutdown \in [at: {"none", "asking", "waiting", "done", "expired"}, ask: SUBSET Mate]
           /\ \A i \in Mate : mates[i] \in MateRecord /\ MateOK(mates[i])
           /\ \A i \in Mate, t \in Task : Holds(i, t) => AtWork(i, t)
  BY Zenon DEF TeamInv, Typed, LeasedToWorkers, Holds

\* A step of one teammate that leaves its work alone.
LEMMA QuietInv ==
    ASSUME TeamInv, NEW i \in Mate, NEW m \in MateRecord, MateOK(m),
           mates' = [mates EXCEPT ![i] = m], UNCHANGED <<members, tasks, creating>>,
           m.name = mates[i].name, m.todo = mates[i].todo, m.work = mates[i].work,
           m.task = mates[i].task, m.active = mates[i].active,
           m.pc = mates[i].pc \/ {mates[i].pc, m.pc} \subseteq InTeam,
           m.cmd.at = "tell" => m.cmd = mates[i].cmd,
           commands' \in [Task -> {"none", "cancel", "retry", "claimed"}], faults' \in Nat,
           shutdown' \in [at: {"none", "asking", "waiting", "done", "expired"}, ask: SUBSET Mate],
           shutdown'.at = "done" => shutdown.at = "done"
    PROVE  TeamInv'
  <1>1. mates'[i] = m
    BY TypesOf, Zenon
  <1>2. \A t \in Task : Holds(i, t) => AtWork(i, t)'
    BY <1>1, TypesOf DEF AtWork
  <1>3. m.cmd.at = "tell" => ~Holds(i, m.cmd.task)
    BY Zenon DEF TeamInv, ToldOfTheEnd
  <1>4. MateStep(i, m)
    BY <1>2, <1>3, Zenon DEF MateStep
  <1> QED
    BY <1>4, MateStepInv, Zenon

\* Starting a teammate's goroutine, canceling its context, and leaving the loop.
LEMMA ContextInv ==
    ASSUME TeamInv, NEW i \in Mate, Launch(i) \/ CancelContext(i) \/ Leave(i)
    PROVE  TeamInv'
  <1>1. /\ mates[i] \in MateRecord /\ MateOK(mates[i]) /\ faults \in Nat
        /\ commands \in [Task -> {"none", "cancel", "retry", "claimed"}]
        /\ shutdown \in [at: {"none", "asking", "waiting", "done", "expired"}, ask: SUBSET Mate]
    BY TypesOf, Zenon
  <1>2. CASE Launch(i)
    <2> DEFINE m == [mates[i] EXCEPT !.pc = "loop", !.cancel = TRUE]
    <2>1. mates[i].pc = "created" /\ mates' = [mates EXCEPT ![i] = m]
      BY <1>2, Zenon DEF Launch, At, Set
    <2>2. UNCHANGED <<members, tasks, commands, creating, shutdown, faults>>
      BY <1>2, Zenon DEF Launch
    <2>3. /\ m \in MateRecord /\ MateOK(m) /\ m.pc = "loop" /\ m.name = mates[i].name
          /\ m.todo = mates[i].todo /\ m.work = mates[i].work /\ m.task = mates[i].task
          /\ m.active = mates[i].active /\ m.cmd = mates[i].cmd
      BY <1>1, <2>1, Zenon DEF MateRecord, MateOK
    <2> HIDE DEF m
    <2>4. {mates[i].pc, m.pc} \subseteq InTeam
      BY <2>1, <2>3, Zenon DEF InTeam
    <2>5. (m.cmd.at = "tell" => m.cmd = mates[i].cmd) /\ UNCHANGED <<members, tasks, creating>>
          /\ commands' = commands /\ shutdown' = shutdown /\ faults' = faults
      BY <2>2, <2>3, Zenon
    <2> QED
      BY <1>1, <2>1, <2>3, <2>4, <2>5, QuietInv, Zenon
  <1>3. CASE CancelContext(i)
    <2> DEFINE m == [mates[i] EXCEPT !.canceled = TRUE]
    <2>1. mates' = [mates EXCEPT ![i] = m] /\ faults' \in Nat
      BY <1>1, <1>3 DEF CancelContext, Set, Fault
    <2>2. UNCHANGED <<members, tasks, commands, creating, shutdown>>
      BY <1>3, Zenon DEF CancelContext
    <2>3. /\ m \in MateRecord /\ m.pc = mates[i].pc /\ m.name = mates[i].name
          /\ m.todo = mates[i].todo /\ m.work = mates[i].work /\ m.task = mates[i].task
          /\ m.active = mates[i].active /\ m.cmd = mates[i].cmd
          /\ m.state = mates[i].state /\ m.requested = mates[i].requested
          /\ SameContext(mates[i], m)
      BY <1>1, Zenon DEF MateRecord, SameContext
    <2> HIDE DEF m
    <2>4. MateOK(m)
      BY <1>1, <2>3, ZenonT(40) DEF MateOK, SameContext
    <2> QED
      BY <1>1, <2>1, <2>2, <2>3, <2>4, QuietInv, Zenon
  <1>4. CASE Leave(i)
    <2> DEFINE m == [mates[i] EXCEPT !.pc = "drain"]
    <2>1. /\ mates[i].pc = "loop" /\ mates[i].cmd.at = "none"
          /\ mates' = [mates EXCEPT ![i] = m]
      BY <1>4, Zenon DEF Leave, InLoop, At, Goto, Set
    <2>2. UNCHANGED <<members, tasks, commands, creating, shutdown, faults>>
      BY <1>4, Zenon DEF Leave
    <2>3. /\ m \in MateRecord /\ MateOK(m) /\ m.pc = "drain" /\ m.name = mates[i].name
          /\ m.todo = mates[i].todo /\ m.work = mates[i].work /\ m.task = mates[i].task
          /\ m.active = mates[i].active /\ m.cmd = mates[i].cmd
      BY <1>1, <2>1, ZenonT(40) DEF MateRecord, MateOK
    <2> HIDE DEF m
    <2>4. {mates[i].pc, m.pc} \subseteq InTeam
      BY <2>1, <2>3, Zenon DEF InTeam
    <2>5. (m.cmd.at = "tell" => m.cmd = mates[i].cmd) /\ UNCHANGED <<members, tasks, creating>>
          /\ commands' = commands /\ shutdown' = shutdown /\ faults' = faults
      BY <2>2, <2>3, Zenon
    <2> QED
      BY <1>1, <2>1, <2>3, <2>4, <2>5, QuietInv, Zenon
  <1> QED
    BY <1>2, <1>3, <1>4, Zenon

\* The teammate with a name is in the team.
LEMMA MemberIn ==
    ASSUME TeamInv, NEW n \in Name, members[n] # 0
    PROVE  members[n] \in Mate /\ mates[members[n]].pc \in InTeam /\ mates[members[n]].name = n
  BY TypesOf DEF TeamInv, NamesTaken, Mate

\* The shutdown_teammate tool, and Shutdown asking one member.
LEMMA RequestInv ==
    ASSUME TeamInv, NEW i \in Mate, Set(i, Requested(mates[i])),
           UNCHANGED <<members, tasks, commands, creating, faults>>,
           shutdown' \in [at: {"none", "asking", "waiting", "done", "expired"}, ask: SUBSET Mate],
           shutdown'.at = "done" => shutdown.at = "done"
    PROVE  TeamInv'
  <1> DEFINE m == Requested(mates[i])
  <1>1. mates[i] \in MateRecord /\ MateOK(mates[i]) /\ mates' = [mates EXCEPT ![i] = m]
    BY TypesOf, Zenon DEF Set
  <1>2. /\ m \in MateRecord /\ MateOK(m)
        /\ m.name = mates[i].name /\ m.todo = mates[i].todo /\ m.pc = mates[i].pc
        /\ m.cmd = mates[i].cmd /\ m.work = mates[i].work /\ m.task = mates[i].task
        /\ m.active = mates[i].active
    BY <1>1, RequestedFields, Zenon
  <1>3. commands' \in [Task -> {"none", "cancel", "retry", "claimed"}] /\ faults' \in Nat
    BY TypesOf, Zenon
  <1> HIDE DEF m
  <1> QED
    BY <1>1, <1>2, <1>3, QuietInv, Zenon

\* RunTask begins.
LEMMA BeginRunInv ==
    ASSUME TeamInv, NEW i \in Mate, BeginRun(i) PROVE TeamInv'
  <1> DEFINE a == [NoActive EXCEPT !.task = mates[i].task]
             m == [mates[i] EXCEPT !.work = "executing", !.state = "running",
                                 !.early = FALSE, !.active = a]
  <1>1. /\ mates[i] \in MateRecord /\ MateOK(mates[i]) /\ mates[i].work = "claimed"
        /\ mates' = [mates EXCEPT ![i] = m]
        /\ UNCHANGED <<members, tasks, commands, creating, shutdown, faults>>
    BY TypesOf, Zenon DEF BeginRun, Set
  <1>2. /\ a \in [task: 0..MaxTasks, ended: BOOLEAN, settled: BOOLEAN]
        /\ a.task = mates[i].task /\ ~a.ended /\ ~a.settled
    BY <1>1, Zenon DEF NoActive, MateRecord
  <1> HIDE DEF a
  <1>3. /\ m \in MateRecord /\ m.pc = mates[i].pc /\ m.name = mates[i].name
        /\ m.todo = mates[i].todo /\ m.work = "executing" /\ m.task = mates[i].task
        /\ m.active = a /\ m.cmd = mates[i].cmd
        /\ m.state = "running" /\ m.requested = mates[i].requested
        /\ m.cancel = mates[i].cancel
    BY <1>1, <1>2, Zenon DEF MateRecord
  <1> HIDE DEF m
  <1>4. MateOK(m)
    BY <1>1, <1>2, <1>3, Zenon DEF MateOK
  <1>5. mates'[i] = m
    BY <1>1, TypesOf, Zenon
  <1>6. \A t \in Task : Holds(i, t) => AtWork(i, t)'
    BY <1>1, <1>2, <1>3, <1>5, TypesOf, Zenon DEF AtWork
  <1>7. m.cmd.at = "tell" => ~Holds(i, m.cmd.task)
    BY <1>3, Zenon DEF TeamInv, ToldOfTheEnd
  <1>8. MateStep(i, m)
    BY <1>1, <1>3, <1>4, <1>6, <1>7, Zenon DEF MateStep
  <1> QED
    BY <1>1, <1>8, MateStepInv, TypesOf, Zenon

\* The agent returns.  A run whose task is still leased has not been told that
\* it is settled, so the teammate keeps it as its active run.
LEMMA EndRunInv ==
    ASSUME TeamInv, NEW i \in Mate, EndRun(i) PROVE TeamInv'
  <1> DEFINE p == Progress(mates[i], mates[i].task, TRUE, FALSE)
  <1>1. /\ mates[i] \in MateRecord /\ MateOK(mates[i]) /\ mates[i].work = "executing"
        /\ UNCHANGED <<members, tasks, commands, creating, shutdown, faults>>
    BY TypesOf, Zenon DEF EndRun
  <1>2. PICK w \in {"ended", "canceled"} : mates' = [mates EXCEPT ![i] = [p EXCEPT !.work = w]]
    BY Zenon DEF EndRun, Set
  <1> DEFINE m == [p EXCEPT !.work = w]
  <1>3. /\ mates[i].task \in Task /\ mates[i].active.task = mates[i].task
        /\ ~mates[i].active.ended /\ mates[i].pc \in InTeam
    BY <1>1 DEF MateOK, MateRecord, Task, InTeam
  <1>4. /\ p \in MateRecord
        /\ p.pc = mates[i].pc /\ p.name = mates[i].name /\ p.requested = mates[i].requested
        /\ p.task = mates[i].task /\ p.cmd = mates[i].cmd /\ p.todo = mates[i].todo
        /\ SameContext(mates[i], p)
        /\ \/ /\ ~mates[i].active.settled /\ p.state = mates[i].state
              /\ p.active.task = mates[i].task /\ p.active.ended /\ ~p.active.settled
           \/ /\ mates[i].active.settled /\ p.active.task = 0
              /\ p.state = IF mates[i].requested THEN "shutting_down" ELSE "idle"
              /\ mates[i].requested /\ mates[i].cancel => p.canceled
    BY <1>1, <1>3, RunEndedFields, Zenon
  <1> HIDE DEF p
  <1>5. /\ m \in MateRecord
        /\ m.pc = p.pc /\ m.name = p.name /\ m.requested = p.requested
        /\ m.task = p.task /\ m.cmd = p.cmd /\ m.todo = p.todo
        /\ m.state = p.state /\ m.active = p.active /\ m.work = w
        /\ m.cancel = p.cancel /\ m.early = p.early /\ m.canceled = p.canceled
    BY <1>4, ZenonT(40) DEF MateRecord
  <1> HIDE DEF m
  <1>6. MateOK(m)
    BY <1>1, <1>3, <1>4, <1>5, SMTT(30) DEF MateOK, SameContext
  <1>7. mates' = [mates EXCEPT ![i] = m] /\ mates'[i] = m
    BY <1>2, TypesOf, Zenon DEF m
  <1>8. \A t \in Task : Holds(i, t) => AtWork(i, t)'
    <2> SUFFICES ASSUME NEW t \in Task, Holds(i, t) PROVE AtWork(i, t)'
      OBVIOUS
    <2>1. AtWork(i, t)
      BY TypesOf, Zenon
    <2>2. mates[i].task = t /\ tasks[t].assignee \in {mates[i].name, NoName} /\ ~mates[i].active.settled
      BY <1>1, <2>1, Zenon DEF AtWork
    <2>3. /\ m.task = t /\ m.work \in {"ended", "canceled"} /\ m.name = mates[i].name
          /\ m.active.task = t /\ ~m.active.settled
      BY <1>4, <1>5, <2>2, Zenon
    <2> QED
      BY <1>1, <1>7, <2>2, <2>3, Zenon DEF AtWork
  <1>9. m.cmd.at = "tell" => ~Holds(i, m.cmd.task)
    BY <1>4, <1>5, Zenon DEF TeamInv, ToldOfTheEnd
  <1>10. MateStep(i, m)
    BY <1>1, <1>4, <1>5, <1>6, <1>7, <1>8, <1>9, Zenon DEF MateStep
  <1> QED
    BY <1>1, <1>10, MateStepInv, TypesOf, Zenon

\* The task_fail_current tool: the task is over and the teammate knows.
LEMMA FailCurrentInv ==
    ASSUME TeamInv, NEW i \in Mate, FailCurrent(i) PROVE TeamInv'
  <1> DEFINE t == mates[i].task
             m == WhenSettled(mates[i], t)
  <1>1. /\ mates[i] \in MateRecord /\ MateOK(mates[i]) /\ mates[i].work = "executing"
        /\ Holds(i, t) /\ tasks' = [tasks EXCEPT ![t] = Over(t)]
        /\ mates' = [mates EXCEPT ![i] = m]
        /\ UNCHANGED <<members, commands, creating, shutdown, faults>>
    BY TypesOf, Zenon DEF FailCurrent, Set, WhenSettled
  <1>2. t \in Task /\ mates[i].active.task = t /\ ~mates[i].active.ended
    BY <1>1 DEF MateOK, MateRecord, Task
  <1>3. /\ m \in MateRecord
        /\ m.pc = mates[i].pc /\ m.name = mates[i].name /\ m.requested = mates[i].requested
        /\ m.work = mates[i].work /\ m.state = mates[i].state
        /\ m.task = t /\ m.cmd = mates[i].cmd /\ m.todo = mates[i].todo
        /\ m.active.task = t /\ ~m.active.ended /\ SameContext(mates[i], m)
    <2>1. /\ m \in MateRecord
          /\ m.pc = mates[i].pc /\ m.name = mates[i].name /\ m.requested = mates[i].requested
          /\ m.work = mates[i].work /\ m.task = t /\ m.cmd = mates[i].cmd
          /\ m.todo = mates[i].todo /\ SameContext(mates[i], m)
          /\ \/ mates[i].active.task # t /\ m.state = mates[i].state /\ m.active = mates[i].active
             \/ /\ mates[i].active.task = t /\ ~mates[i].active.ended /\ m.state = mates[i].state
                /\ m.active.task = t /\ ~m.active.ended
             \/ /\ mates[i].active.task = t /\ mates[i].active.ended /\ m.active = NoActive
                /\ m.state = IF mates[i].requested THEN "shutting_down" ELSE "idle"
      BY <1>1, <1>2, SettledFields, SMTT(30)
    <2> HIDE DEF m
    <2> QED
      BY <1>2, <2>1, Zenon
  <1> HIDE DEF m
  <1>4. MateOK(m)
    BY <1>1, <1>2, <1>3, Zenon DEF MateOK, SameContext
  <1>5. Over(t) \in TaskRecord /\ Over(t).status = "over"
    BY <1>2, TypesOf, TaskFields, Zenon
  <1>6. \A u \in Task \ {t} : Holds(i, u) => AtWork(i, u)'
    <2>1. \A u \in Task : Holds(i, u) => u = t
      BY TypesOf, Zenon DEF AtWork
    <2> QED
      BY <2>1, Zenon
  <1>7. m.cmd.at = "tell" =>
          IF m.cmd.task = t THEN Over(t).status # "running" ELSE ~Holds(i, m.cmd.task)
    BY <1>3, <1>5, Zenon DEF TeamInv, ToldOfTheEnd
  <1>8. TaskStep(i, m, t, Over(t))
    BY <1>1, <1>3, <1>4, <1>5, <1>6, <1>7, Zenon DEF TaskStep, Holds
  <1> HIDE DEF t
  <1> QED
    BY <1>2, <1>8, TaskStepInv, Zenon

\* runClaim settles the task if it still holds it.
LEMMA SettleInv ==
    ASSUME TeamInv, NEW i \in Mate, Settle(i) PROVE TeamInv'
  <1> DEFINE t == mates[i].task
  <1>1. /\ mates[i] \in MateRecord /\ MateOK(mates[i]) /\ mates[i].work \in {"ended", "canceled"}
        /\ UNCHANGED <<members, commands, creating, shutdown, faults>>
    BY TypesOf, Zenon DEF Settle
  <1>2. t \in Task /\ mates[i].active.task \in {0, t} /\ mates[i].pc \in {"loop", "drain"}
    BY <1>1 DEF MateOK, MateRecord, Task
  <1>3. \A u \in Task : Holds(i, u) => u = t
    BY TypesOf DEF AtWork
  <1>4. CASE Holds(i, t)
    <2> DEFINE m == [mates[i] EXCEPT !.work = "settled"]
               k == IF mates[i].work = "ended" THEN Over(t)
                    ELSE [tasks[t] EXCEPT !.status = "pending", !.owner = 0]
    <2>1. mates' = [mates EXCEPT ![i] = m] /\ tasks' = [tasks EXCEPT ![t] = k]
      BY <1>4, Zenon DEF Settle, Set
    <2>2. /\ m \in MateRecord /\ m.pc = mates[i].pc /\ m.name = mates[i].name
          /\ m.todo = mates[i].todo /\ m.work = "settled" /\ m.task = mates[i].task
          /\ m.active = mates[i].active /\ m.cmd = mates[i].cmd
          /\ m.state = mates[i].state /\ m.requested = mates[i].requested
          /\ SameContext(mates[i], m)
      BY <1>1, ZenonT(40) DEF MateRecord, SameContext
    <2> HIDE DEF m
    <2>3. MateOK(m)
      BY <1>1, <1>2, <2>2, Zenon DEF MateOK, SameContext
    <2>4. tasks[t] \in TaskRecord /\ tasks[t].assignee \in {mates[i].name, NoName}
      BY <1>2, <1>4, TypesOf, Zenon DEF AtWork
    <2>5. /\ k \in TaskRecord /\ k.status \in {"over", "pending"}
          /\ k.status = "pending" => k.assignee = NoName \/ WillLook(k.assignee)
      <3>1. Over(t) \in TaskRecord /\ Over(t).status = "over"
        BY <1>2, TypesOf, TaskFields, Zenon
      <3>2. LET q == [tasks[t] EXCEPT !.status = "pending", !.owner = 0]
            IN  q \in TaskRecord /\ q.status = "pending" /\ q.assignee = tasks[t].assignee
        BY <2>4, BoundsAreNat, Zenon DEF TaskRecord
      <3>3. WillLook(mates[i].name)
        BY <1>2, Zenon DEF WillLook
      <3> QED
        BY <2>4, <3>1, <3>2, <3>3, Zenon
    <2> HIDE DEF k
    <2>6. m.cmd.at = "tell" =>
            IF m.cmd.task = t THEN k.status # "running" ELSE ~Holds(i, m.cmd.task)
      BY <2>2, <2>5, Zenon DEF TeamInv, ToldOfTheEnd
    <2>7. TaskStep(i, m, t, k)
      BY <1>1, <1>2, <1>3, <1>4, <2>1, <2>2, <2>3, <2>5, <2>6, Zenon DEF TaskStep, Holds, InTeam
    <2> HIDE DEF t
    <2> QED
      BY <1>2, <2>7, TaskStepInv, Zenon
  <1>5. CASE ~Holds(i, t)
    <2> DEFINE m == [mates[i] EXCEPT !.work = "none", !.task = 0]
    <2>1. mates' = [mates EXCEPT ![i] = m] /\ tasks' = tasks
      BY <1>5, Zenon DEF Settle, Set
    <2>2. /\ m \in MateRecord /\ m.pc = mates[i].pc /\ m.name = mates[i].name
          /\ m.todo = mates[i].todo /\ m.work = "none" /\ m.task = 0
          /\ m.active = mates[i].active /\ m.cmd = mates[i].cmd
          /\ m.state = mates[i].state /\ m.requested = mates[i].requested
          /\ SameContext(mates[i], m)
      BY <1>1, BoundsAreNat, ZenonT(40) DEF MateRecord, SameContext
    <2> HIDE DEF m
    <2>3. MateOK(m)
      BY <1>1, <2>2, Zenon DEF MateOK, SameContext
    <2>4. \A u \in Task : ~Holds(i, u)
      BY <1>3, <1>5, Zenon
    <2>5. m.cmd.at = "tell" => ~Holds(i, m.cmd.task)
      BY <2>2, Zenon DEF TeamInv, ToldOfTheEnd
    <2>6. MateStep(i, m)
      BY <1>1, <2>1, <2>2, <2>3, <2>4, <2>5, Zenon DEF MateStep
    <2> QED
      BY <1>1, <2>6, MateStepInv, TypesOf, Zenon
  <1> QED
    BY <1>4, <1>5, Zenon

\* The teammate that the worker's store tells is its own.
LEMMA ToldIs ==
    ASSUME TeamInv, NEW i \in Mate, mates[i].pc \in InTeam, NEW t, NEW m, Told(i, t, m)
    PROVE  mates' = [mates EXCEPT ![i] = [WhenSettled(mates[i], t) EXCEPT
                                             !.work = m.work, !.task = m.task, !.cmd = m.cmd]]
  <1> DEFINE w == WhenSettled(mates[i], t)
  <1>1. members[mates[i].name] = i /\ i # 0
    BY DEF TeamInv, NamesTaken, Mate
  <1>2. mates' = [[mates EXCEPT ![i] = w] EXCEPT
                     ![i].work = m.work, ![i].task = m.task, ![i].cmd = m.cmd]
    BY <1>1, Zenon DEF Told, WhenSettled
  <1> HIDE DEF w
  <1>3. mates' = [mates EXCEPT ![i] = [w EXCEPT !.work = m.work, !.task = m.task, !.cmd = m.cmd]]
    BY <1>2, TypesOf, Zenon
  <1> QED
    BY <1>3, Zenon DEF w

\* The teammate is told that its task is settled.
LEMMA MarkTaskSettledInv ==
    ASSUME TeamInv, NEW i \in Mate, MarkTaskSettled(i) PROVE TeamInv'
  <1> DEFINE t == mates[i].task
             w == WhenSettled(mates[i], t)
             m == [w EXCEPT !.work = "none", !.task = 0, !.cmd = mates[i].cmd]
             r == [mates[i] EXCEPT !.work = "none", !.task = 0]
  <1>1. /\ mates[i] \in MateRecord /\ MateOK(mates[i]) /\ mates[i].work = "settled"
        /\ Told(i, t, r)
        /\ UNCHANGED <<members, tasks, commands, creating, shutdown, faults>>
    BY TypesOf, Zenon DEF MarkTaskSettled
  <1>2. t \in Task /\ mates[i].active.task \in {0, t} /\ mates[i].pc \in InTeam
    BY <1>1 DEF MateOK, MateRecord, Task, InTeam
  <1>3. r.work = "none" /\ r.task = 0 /\ r.cmd = mates[i].cmd
    BY <1>1, Zenon DEF MateRecord
  <1> HIDE DEF r
  <1>4. mates' = [mates EXCEPT ![i] = m]
    BY <1>1, <1>2, <1>3, ToldIs, Zenon
  <1>5. /\ w \in MateRecord
        /\ w.pc = mates[i].pc /\ w.name = mates[i].name /\ w.requested = mates[i].requested
        /\ w.cmd = mates[i].cmd /\ w.todo = mates[i].todo /\ SameContext(mates[i], w)
        /\ \/ mates[i].active.task # t /\ w.state = mates[i].state /\ w.active = mates[i].active
           \/ /\ mates[i].active.task = t /\ ~mates[i].active.ended
           \/ /\ mates[i].active.task = t /\ mates[i].active.ended /\ w.active = NoActive
              /\ w.state = IF mates[i].requested THEN "shutting_down" ELSE "idle"
              /\ mates[i].requested /\ mates[i].cancel => w.canceled
    BY <1>1, <1>2, SettledFields, Zenon
  <1> HIDE DEF w
  <1>6. /\ m \in MateRecord
        /\ m.pc = w.pc /\ m.name = w.name /\ m.requested = w.requested
        /\ m.task = 0 /\ m.cmd = mates[i].cmd /\ m.todo = w.todo
        /\ m.state = w.state /\ m.active = w.active /\ m.work = "none"
        /\ m.cancel = w.cancel /\ m.early = w.early /\ m.canceled = w.canceled
    BY <1>1, <1>5, BoundsAreNat, Zenon DEF MateRecord
  <1> HIDE DEF m
  <1>7. \/ m.state = mates[i].state /\ m.active = mates[i].active
        \/ /\ m.state = (IF m.requested THEN "shutting_down" ELSE "idle") /\ m.active.task = 0
           /\ m.requested => m.canceled
    <2>1. ~(mates[i].active.task = t /\ ~mates[i].active.ended)
      BY <1>1, <1>2, Zenon DEF MateOK, Task
    <2>2. NoActive.task = 0 /\ mates[i].cancel
      BY <1>1, Zenon DEF NoActive, MateOK
    <2> QED
      BY <1>5, <1>6, <2>1, <2>2, Zenon
  <1>8. MateOK(m)
    BY <1>1, <1>5, <1>6, <1>7, ZenonT(40) DEF MateOK, SameContext
  <1>9. \A u \in Task : ~Holds(i, u)
    BY <1>1, TypesOf, Zenon DEF AtWork
  <1>10. m.cmd.at = "tell" => ~Holds(i, m.cmd.task)
    BY <1>6, Zenon DEF TeamInv, ToldOfTheEnd
  <1>11. MateStep(i, m)
    BY <1>1, <1>4, <1>5, <1>6, <1>8, <1>9, <1>10, Zenon DEF MateStep
  <1> QED
    BY <1>1, <1>11, MateStepInv, TypesOf, Zenon

\* The teammate is told that a task has been canceled: perhaps its own.
LEMMA TellCanceledInv ==
    ASSUME TeamInv, NEW i \in Mate, TellCanceled(i) PROVE TeamInv'
  <1> DEFINE t == mates[i].cmd.task
             w == WhenSettled(mates[i], t)
             c == [mates[i].cmd EXCEPT !.at = "ack"]
             m == [w EXCEPT !.work = mates[i].work, !.task = mates[i].task, !.cmd = c]
             r == [mates[i] EXCEPT !.cmd.at = "ack"]
  <1>1. /\ mates[i] \in MateRecord /\ MateOK(mates[i]) /\ mates[i].cmd.at = "tell"
        /\ Told(i, t, r)
        /\ UNCHANGED <<members, tasks, commands, creating, shutdown, faults>>
    BY TypesOf, Zenon DEF TellCanceled
  <1>2. t \in Task /\ mates[i].pc \in InTeam /\ mates[i].pc = "loop"
    BY <1>1 DEF MateOK, MateRecord, Task, InTeam
  <1>3. r.work = mates[i].work /\ r.task = mates[i].task /\ r.cmd = c
    BY <1>1, Zenon DEF MateRecord
  <1>4. /\ c.task = t /\ c.at = "ack"
        /\ c \in [task: 0..MaxTasks, at: {"none", "cancel", "retry", "tell", "ack", "nack"}]
    BY <1>1, Zenon DEF MateRecord
  <1> HIDE DEF r, c
  <1>5. mates' = [mates EXCEPT ![i] = m]
    BY <1>1, <1>2, <1>3, ToldIs, Zenon
  <1>6. /\ w \in MateRecord
        /\ w.pc = mates[i].pc /\ w.name = mates[i].name /\ w.requested = mates[i].requested
        /\ w.todo = mates[i].todo /\ SameContext(mates[i], w)
        /\ \/ mates[i].active.task # t /\ w.state = mates[i].state /\ w.active = mates[i].active
           \/ /\ mates[i].active.task = t /\ ~mates[i].active.ended /\ w.state = mates[i].state
              /\ w.active.task = t /\ ~w.active.ended
           \/ /\ mates[i].active.task = t /\ mates[i].active.ended /\ w.active = NoActive
              /\ w.state = IF mates[i].requested THEN "shutting_down" ELSE "idle"
              /\ mates[i].requested /\ mates[i].cancel => w.canceled
    BY <1>1, <1>2, SettledFields, Zenon
  <1> HIDE DEF w
  <1>7. /\ m \in MateRecord
        /\ m.pc = w.pc /\ m.name = w.name /\ m.requested = w.requested
        /\ m.task = mates[i].task /\ m.cmd = c /\ m.todo = w.todo
        /\ m.state = w.state /\ m.active = w.active /\ m.work = mates[i].work
        /\ m.cancel = w.cancel /\ m.early = w.early /\ m.canceled = w.canceled
    BY <1>1, <1>4, <1>6, ZenonT(60) DEF MateRecord
  <1> HIDE DEF m
  <1>8. \/ m.state = mates[i].state /\ m.active = mates[i].active
        \/ /\ mates[i].active.task = t /\ m.state = mates[i].state
           /\ m.active.task = mates[i].active.task /\ ~mates[i].active.ended /\ ~m.active.ended
        \/ /\ mates[i].active.task = t /\ mates[i].active.ended
           /\ m.state = (IF m.requested THEN "shutting_down" ELSE "idle") /\ m.active.task = 0
           /\ m.requested => m.canceled
    <2>1. NoActive.task = 0 /\ mates[i].cancel
      BY <1>1, <1>2, Zenon DEF NoActive, MateOK
    <2>2. CASE mates[i].active.task # t /\ w.state = mates[i].state /\ w.active = mates[i].active
      BY <1>7, <2>2, Zenon
    <2>3. CASE /\ mates[i].active.task = t /\ ~mates[i].active.ended /\ w.state = mates[i].state
               /\ w.active.task = t /\ ~w.active.ended
      BY <1>7, <2>3, Zenon
    <2>4. CASE /\ mates[i].active.task = t /\ mates[i].active.ended /\ w.active = NoActive
               /\ w.state = IF mates[i].requested THEN "shutting_down" ELSE "idle"
               /\ mates[i].requested /\ mates[i].cancel => w.canceled
      BY <1>6, <1>7, <2>1, <2>4, Zenon
    <2> QED
      BY <1>6, <2>2, <2>3, <2>4, Zenon
  <1>9. m.cmd.at = "ack" /\ m.cmd.task = t /\ t # 0 /\ m.pc = "loop"
    BY <1>2, <1>4, <1>6, <1>7 DEF Task
  <1>10. MateOK(m)
    <2>1. /\ m.pc = mates[i].pc /\ m.name = mates[i].name /\ m.requested = mates[i].requested
          /\ SameContext(mates[i], m)
      BY <1>6, <1>7, Zenon DEF SameContext
    <2> QED
      BY <1>1, <1>7, <1>8, <1>9, <2>1, ZenonT(40) DEF MateOK, SameContext
  <1>11. \A u \in Task : Holds(i, u) => AtWork(i, u)'
    <2> SUFFICES ASSUME NEW u \in Task, Holds(i, u) PROVE AtWork(i, u)'
      OBVIOUS
    <2>1. u # t
      BY <1>1, <1>2, Zenon DEF TeamInv, ToldOfTheEnd, Holds
    <2>2. AtWork(i, u) /\ mates'[i] = m
      BY <1>5, TypesOf, Zenon
    <2> QED
      BY <1>1, <1>6, <1>7, <1>8, <2>1, <2>2, Zenon DEF AtWork
  <1>12. MateStep(i, m)
    BY <1>1, <1>5, <1>6, <1>7, <1>9, <1>10, <1>11, Zenon DEF MateStep
  <1> QED
    BY <1>1, <1>12, MateStepInv, TypesOf, Zenon

-----------------------------------------------------------------------------
(* Claims and commands. *)

\* A free teammate claims a task.
LEMMA ClaimReadyTaskInv ==
    ASSUME TeamInv, NEW i \in Mate, NEW t \in Task, ClaimReadyTask(i, t) PROVE TeamInv'
  <1> DEFINE m == [mates[i] EXCEPT !.work = "claimed", !.task = t]
             k == [tasks[t] EXCEPT !.status = "running", !.owner = i, !.late = FALSE]
  <1>1. /\ mates[i] \in MateRecord /\ MateOK(mates[i]) /\ mates[i].work = "none"
        /\ mates[i].pc = "loop" /\ mates[i].cmd.at = "none"
        /\ tasks[t] \in TaskRecord /\ tasks[t].status = "pending"
        /\ tasks[t].assignee \in {mates[i].name, NoName}
        /\ mates' = [mates EXCEPT ![i] = m]
        /\ UNCHANGED <<members, commands, creating, shutdown, faults>>
    <2>1. mates[i] \in MateRecord /\ MateOK(mates[i]) /\ tasks[t] \in TaskRecord
      BY TypesOf, Zenon
    <2> QED
      BY <2>1, Zenon DEF ClaimReadyTask, InLoop, At, Claimable, Set
  <1>2. tasks' = [tasks EXCEPT ![t] = k]
    <2>1. tasks \in [Task -> TaskRecord] /\ tasks[t] \in TaskRecord
      BY TypesOf, Zenon
    <2>2. tasks' = [tasks EXCEPT ![t].status = "running", ![t].owner = i, ![t].late = FALSE]
      BY Zenon DEF ClaimReadyTask
    <2> QED
      BY <2>1, <2>2, Zenon DEF TaskRecord
  <1>3. /\ m \in MateRecord /\ m.pc = mates[i].pc /\ m.name = mates[i].name
        /\ m.todo = mates[i].todo /\ m.work = "claimed" /\ m.task = t /\ t # 0
        /\ m.active = mates[i].active /\ m.cmd = mates[i].cmd
        /\ m.state = mates[i].state /\ m.requested = mates[i].requested
        /\ SameContext(mates[i], m)
    <2>1. t \in 0..MaxTasks /\ t # 0
      BY BoundsAreNat DEF Task
    <2> QED
      BY <1>1, <2>1, Zenon DEF MateRecord, SameContext
  <1>4. /\ k \in TaskRecord /\ k.status = "running" /\ k.owner = i
        /\ k.assignee = tasks[t].assignee
    <2>1. i \in 0..MaxSpawns
      BY BoundsAreNat DEF Mate
    <2> QED
      BY <1>1, <2>1, Zenon DEF TaskRecord
  <1> HIDE DEF m, k
  <1>5. MateOK(m)
    BY <1>1, <1>3, Zenon DEF MateOK, SameContext
  <1>6. mates'[i] = m /\ tasks'[t] = k
    BY <1>1, <1>2, TypesOf, Zenon
  <1>7. AtWork(i, t)'
    BY <1>1, <1>3, <1>4, <1>6 DEF AtWork
  <1>8. \A u \in Task : ~Holds(i, u)
    BY <1>1, TypesOf, Zenon DEF AtWork
  <1>9. TaskStep(i, m, t, k)
    BY <1>1, <1>2, <1>3, <1>4, <1>5, <1>7, <1>8, Zenon DEF TaskStep
  <1> QED
    BY <1>9, TaskStepInv, Zenon

\* A change of the command that the loop is at.
LEMMA CmdFields ==
    ASSUME NEW m0 \in MateRecord, MateOK(m0), m0.pc = "loop",
           NEW c \in [task: 0..MaxTasks, at: {"none", "cancel", "retry", "tell", "ack", "nack"}],
           c.at # "none" => c.task # 0
    PROVE  LET m == [m0 EXCEPT !.cmd = c]
           IN  /\ m \in MateRecord /\ MateOK(m) /\ m.cmd = c
               /\ m.pc = m0.pc /\ m.name = m0.name /\ m.todo = m0.todo /\ m.work = m0.work
               /\ m.task = m0.task /\ m.active = m0.active
               /\ m.state = m0.state /\ m.requested = m0.requested /\ SameContext(m0, m)
  <1> DEFINE m == [m0 EXCEPT !.cmd = c]
  <1>1. /\ m \in MateRecord /\ m.cmd = c
        /\ m.pc = m0.pc /\ m.name = m0.name /\ m.todo = m0.todo /\ m.work = m0.work
        /\ m.task = m0.task /\ m.active = m0.active
        /\ m.state = m0.state /\ m.requested = m0.requested /\ SameContext(m0, m)
    BY Zenon DEF MateRecord, SameContext
  <1> HIDE DEF m
  <1>2. MateOK(m)
    BY <1>1, ZenonT(40) DEF MateOK, SameContext
  <1> QED
    BY <1>1, <1>2, Zenon DEF m

\* The loop claims a command.
LEMMA ClaimCommandInv ==
    ASSUME TeamInv, NEW i \in Mate, NEW t \in Task, ClaimCommand(i, t) PROVE TeamInv'
  <1> DEFINE c == [task |-> t, at |-> commands[t]]
             m == [mates[i] EXCEPT !.cmd = c]
  <1>1. /\ mates[i] \in MateRecord /\ MateOK(mates[i]) /\ mates[i].pc = "loop"
        /\ mates' = [mates EXCEPT ![i] = m]
        /\ UNCHANGED <<members, tasks, creating, shutdown, faults>>
        /\ commands' \in [Task -> {"none", "cancel", "retry", "claimed"}]
    BY TypesOf, Zenon DEF ClaimCommand, InLoop, At, Set
  <1>2. /\ c \in [task: 0..MaxTasks, at: {"none", "cancel", "retry", "tell", "ack", "nack"}]
        /\ c.task # 0 /\ c.at # "tell"
    <2>1. commands[t] \in {"cancel", "retry"}
      BY Zenon DEF ClaimCommand
    <2> QED
      BY <2>1, BoundsAreNat DEF Task
  <1> HIDE DEF c
  <1>3. /\ m \in MateRecord /\ MateOK(m) /\ m.cmd = c
        /\ m.pc = mates[i].pc /\ m.name = mates[i].name /\ m.todo = mates[i].todo
        /\ m.work = mates[i].work /\ m.task = mates[i].task /\ m.active = mates[i].active
    BY <1>1, <1>2, CmdFields
  <1> HIDE DEF m
  <1>4. m.cmd.at # "tell"
    BY <1>2, <1>3, Zenon
  <1> QED
    BY <1>1, <1>3, <1>4, QuietInv, TypesOf, Zenon

\* applyCancelTask: the task is over, or the command is left to be finished.
LEMMA ApplyCancelInv ==
    ASSUME TeamInv, NEW i \in Mate, ApplyCancel(i) PROVE TeamInv'
  <1> DEFINE t == mates[i].cmd.task
             c(at) == [mates[i].cmd EXCEPT !.at = at]
             m(at) == [mates[i] EXCEPT !.cmd = c(at)]
  <1>1. /\ mates[i] \in MateRecord /\ MateOK(mates[i]) /\ mates[i].cmd.at = "cancel"
        /\ UNCHANGED <<members, commands, creating, shutdown, faults>>
    BY TypesOf, Zenon DEF ApplyCancel
  <1>2. t \in Task /\ t # 0 /\ mates[i].pc = "loop"
    BY <1>1 DEF MateOK, MateRecord, Task
  <1>3. ASSUME NEW at \in {"tell", "nack", "ack"}, CmdAt(i, at)
        PROVE  /\ mates' = [mates EXCEPT ![i] = m(at)]
               /\ m(at) \in MateRecord /\ MateOK(m(at)) /\ m(at).cmd = c(at)
               /\ m(at).pc = mates[i].pc /\ m(at).name = mates[i].name
               /\ m(at).todo = mates[i].todo /\ m(at).work = mates[i].work
               /\ m(at).task = mates[i].task /\ m(at).active = mates[i].active
               /\ m(at).cmd.at = at /\ m(at).cmd.task = t
    <2>1. mates' = [mates EXCEPT ![i] = m(at)]
      BY <1>1, <1>3, Zenon DEF CmdAt, Set, MateRecord
    <2>2. /\ c(at) \in [task: 0..MaxTasks, at: {"none", "cancel", "retry", "tell", "ack", "nack"}]
          /\ c(at).at = at /\ c(at).task = t
      BY <1>1, Zenon DEF MateRecord
    <2> HIDE DEF c
    <2>3. /\ m(at) \in MateRecord /\ MateOK(m(at)) /\ m(at).cmd = c(at)
          /\ m(at).pc = mates[i].pc /\ m(at).name = mates[i].name
          /\ m(at).todo = mates[i].todo /\ m(at).work = mates[i].work
          /\ m(at).task = mates[i].task /\ m(at).active = mates[i].active
      BY <1>1, <1>2, <2>2, CmdFields
    <2> QED
      BY <2>1, <2>2, <2>3, Zenon
  <1> HIDE DEF m, c
  <1>4. CASE tasks' = [tasks EXCEPT ![t] = Over(t)] /\ CmdAt(i, "tell")
             /\ (tasks[t].status = "pending" \/ Holds(i, t))
    <2>1. /\ mates' = [mates EXCEPT ![i] = m("tell")]
          /\ m("tell") \in MateRecord /\ MateOK(m("tell"))
          /\ m("tell").pc = mates[i].pc /\ m("tell").name = mates[i].name
          /\ m("tell").todo = mates[i].todo /\ m("tell").work = mates[i].work
          /\ m("tell").task = mates[i].task /\ m("tell").active = mates[i].active
          /\ m("tell").cmd.at = "tell" /\ m("tell").cmd.task = t
      BY <1>3, <1>4, Zenon
    <2>2. \A u \in Task \ {t} : Holds(i, u) => AtWork(i, u)'
      <3>1. mates'[i] = m("tell") /\ \A u \in Task \ {t} : tasks'[u] = tasks[u]
        BY <1>4, <2>1, TypesOf, Zenon
      <3> QED
        BY <2>1, <3>1, TypesOf, SMTT(30) DEF AtWork
    <2>3. tasks[t].status \in {"pending", "running"}
      BY <1>4, Zenon DEF Holds
    <2>4. Over(t) \in TaskRecord /\ Over(t).status = "over"
      BY <1>2, TypesOf, TaskFields, Zenon
    <2>5. TaskStep(i, m("tell"), t, Over(t))
      BY <1>1, <1>4, <2>1, <2>2, <2>3, <2>4, Zenon DEF TaskStep
    <2> QED
      BY <1>2, <2>5, TaskStepInv, Zenon
  <1>5. ASSUME NEW at \in {"nack", "ack"}, CmdAt(i, at), UNCHANGED tasks PROVE TeamInv'
    <2>1. /\ mates' = [mates EXCEPT ![i] = m(at)]
          /\ m(at) \in MateRecord /\ MateOK(m(at))
          /\ m(at).pc = mates[i].pc /\ m(at).name = mates[i].name
          /\ m(at).todo = mates[i].todo /\ m(at).work = mates[i].work
          /\ m(at).task = mates[i].task /\ m(at).active = mates[i].active
          /\ m(at).cmd.at # "tell"
      BY <1>3, <1>5, Zenon
    <2> QED
      BY <1>1, <1>5, <2>1, QuietInv, TypesOf, Zenon
  <1> QED
    BY <1>4, <1>5, Zenon DEF ApplyCancel

\* applyRetryTask: the task is pending again, for its assignee.
LEMMA RetryTaskInv ==
    ASSUME TeamInv, NEW i \in Mate, RetryTask(i) PROVE TeamInv'
  <1> DEFINE t == mates[i].cmd.task
             c == [mates[i].cmd EXCEPT !.at = "ack"]
             m == [mates[i] EXCEPT !.cmd = c]
             k == Pending(tasks[t].assignee)
  <1>1. /\ mates[i] \in MateRecord /\ MateOK(mates[i]) /\ mates[i].cmd.at = "retry"
        /\ UNCHANGED <<members, commands, creating, shutdown, faults>>
    BY TypesOf, Zenon DEF RetryTask
  <1>2. t \in Task /\ mates[i].pc = "loop"
    BY <1>1 DEF MateOK, MateRecord, Task
  <1>3. mates' = [mates EXCEPT ![i] = m]
    BY <1>1, Zenon DEF RetryTask, CmdAt, Set, MateRecord
  <1>4. /\ c \in [task: 0..MaxTasks, at: {"none", "cancel", "retry", "tell", "ack", "nack"}]
        /\ c.at = "ack" /\ c.task = t
    BY <1>1, Zenon DEF MateRecord
  <1> HIDE DEF c
  <1>5. t # 0
    BY <1>2 DEF Task
  <1>6. /\ m \in MateRecord /\ MateOK(m) /\ m.cmd = c
        /\ m.pc = mates[i].pc /\ m.name = mates[i].name /\ m.todo = mates[i].todo
        /\ m.work = mates[i].work /\ m.task = mates[i].task /\ m.active = mates[i].active
    BY <1>1, <1>2, <1>4, <1>5, CmdFields
  <1> HIDE DEF m
  <1>7. CASE tasks[t].status = "over"
    <2>1. tasks' = [tasks EXCEPT ![t] = k]
      BY <1>7, Zenon DEF RetryTask
    <2>2. /\ k \in TaskRecord /\ k.status = "pending"
          /\ k.late \/ k.assignee = NoName \/ WillLook(k.assignee)
      <3>1. tasks[t].assignee \in Name \cup {NoName}
        BY <1>2, TypesOf, Zenon DEF TaskRecord
      <3> QED
        BY <3>1, TaskFields, Zenon
    <2> HIDE DEF k
    <2>3. \A u \in Task \ {t} : Holds(i, u) => AtWork(i, u)'
      <3>1. mates'[i] = m /\ \A u \in Task \ {t} : tasks'[u] = tasks[u]
        BY <1>3, <2>1, TypesOf, Zenon
      <3> QED
        BY <1>6, <3>1, TypesOf, SMTT(30) DEF AtWork
    <2>4. TaskStep(i, m, t, k)
      BY <1>1, <1>3, <1>4, <1>6, <1>7, <2>1, <2>2, <2>3, Zenon DEF TaskStep
    <2> QED
      BY <1>2, <2>4, TaskStepInv, Zenon
  <1>8. CASE tasks[t].status # "over"
    <2>1. tasks' = tasks
      BY <1>8, Zenon DEF RetryTask
    <2> QED
      BY <1>1, <1>3, <1>4, <1>6, <2>1, QuietInv, TypesOf, Zenon
  <1> QED
    BY <1>7, <1>8, Zenon

\* The command is acknowledged or given back, or its failure ends the loop.
LEMMA FinishCommandInv ==
    ASSUME TeamInv, NEW i \in Mate, FinishCommand(i) PROVE TeamInv'
  <1> DEFINE c == mates[i].cmd
             m == [mates[i] EXCEPT !.cmd = NoMate.cmd]
             d == [m EXCEPT !.pc = "drain"]
  <1>1. /\ mates[i] \in MateRecord /\ MateOK(mates[i]) /\ c.at \in {"ack", "nack"}
        /\ UNCHANGED <<members, tasks, creating, shutdown, faults>>
    BY TypesOf, Zenon DEF FinishCommand
  <1>2. mates[i].pc = "loop"
    BY <1>1, Zenon DEF MateOK
  <1>3. /\ NoMate.cmd \in [task: 0..MaxTasks, at: {"none", "cancel", "retry", "tell", "ack", "nack"}]
        /\ NoMate.cmd.at = "none"
    BY BoundsAreNat, Zenon DEF NoMate
  <1>4. /\ m \in MateRecord /\ MateOK(m) /\ m.cmd = NoMate.cmd
        /\ m.pc = mates[i].pc /\ m.name = mates[i].name /\ m.todo = mates[i].todo
        /\ m.work = mates[i].work /\ m.task = mates[i].task /\ m.active = mates[i].active
    BY <1>1, <1>2, <1>3, CmdFields
  <1>5. \/ /\ mates' = [mates EXCEPT ![i] = m]
           /\ commands' = [commands EXCEPT ![c.task] = IF c.at = "ack" THEN "none" ELSE "cancel"]
        \/ mates' = [mates EXCEPT ![i] = d] /\ UNCHANGED commands
    BY Zenon DEF FinishCommand, Set
  <1>6. commands' \in [Task -> {"none", "cancel", "retry", "claimed"}]
    BY <1>5, TypesOf, Zenon
  <1> HIDE DEF m
  <1>7. /\ d \in MateRecord /\ d.cmd = m.cmd /\ d.state = m.state /\ d.requested = m.requested
        /\ d.pc = "drain" /\ d.name = m.name /\ d.todo = m.todo
        /\ d.work = m.work /\ d.task = m.task /\ d.active = m.active
        /\ SameContext(m, d)
    BY <1>4, Zenon DEF MateRecord, SameContext
  <1> HIDE DEF d
  <1>8. MateOK(d)
    BY <1>2, <1>3, <1>4, <1>7, ZenonT(40) DEF MateOK, SameContext
  <1>9. {mates[i].pc, d.pc} \subseteq InTeam
    BY <1>2, <1>7, Zenon DEF InTeam
  <1>10. faults' \in Nat /\ shutdown' = shutdown
         /\ shutdown' \in [at: {"none", "asking", "waiting", "done", "expired"}, ask: SUBSET Mate]
    BY <1>1, TypesOf, Zenon
  <1>11. CASE mates' = [mates EXCEPT ![i] = m]
    BY <1>1, <1>3, <1>4, <1>6, <1>10, <1>11, QuietInv, Zenon
  <1>12. CASE mates' = [mates EXCEPT ![i] = d]
    BY <1>1, <1>3, <1>4, <1>6, <1>7, <1>8, <1>9, <1>10, <1>12, QuietInv, Zenon
  <1> QED
    BY <1>5, <1>11, <1>12, Zenon

-----------------------------------------------------------------------------
(* The users of the store, and shutdown. *)

\* A step that leaves teammates and tasks alone.
LEMMA StillInv ==
    ASSUME TeamInv, UNCHANGED <<members, mates, tasks, creating>>,
           commands' \in [Task -> {"none", "cancel", "retry", "claimed"}], faults' \in Nat,
           shutdown' \in [at: {"none", "asking", "waiting", "done", "expired"}, ask: SUBSET Mate],
           shutdown'.at = "done" => shutdown.at = "done"
    PROVE  TeamInv'
  <1>1. /\ mates' = mates /\ tasks' = tasks
        /\ mates \in [Mate -> MateRecord] /\ tasks \in [Task -> TaskRecord]
        /\ \A i \in Mate : MateOK(mates[i])
    BY TypesOf, Zenon
  <1>2. SeatsKept
    BY <1>1, Zenon DEF SeatsKept, SameSeat, SameQueue
  <1>3. LeasedToWorkers' /\ ToldOfTheEnd'
    BY <1>1, SMTT(30) DEF TeamInv, LeasedToWorkers, AtWork, ToldOfTheEnd, Holds
  <1> QED
    BY <1>2, <1>3, SeatsKeptInv, Zenon

\* A task is deleted, loses its lease, or is to be canceled or retried.
LEMMA StoreUserInv ==
    ASSUME TeamInv, NEW t \in Task, DeleteTask(t) \/ SendCommand(t) \/ ExpireLease(t)
    PROVE  TeamInv'
  <1>1. faults' \in Nat
    BY TypesOf DEF DeleteTask, SendCommand, ExpireLease, Fault
  <1>2. CASE DeleteTask(t)
    <2> DEFINE k == [NoTask EXCEPT !.status = "deleted"]
    <2>1. /\ tasks' = [tasks EXCEPT ![t] = k] /\ tasks[t].status # "absent"
          /\ commands' = [commands EXCEPT ![t] = "none"]
          /\ UNCHANGED <<members, mates, creating, shutdown>>
      BY <1>2, Zenon DEF DeleteTask, Exists
    <2>2. k \in TaskRecord /\ k.status = "deleted"
      BY TaskFields, Zenon
    <2> HIDE DEF k
    <2>3. commands' \in [Task -> {"none", "cancel", "retry", "claimed"}]
      BY <2>1, TypesOf, Zenon
    <2> QED
      BY <1>1, <2>1, <2>2, <2>3, TaskEndsInv, Zenon
  <1>3. CASE ExpireLease(t)
    <2>1. /\ tasks' = [tasks EXCEPT ![t] = Over(t)] /\ tasks[t].status # "absent"
          /\ UNCHANGED <<members, mates, commands, creating, shutdown>>
      BY <1>3, Zenon DEF ExpireLease
    <2>2. Over(t) \in TaskRecord /\ Over(t).status = "over"
      BY TypesOf, TaskFields, Zenon
    <2> QED
      BY <1>1, <2>1, <2>2, TaskEndsInv, TypesOf, Zenon
  <1>4. CASE SendCommand(t)
    <2>1. /\ commands' \in [Task -> {"none", "cancel", "retry", "claimed"}]
          /\ UNCHANGED <<members, mates, tasks, creating, shutdown>>
      BY <1>4, TypesOf, Zenon DEF SendCommand
    <2> QED
      BY <1>1, <2>1, StillInv, TypesOf, Zenon
  <1> QED
    BY <1>2, <1>3, <1>4

\* The shutdown_teammate tool.
LEMMA RequestShutdownInv ==
    ASSUME TeamInv, NEW n \in Name, RequestShutdown(n) PROVE TeamInv'
  <1>1. members[n] # 0 /\ Set(members[n], Requested(mates[members[n]]))
        /\ UNCHANGED <<members, tasks, commands, creating, shutdown, faults>>
    BY Zenon DEF RequestShutdown
  <1>2. members[n] \in Mate
    BY <1>1, MemberIn, Zenon
  <1>3. shutdown' = shutdown
        /\ shutdown' \in [at: {"none", "asking", "waiting", "done", "expired"}, ask: SUBSET Mate]
    BY <1>1, TypesOf, Zenon
  <1> QED
    BY <1>1, <1>2, <1>3, RequestInv, Zenon

\* Team.Shutdown, up to the end of the wait.
LEMMA ShutdownInv ==
    ASSUME TeamInv, BeginShutdown \/ AskMember \/ AllStopped \/ ShutdownExpires
    PROVE  TeamInv'
  <1> DEFINE Calls == [at: {"none", "asking", "waiting", "done", "expired"}, ask: SUBSET Mate]
  <1>1. /\ shutdown \in Calls /\ faults \in Nat
        /\ commands \in [Task -> {"none", "cancel", "retry", "claimed"}]
        /\ mates \in [Mate -> MateRecord] /\ \A i \in Mate : MateOK(mates[i])
        /\ tasks \in [Task -> TaskRecord]
    BY TypesOf, Zenon
  <1>2. CASE BeginShutdown
    <2> DEFINE ask == {members[n] : n \in Name} \ {0}
    <2>1. shutdown' = [at |-> IF ask = {} THEN "waiting" ELSE "asking", ask |-> ask]
          /\ UNCHANGED <<members, mates, tasks, commands, creating, faults>>
      BY <1>2, Zenon DEF BeginShutdown
    <2>2. ask \subseteq Mate
      BY MemberIn, Zenon
    <2> HIDE DEF ask
    <2>3. shutdown' \in Calls /\ shutdown'.at # "done"
      BY <2>1, <2>2, Zenon
    <2> QED
      BY <1>1, <2>1, <2>3, StillInv, Zenon
  <1>3. CASE AskMember
    <2>1. /\ shutdown.at = "asking"
          /\ UNCHANGED <<members, tasks, commands, creating, faults>>
      BY <1>3, Zenon DEF AskMember
    <2>2. PICK i \in shutdown.ask :
            /\ Set(i, Requested(mates[i]))
            /\ shutdown' = [at |-> IF shutdown.ask = {i} THEN "waiting" ELSE "asking",
                            ask |-> shutdown.ask \ {i}]
      BY <1>3, Zenon DEF AskMember
    <2>3. i \in Mate
      BY <1>1, Zenon
    <2>4. shutdown' \in Calls /\ shutdown'.at # "done"
      BY <1>1, <2>2, Zenon
    <2> QED
      BY <2>1, <2>2, <2>3, <2>4, RequestInv, Zenon
  <1>4. CASE AllStopped
    <2>1. /\ \A i \in Spawned : Departed(i)
          /\ shutdown' = [shutdown EXCEPT !.at = "done"]
          /\ UNCHANGED <<members, mates, tasks, commands, creating, faults>>
      BY <1>4, Zenon DEF AllStopped
    <2>2. shutdown' \in Calls
      BY <1>1, <2>1, Zenon
    <2>3. Typed'
      BY <2>1, <2>2, Zenon DEF TeamInv, Typed, Spawned, Created
    <2>4. NobodyAfterShutdown'
      BY <2>1, Zenon DEF NobodyAfterShutdown, Spawned, Departed
    <2> QED
      BY <2>1, <2>3, <2>4, Zenon DEF TeamInv, NamesTaken, LeasedToWorkers, AtWork, ToldOfTheEnd,
                              Holds, WaitsForSomebody, LooksFor
  <1>5. CASE ShutdownExpires
    <2>1. shutdown' = [shutdown EXCEPT !.at = "expired"]
          /\ UNCHANGED <<members, tasks, commands, creating, faults>>
      BY <1>5, Zenon DEF ShutdownExpires
    <2>2. ASSUME NEW i \in Mate
          PROVE  /\ mates'[i] \in MateRecord /\ mates'[i].pc = mates[i].pc
                 /\ mates'[i].name = mates[i].name /\ mates'[i].todo = mates[i].todo
                 /\ mates'[i].work = mates[i].work /\ mates'[i].task = mates[i].task
                 /\ mates'[i].active = mates[i].active /\ mates'[i].cmd = mates[i].cmd
                 /\ mates'[i].state = mates[i].state /\ mates'[i].requested = mates[i].requested
                 /\ mates'[i].cancel = mates[i].cancel /\ mates'[i].early = mates[i].early
                 /\ mates[i].canceled => mates'[i].canceled
      <3>1. mates'[i] = mates[i] \/ mates'[i] = [mates[i] EXCEPT !.canceled = TRUE]
        BY <1>5, Zenon DEF ShutdownExpires
      <3>2. mates[i] \in MateRecord
        BY <1>1, Zenon
      <3> QED
        BY <3>1, <3>2, ZenonT(40) DEF MateRecord
    <2>3. \A i \in Mate : MateOK(mates'[i])
      BY <1>1, <2>2, SMTT(30) DEF MateOK
    <2>4. mates' \in [Mate -> MateRecord]
      BY <1>5, <2>2, Zenon DEF ShutdownExpires
    <2>5. shutdown' \in Calls /\ shutdown'.at # "done"
      BY <1>1, <2>1, Zenon
    <2>6. SeatsKept
      BY <1>1, <2>1, <2>2, <2>3, <2>4, <2>5, Zenon DEF SeatsKept, SameSeat, SameQueue
    <2>7. LeasedToWorkers'
      <3>1. \A t \in Task : tasks[t].status = "running" => tasks[t].owner \in Mate
        BY <1>1 DEF TeamInv, LeasedToWorkers, TaskRecord, Mate
      <3> QED
        BY <2>1, <2>2, <3>1 DEF TeamInv, LeasedToWorkers, AtWork
    <2>8. ToldOfTheEnd'
      <3> SUFFICES ASSUME NEW j \in Mate, mates'[j].cmd.at = "tell"
                   PROVE  ~Holds(j, mates[j].cmd.task)'
        BY Zenon DEF ToldOfTheEnd
      <3>1. mates'[j].cmd = mates[j].cmd /\ ~Holds(j, mates[j].cmd.task) /\ tasks' = tasks
        BY <2>1, <2>2, Zenon DEF TeamInv, ToldOfTheEnd
      <3> QED
        BY <3>1, Zenon DEF Holds
    <2> QED
      BY <2>6, <2>7, <2>8, SeatsKeptInv, Zenon
  <1> QED
    BY <1>2, <1>3, <1>4, <1>5, Zenon

-----------------------------------------------------------------------------
(* New tasks. *)

\* createTeamTask looks up the assignee.
LEMMA LookUpAssigneeInv ==
    ASSUME TeamInv, NEW n \in Name, LookUpAssignee(n) PROVE TeamInv'
  <1>1. creating' = n /\ UNCHANGED <<members, mates, tasks, commands, shutdown, faults>>
    BY Zenon DEF LookUpAssignee
  <1>2. Typed'
    BY <1>1, Zenon DEF TeamInv, Typed, Spawned, Created
  <1> QED
    BY <1>1, <1>2, Zenon DEF TeamInv, NamesTaken, LeasedToWorkers, AtWork, ToldOfTheEnd, Holds,
                             WaitsForSomebody, LooksFor, NobodyAfterShutdown, Spawned, Departed

\* The task that the store creates is the next one.
LEMMA NewTaskIs ==
    ASSUME TeamInv, NEW name \in Name \cup {NoName}, NewTask(name)
    PROVE  \E n \in Task : /\ tasks[n].status = "absent"
                           /\ tasks' = [tasks EXCEPT ![n] = Pending(name)]
                           /\ Created' = 1..n
  <1>1. tasks \in [Task -> TaskRecord]
    BY TypesOf, Zenon
  <1>2. PICK k \in 0..MaxTasks : Created = 1..k
    BY Zenon DEF TeamInv, Typed
  <1>3. Cardinality(Created) = k /\ k \in Nat
    BY <1>2, FS_Interval, BoundsAreNat
  <1>4. k < MaxTasks /\ tasks' = [tasks EXCEPT ![k + 1] = Pending(name)]
    BY <1>3, Zenon DEF NewTask
  <1>5. Pending(name).status = "pending"
    BY TaskFields, Zenon
  <1>6. k + 1 \in Task /\ k + 1 \notin 1..k
    BY <1>3, <1>4, BoundsAreNat DEF Task
  <1>7. tasks[k + 1].status = "absent"
    BY <1>2, <1>6, Zenon DEF Created
  <1>8. Created' = 1..(k + 1)
    <2>1. \A t \in Task : t \in Created' <=> t \in Created \/ t = k + 1
      BY <1>1, <1>4, <1>5, <1>6, Zenon DEF Created
    <2>2. Created' \subseteq Task /\ 1..(k + 1) \subseteq Task
      BY <1>3, <1>4, BoundsAreNat DEF Created, Task
    <2>3. \A t \in Task : t \in 1..(k + 1) <=> t \in 1..k \/ t = k + 1
      BY <1>3 DEF Task
    <2> QED
      BY <1>2, <2>1, <2>2, <2>3, Zenon
  <1> QED
    BY <1>4, <1>6, <1>7, <1>8, Zenon

\* A task created for a teammate waits for one of that name, or is late.
LEMMA NewTaskInv ==
    ASSUME TeamInv, NEW name \in Name \cup {NoName}, NewTask(name),
           mates' \in [Mate -> MateRecord],
           \A j \in Mate : /\ MateOK(mates'[j]) /\ SameSeat(j)
                           /\ mates'[j].work = mates[j].work /\ mates'[j].task = mates[j].task
                           /\ mates'[j].active = mates[j].active /\ mates'[j].cmd = mates[j].cmd,
           creating' \in Name \cup {NoName},
           UNCHANGED <<members, commands, shutdown, faults>>
    PROVE  TeamInv'
  <1> USE DEF TeamInv
  <1>1. PICK n \in Task : /\ tasks[n].status = "absent"
                         /\ tasks' = [tasks EXCEPT ![n] = Pending(name)]
                         /\ Created' = 1..n
    BY NewTaskIs, Zenon
  <1>2. /\ tasks \in [Task -> TaskRecord] /\ mates \in [Mate -> MateRecord]
        /\ Pending(name) \in TaskRecord /\ Pending(name).assignee = name
        /\ Pending(name).status = "pending"
        /\ Pending(name).late \/ name = NoName \/ WillLook(name)
    BY TypesOf, TaskFields, Zenon
  <1>3. tasks'[n] = Pending(name) /\ \A t \in Task \ {n} : tasks'[t] = tasks[t]
    BY <1>1, <1>2, Zenon
  <1>4. tasks' \in [Task -> TaskRecord]
    BY <1>1, <1>2, Zenon
  <1>5. \A j \in Mate : mates'[j].pc \in InTeam <=> mates[j].pc \in InTeam
    BY Zenon DEF SameSeat
  <1>6. \A j \in Mate : mates'[j].pc = "none" <=> mates[j].pc = "none"
    BY Zenon DEF SameSeat, InTeam
  <1>7. Typed'
    <2>1. Spawned' = Spawned
      BY <1>6, Zenon DEF Spawned
    <2>2. n \in 0..MaxTasks
      BY BoundsAreNat DEF Task
    <2> QED
      BY <1>1, <1>4, <2>1, <2>2, Zenon DEF Typed
  <1>8. NamesTaken'
    <2>1. \A m \in Name : members[m] # 0 => members[m] \in Mate
      BY TypesOf, SMTT(30) DEF Mate
    <2>2. \A m \in Name : members[m] # 0 =>
             mates'[members[m]].name = m /\ mates'[members[m]].pc \in InTeam
      BY <1>5, <2>1, SMTT(30) DEF NamesTaken, SameSeat
    <2>3. \A j \in Mate : mates'[j].pc \in InTeam => members[mates'[j].name] = j
      BY <1>5, Zenon DEF NamesTaken, SameSeat
    <2> QED
      BY <2>2, <2>3, Zenon DEF NamesTaken
  <1>9. LeasedToWorkers'
    <2> SUFFICES ASSUME NEW t \in Task, tasks'[t].status = "running"
                 PROVE  tasks'[t].owner # 0 /\ AtWork(tasks[t].owner, t)'
      BY Zenon DEF LeasedToWorkers
    <2>1. t # n /\ tasks'[t] = tasks[t]
      BY <1>2, <1>3, Zenon
    <2>2. tasks[t].owner # 0 /\ tasks[t].owner \in Mate /\ AtWork(tasks[t].owner, t)
      BY <1>2, <2>1, SMTT(30) DEF LeasedToWorkers, TaskRecord, Mate
    <2> QED
      BY <2>1, <2>2 DEF AtWork, SameSeat
  <1>10. ToldOfTheEnd'
    <2> SUFFICES ASSUME NEW j \in Mate, mates'[j].cmd.at = "tell"
                 PROVE  ~Holds(j, mates[j].cmd.task)'
      BY Zenon DEF ToldOfTheEnd
    <2>1. mates[j].cmd.at = "tell" /\ mates'[j].cmd.task = mates[j].cmd.task
      OBVIOUS
    <2>2. mates[j].cmd.task \in Task
      <3>1. mates[j] \in MateRecord /\ MateOK(mates[j])
        BY <1>2, Zenon
      <3> QED
        BY <2>1, <3>1, TellsOfATask, Zenon
    <2>3. ~Holds(j, mates[j].cmd.task)
      BY <2>1, Zenon DEF ToldOfTheEnd
    <2> QED
      BY <1>2, <1>3, <2>1, <2>2, <2>3, SMTT(30) DEF Holds
  <1>11. WaitsForSomebody'
    <2> SUFFICES ASSUME NEW t \in Task, tasks'[t].status = "pending",
                        tasks'[t].assignee # NoName, ~tasks'[t].late
                 PROVE  \E j \in Mate : mates'[j].name = tasks'[t].assignee /\ LooksFor(j, t)'
      BY Zenon DEF WaitsForSomebody
    <2>1. \A j \in Mate : LooksFor(j, t) => LooksFor(j, t)'
      BY Zenon DEF SameSeat, LooksFor, InTeam
    <2>2. CASE t = n
      <3>1. tasks'[t].assignee = name /\ WillLook(name)
        BY <1>2, <1>3, <2>2, Zenon
      <3>2. PICK j \in Mate : mates[j].name = name /\ LooksFor(j, t)
        BY <3>1, Zenon DEF LooksFor, WillLook
      <3> QED
        BY <2>1, <3>1, <3>2, Zenon DEF SameSeat
    <2>3. CASE t # n
      <3>1. \E j \in Mate : mates[j].name = tasks[t].assignee /\ LooksFor(j, t)
        BY <1>3, <2>3, Zenon DEF WaitsForSomebody
      <3> QED
        BY <1>3, <2>1, <2>3, <3>1, Zenon DEF SameSeat
    <2> QED
      BY <2>2, <2>3, Zenon
  <1>12. NobodyAfterShutdown'
    BY <1>6, Zenon DEF NobodyAfterShutdown, Spawned, Departed, SameSeat, InTeam
  <1> QED
    BY <1>7, <1>8, <1>9, <1>10, <1>11, <1>12, Zenon

\* createTeamTask stores the task.
LEMMA CreateTaskInv ==
    ASSUME TeamInv, CreateTask PROVE TeamInv'
  <1>1. /\ NewTask(creating) /\ creating' = NoName
        /\ UNCHANGED <<members, mates, commands, shutdown, faults>>
    BY Zenon DEF CreateTask
  <1>2. /\ creating \in Name \cup {NoName}
        /\ mates \in [Mate -> MateRecord] /\ \A i \in Mate : MateOK(mates[i])
    BY Zenon DEF TeamInv, Typed
  <1>3. \A j \in Mate : /\ MateOK(mates'[j]) /\ SameSeat(j)
                        /\ mates'[j].work = mates[j].work /\ mates'[j].task = mates[j].task
                        /\ mates'[j].active = mates[j].active /\ mates'[j].cmd = mates[j].cmd
    BY <1>1, <1>2, Zenon DEF SameSeat
  <1> QED
    BY <1>1, <1>2, <1>3, NewTaskInv, Zenon

-----------------------------------------------------------------------------
(* Joining and leaving. *)

\* A teammate that has nothing to do.
LEMMA NoMateFields ==
    /\ NoMate \in MateRecord /\ NoMate.work = "none" /\ NoMate.cmd.at = "none"
    /\ NoMate.todo = {} /\ NoMate.active.task = 0 /\ ~NoMate.requested
    /\ NoMate.state = "starting" /\ NoMate.pc = "none"
  <1> DEFINE a == [task |-> 0, ended |-> FALSE, settled |-> FALSE]
             c == [task |-> 0, at |-> "none"]
  <1>1. /\ a \in [task: 0..MaxTasks, ended: BOOLEAN, settled: BOOLEAN] /\ a.task = 0
        /\ c \in [task: 0..MaxTasks, at: {"none", "cancel", "retry", "tell", "ack", "nack"}]
        /\ c.at = "none"
    BY BoundsAreNat, Zenon
  <1>2. NoMate = [pc |-> "none", name |-> NoName, state |-> "starting", cancel |-> FALSE,
                  canceled |-> FALSE, requested |-> FALSE, early |-> FALSE, active |-> a,
                  work |-> "none", task |-> 0, cmd |-> c, todo |-> {}]
    BY Zenon DEF NoMate, NoActive
  <1> HIDE DEF a, c
  <1> QED
    BY <1>1, <1>2, BoundsAreNat, Zenon DEF MateRecord

\* Teammate i, without work, moves on outside the team.  Its name is free, and
\* it may take its name off tasks that it has found.
LEMMA OutsideInv ==
    ASSUME TeamInv, NEW i \in Mate, NEW m \in MateRecord, MateOK(m),
           mates' = [mates EXCEPT ![i] = m], m.name = mates[i].name,
           mates[i].work = "none", mates[i].pc \notin {"none", "gone", "cut", "failed"},
           m.cmd.at = "none", m.pc # "none", m.pc \notin InTeam,
           members' = IF mates[i].pc \in InTeam THEN [members EXCEPT ![mates[i].name] = 0]
                      ELSE members,
           tasks' \in [Task -> TaskRecord],
           \A t \in Task : /\ tasks'[t].status = tasks[t].status
                           /\ tasks'[t].owner = tasks[t].owner
                           /\ tasks'[t].late = tasks[t].late
                           /\ tasks'[t].assignee \in {tasks[t].assignee, NoName},
           \A t \in Task : tasks[t].status = "pending" /\ tasks'[t].assignee = mates[i].name
                              /\ LooksFor(i, t) => LooksFor(i, t)',
           UNCHANGED <<commands, creating, shutdown, faults>>
    PROVE  TeamInv'
  <1> USE DEF TeamInv
  <1>1. /\ mates \in [Mate -> MateRecord] /\ tasks \in [Task -> TaskRecord]
        /\ members \in [Name -> 0..MaxSpawns]
    BY TypesOf, Zenon
  <1>2. mates'[i] = m /\ \A j \in Mate \ {i} : mates'[j] = mates[j]
    BY <1>1, Zenon
  <1>3. mates' \in [Mate -> MateRecord] /\ \A j \in Mate : MateOK(mates'[j])
    BY <1>1, <1>2, Zenon
  <1>4. \A j \in Mate : mates'[j].name = mates[j].name
    BY <1>2, Zenon
  <1>5. \A j \in Mate : mates'[j].pc = "none" <=> mates[j].pc = "none"
    BY <1>2, Zenon
  <1>6. Typed'
    <2>1. Spawned' = Spawned /\ Created' = Created
      BY <1>5, Zenon DEF Spawned, Created
    <2>2. members' \in [Name -> 0..MaxSpawns]
      BY <1>1, BoundsAreNat, Zenon
    <2> QED
      BY <1>3, <2>1, <2>2, Zenon DEF Typed
  <1>7. NamesTaken'
    <2>1. mates[i].name \in Name
      BY Zenon DEF MateOK
    <2>2. ASSUME NEW n \in Name, members'[n] # 0
          PROVE  mates'[members'[n]].name = n /\ mates'[members'[n]].pc \in InTeam
      <3>1. members'[n] = members[n]
        BY <1>1, <2>1, <2>2, Zenon
      <3>2. members[n] \in Mate /\ mates[members[n]].name = n /\ mates[members[n]].pc \in InTeam
        BY <2>2, <3>1, MemberIn, Zenon
      <3>3. members[n] # i
        BY <1>1, <2>1, <2>2, <3>2, Zenon
      <3> QED
        BY <1>2, <3>1, <3>2, <3>3, Zenon
    <2>3. ASSUME NEW j \in Mate, mates'[j].pc \in InTeam PROVE members'[mates'[j].name] = j
      <3>1. j # i /\ mates'[j] = mates[j] /\ members[mates[j].name] = j
        BY <1>2, <2>3, Zenon DEF NamesTaken
      <3>2. mates[i].pc \in InTeam => members[mates[i].name] = i
        BY Zenon DEF NamesTaken
      <3>3. mates[j].name \in Name
        <4>1. MateOK(mates[j]) /\ mates[j].pc \in InTeam
          BY <2>3, <3>1, Zenon
        <4> QED
          BY <4>1, Zenon DEF MateOK, InTeam
      <3> QED
        BY <1>1, <3>1, <3>2, <3>3, Zenon
    <2> QED
      BY <2>2, <2>3, Zenon DEF NamesTaken
  <1>8. LeasedToWorkers'
    <2> SUFFICES ASSUME NEW t \in Task, tasks[t].status = "running"
                 PROVE  tasks[t].owner # 0 /\ AtWork(tasks[t].owner, t)'
      BY Zenon DEF LeasedToWorkers
    <2>1. tasks[t].owner # 0 /\ tasks[t].owner \in Mate /\ AtWork(tasks[t].owner, t)
      BY <1>1, SMTT(30) DEF LeasedToWorkers, TaskRecord, Mate
    <2>2. tasks[t].owner # i /\ tasks'[t].assignee \in {tasks[t].assignee, NoName}
      BY <2>1, Zenon DEF AtWork
    <2>3. mates'[tasks[t].owner] = mates[tasks[t].owner]
      BY <1>2, <2>1, <2>2, Zenon
    <2>4. tasks'[t].owner = tasks[t].owner
      OBVIOUS
    <2> QED
      BY <2>1, <2>2, <2>3, <2>4, Zenon DEF AtWork
  <1>9. ToldOfTheEnd'
    <2> SUFFICES ASSUME NEW j \in Mate, mates'[j].cmd.at = "tell"
                 PROVE  ~Holds(j, mates[j].cmd.task)'
      BY Zenon DEF ToldOfTheEnd
    <2>1. mates'[j] = mates[j]
      BY <1>2, Zenon
    <2>2. mates[j].cmd.task \in Task
      <3>1. mates[j] \in MateRecord /\ MateOK(mates[j])
        BY <1>1, Zenon
      <3> QED
        BY <2>1, <3>1, TellsOfATask, Zenon
    <2>3. ~Holds(j, mates[j].cmd.task)
      BY <2>1, Zenon DEF ToldOfTheEnd
    <2>4. mates'[j].cmd.task = mates[j].cmd.task
      BY <2>1, Zenon
    <2> QED
      BY <2>2, <2>3, <2>4, Zenon DEF Holds
  <1>11. WaitsForSomebody'
    <2> SUFFICES ASSUME NEW t \in Task, tasks'[t].status = "pending",
                        tasks'[t].assignee # NoName, ~tasks'[t].late
                 PROVE  \E j \in Mate : mates'[j].name = tasks'[t].assignee /\ LooksFor(j, t)'
      BY Zenon DEF WaitsForSomebody
    <2>1. tasks[t].status = "pending" /\ tasks'[t].assignee = tasks[t].assignee /\ ~tasks[t].late
      OBVIOUS
    <2>2. PICK j \in Mate : mates[j].name = tasks[t].assignee /\ LooksFor(j, t)
      BY <2>1, Zenon DEF WaitsForSomebody
    <2>3. LooksFor(j, t)'
      <3>1. CASE j = i
        BY <2>1, <2>2, <3>1, Zenon
      <3>2. CASE j # i
        BY <1>2, <2>2, <3>2, Zenon DEF LooksFor
      <3> QED
        BY <3>1, <3>2, Zenon
    <2> QED
      BY <1>4, <2>1, <2>2, <2>3, Zenon
  <1>12. NobodyAfterShutdown'
    BY Zenon DEF NobodyAfterShutdown, Spawned, Departed
  <1> QED
    BY <1>3, <1>6, <1>7, <1>8, <1>9, <1>11, <1>12, Zenon

\* A teammate that joins or departs.
Blank(b, n) == [NoMate EXCEPT !.pc = b, !.name = n]

\* It has nothing to do.
LEMMA BlankFields ==
    ASSUME NEW b \in {"spawning", "gone", "cut", "failed"}, NEW n \in Name
    PROVE  /\ Blank(b, n) \in MateRecord /\ MateOK(Blank(b, n))
           /\ Blank(b, n).pc = b /\ Blank(b, n).name = n /\ Blank(b, n).work = "none"
           /\ Blank(b, n).cmd.at = "none"
  <1> DEFINE m == Blank(b, n)
  <1>1. /\ m \in MateRecord
        /\ m.pc = b /\ m.name = n /\ m.work = "none" /\ m.cmd.at = "none"
        /\ m.active.task = 0 /\ m.state = "starting" /\ ~m.requested
    BY NoMateFields, ZenonT(40) DEF Blank, MateRecord
  <1>2. MateOK(m)
    BY <1>1, Zenon DEF MateOK
  <1> QED
    BY <1>1, <1>2, Zenon

\* The initial task is created, or the teammate is dropped.
LEMMA CreateInitialTaskInv ==
    ASSUME TeamInv, NEW i \in Mate, CreateInitialTask(i) PROVE TeamInv'
  <1>1. /\ mates[i].pc = "spawning" /\ UNCHANGED <<commands, creating, shutdown, faults>>
        /\ mates[i] \in MateRecord /\ MateOK(mates[i])
        /\ tasks \in [Task -> TaskRecord]
    BY TypesOf, Zenon DEF CreateInitialTask, At
  <1>2. mates[i].name \in Name /\ mates[i].work = "none" /\ mates[i].cmd.at = "none"
    BY <1>1, Zenon DEF MateOK
  <1>3. CASE NewTask(mates[i].name) /\ Goto(i, "created") /\ UNCHANGED members
    <2> DEFINE m == [mates[i] EXCEPT !.pc = "created"]
    <2>1. mates' = [mates EXCEPT ![i] = m]
      BY <1>3, Zenon DEF Goto, Set
    <2>2. /\ m \in MateRecord /\ m.pc = "created" /\ m.name = mates[i].name
          /\ m.todo = mates[i].todo /\ m.work = mates[i].work /\ m.task = mates[i].task
          /\ m.active = mates[i].active /\ m.cmd = mates[i].cmd
          /\ m.state = mates[i].state /\ m.requested = mates[i].requested
          /\ SameContext(mates[i], m)
      BY <1>1, Zenon DEF MateRecord, SameContext
    <2> HIDE DEF m
    <2>3. MateOK(m)
      BY <1>1, <1>2, <2>2, Zenon DEF MateOK, SameContext
    <2>4. {mates[i].pc, m.pc} \subseteq InTeam
      BY <1>1, <2>2, Zenon DEF InTeam
    <2>5. mates'[i] = m /\ \A j \in Mate \ {i} : mates'[j] = mates[j]
      BY <2>1, TypesOf, Zenon
    <2>6. mates' \in [Mate -> MateRecord]
      BY <2>1, <2>2, TypesOf, Zenon
    <2>7. \A j \in Mate : /\ MateOK(mates'[j]) /\ SameSeat(j)
                          /\ mates'[j].work = mates[j].work /\ mates'[j].task = mates[j].task
                          /\ mates'[j].active = mates[j].active /\ mates'[j].cmd = mates[j].cmd
      <3> SUFFICES ASSUME NEW j \in Mate
                   PROVE  /\ MateOK(mates'[j]) /\ SameSeat(j)
                          /\ mates'[j].work = mates[j].work /\ mates'[j].task = mates[j].task
                          /\ mates'[j].active = mates[j].active /\ mates'[j].cmd = mates[j].cmd
        OBVIOUS
      <3>1. CASE j = i
        BY <2>2, <2>3, <2>4, <2>5, <3>1, Zenon DEF SameSeat
      <3>2. CASE j # i
        <4>1. mates'[j] = mates[j]
          BY <2>5, <3>2, Zenon
        <4> QED
          BY <4>1, TypesOf, Zenon DEF SameSeat
      <3> QED
        BY <3>1, <3>2, Zenon
    <2>8. creating' \in Name \cup {NoName}
      BY <1>1, Zenon DEF TeamInv, Typed
    <2> QED
      BY <1>1, <1>2, <1>3, <2>6, <2>7, <2>8, NewTaskInv, Zenon
  <1>4. CASE /\ members' = [members EXCEPT ![mates[i].name] = 0]
             /\ Depart(i, "failed") /\ UNCHANGED tasks
    <2> DEFINE m == Blank("failed", mates[i].name)
    <2>1. mates' = [mates EXCEPT ![i] = m]
      BY <1>4, Zenon DEF Depart, Set, Blank
    <2>2. /\ m \in MateRecord /\ MateOK(m) /\ m.pc = "failed" /\ m.name = mates[i].name
          /\ m.work = "none" /\ m.cmd.at = "none"
      BY <1>2, BlankFields, Zenon
    <2> HIDE DEF m
    <2>3. mates[i].pc \in InTeam /\ m.pc \notin InTeam /\ m.pc # "none"
          /\ mates[i].pc \notin {"none", "gone", "cut", "failed"}
      BY <1>1, <2>2, Zenon DEF InTeam
    <2>4. \A t \in Task : LooksFor(i, t)'
      BY <2>1, <2>2, TypesOf, Zenon DEF LooksFor
    <2>5. /\ tasks' \in [Task -> TaskRecord]
          /\ \A t \in Task : /\ tasks'[t].status = tasks[t].status
                             /\ tasks'[t].owner = tasks[t].owner
                             /\ tasks'[t].late = tasks[t].late
                             /\ tasks'[t].assignee \in {tasks[t].assignee, NoName}
      BY <1>1, <1>4, Zenon
    <2> QED
      BY <1>1, <1>2, <1>4, <2>1, <2>2, <2>3, <2>4, <2>5, OutsideInv, Zenon
  <1> QED
    BY <1>3, <1>4, Zenon DEF CreateInitialTask

\* removeTeammate.
LEMMA StopInv ==
    ASSUME TeamInv, NEW i \in Mate, Stop(i) PROVE TeamInv'
  <1> DEFINE m == [NoMate EXCEPT !.pc = "removed", !.name = mates[i].name, !.state = "stopped"]
  <1>1. /\ mates[i].pc = "drain" /\ mates[i].work = "none"
        /\ members' = [members EXCEPT ![mates[i].name] = 0]
        /\ mates' = [mates EXCEPT ![i] = m]
        /\ UNCHANGED <<tasks, commands, creating, shutdown, faults>>
        /\ mates[i] \in MateRecord /\ MateOK(mates[i])
        /\ tasks \in [Task -> TaskRecord]
    BY TypesOf, Zenon DEF Stop, At, Set
  <1>2. mates[i].name \in Name
    BY <1>1, Zenon DEF MateOK
  <1>3. /\ m \in MateRecord /\ MateOK(m) /\ m.pc = "removed" /\ m.name = mates[i].name
        /\ m.work = "none" /\ m.cmd.at = "none"
    <2>1. /\ m \in MateRecord /\ m.pc = "removed" /\ m.name = mates[i].name
          /\ m.work = "none" /\ m.cmd.at = "none"
          /\ m.active.task = 0 /\ m.state = "stopped" /\ ~m.requested
      BY <1>2, NoMateFields, Zenon DEF MateRecord
    <2> HIDE DEF m
    <2> QED
      BY <1>2, <2>1, Zenon DEF MateOK
  <1> HIDE DEF m
  <1>4. mates[i].pc \in InTeam /\ m.pc \notin InTeam /\ m.pc # "none"
        /\ mates[i].pc \notin {"none", "gone", "cut", "failed"}
    BY <1>1, <1>3, Zenon DEF InTeam
  <1>5. \A t \in Task : LooksFor(i, t)'
    BY <1>1, <1>3, TypesOf, Zenon DEF LooksFor
  <1>6. /\ tasks' \in [Task -> TaskRecord]
        /\ \A t \in Task : /\ tasks'[t].status = tasks[t].status
                           /\ tasks'[t].owner = tasks[t].owner
                           /\ tasks'[t].late = tasks[t].late
                           /\ tasks'[t].assignee \in {tasks[t].assignee, NoName}
    BY <1>1, Zenon
  <1> QED
    BY <1>1, <1>2, <1>3, <1>4, <1>5, <1>6, OutsideInv, Zenon

\* releaseAssignedTasks finds the tasks that wait for the teammate.
LEMMA ListAssignedInv ==
    ASSUME TeamInv, NEW i \in Mate, ListAssigned(i) PROVE TeamInv'
  <1> DEFINE todo == {t \in Task : tasks[t].status = "pending" /\ tasks[t].assignee = mates[i].name}
             m == [mates[i] EXCEPT !.pc = "releasing", !.todo = todo]
  <1>1. /\ mates[i].pc = "removed" /\ mates' = [mates EXCEPT ![i] = m]
        /\ UNCHANGED <<members, tasks, commands, creating, shutdown, faults>>
        /\ mates[i] \in MateRecord /\ MateOK(mates[i])
        /\ tasks \in [Task -> TaskRecord]
    BY TypesOf, Zenon DEF ListAssigned, At, Set
  <1>2. mates[i].name \in Name /\ mates[i].work = "none" /\ mates[i].cmd.at = "none"
    BY <1>1, Zenon DEF MateOK
  <1>3. todo \subseteq Task
        /\ \A t \in Task : tasks[t].status = "pending" /\ tasks[t].assignee = mates[i].name => t \in todo
    OBVIOUS
  <1> HIDE DEF todo
  <1>4. /\ m \in MateRecord /\ m.pc = "releasing" /\ m.name = mates[i].name
        /\ m.todo = todo /\ m.work = mates[i].work /\ m.task = mates[i].task
        /\ m.active = mates[i].active /\ m.cmd = mates[i].cmd
        /\ m.state = mates[i].state /\ m.requested = mates[i].requested
        /\ SameContext(mates[i], m)
    BY <1>1, <1>3, Zenon DEF MateRecord, SameContext
  <1> HIDE DEF m
  <1>5. MateOK(m)
    BY <1>1, <1>2, <1>4, Zenon DEF MateOK, SameContext
  <1>6. mates[i].pc \notin InTeam /\ m.pc \notin InTeam /\ m.pc # "none"
        /\ mates[i].pc \notin {"none", "gone", "cut", "failed"}
    BY <1>1, <1>4, Zenon DEF InTeam
  <1>7. \A t \in Task : tasks[t].status = "pending" /\ tasks'[t].assignee = mates[i].name
                           => LooksFor(i, t)'
    <2>1. mates'[i] = m /\ tasks' = tasks
      BY <1>1, TypesOf, Zenon
    <2> QED
      BY <1>3, <1>4, <2>1, Zenon DEF LooksFor
  <1>8. /\ tasks' \in [Task -> TaskRecord]
        /\ \A t \in Task : /\ tasks'[t].status = tasks[t].status
                           /\ tasks'[t].owner = tasks[t].owner
                           /\ tasks'[t].late = tasks[t].late
                           /\ tasks'[t].assignee \in {tasks[t].assignee, NoName}
    BY <1>1, Zenon
  <1> QED
    BY <1>1, <1>2, <1>4, <1>5, <1>6, <1>7, <1>8, OutsideInv, Zenon

\* It takes its name off the next task it found, or it is done.
LEMMA ReleaseAssignedInv ==
    ASSUME TeamInv, NEW i \in Mate, ReleaseAssigned(i) PROVE TeamInv'
  <1> DEFINE todo == mates[i].todo
             x == Min(todo)
  <1>1. /\ mates[i].pc = "releasing" /\ UNCHANGED <<members, commands, creating, shutdown, faults>>
        /\ mates[i] \in MateRecord /\ MateOK(mates[i]) /\ todo \subseteq Task
        /\ tasks \in [Task -> TaskRecord]
    BY TypesOf, Zenon DEF ReleaseAssigned, At, MateRecord
  <1>2. mates[i].name \in Name /\ mates[i].work = "none" /\ mates[i].cmd.at = "none"
    BY <1>1, Zenon DEF MateOK
  <1>3. mates[i].pc \notin InTeam /\ mates[i].pc \notin {"none", "gone", "cut", "failed"}
    BY <1>1, Zenon DEF InTeam
  <1>4. ASSUME NEW b \in {"gone", "cut"}, Depart(i, b), UNCHANGED tasks, b = "gone" => todo = {}
        PROVE  TeamInv'
    <2> DEFINE m == Blank(b, mates[i].name)
    <2>1. mates' = [mates EXCEPT ![i] = m]
      BY <1>4, Zenon DEF Depart, Set, Blank
    <2>2. /\ m \in MateRecord /\ MateOK(m) /\ m.pc = b /\ m.name = mates[i].name
          /\ m.work = "none" /\ m.cmd.at = "none"
      <3>1. b \in {"spawning", "gone", "cut", "failed"}
        OBVIOUS
      <3> QED
        BY <1>2, <3>1, BlankFields
    <2> HIDE DEF m
    <2>3. m.pc \notin InTeam /\ m.pc # "none"
      BY <2>2, Zenon DEF InTeam
    <2>4. \A t \in Task : LooksFor(i, t) => LooksFor(i, t)'
      <3>1. mates'[i] = m
        BY <2>1, TypesOf, Zenon
      <3> QED
        BY <1>1, <1>4, <2>2, <3>1, Zenon DEF LooksFor
    <2>5. /\ tasks' \in [Task -> TaskRecord]
          /\ \A t \in Task : /\ tasks'[t].status = tasks[t].status
                             /\ tasks'[t].owner = tasks[t].owner
                             /\ tasks'[t].late = tasks[t].late
                             /\ tasks'[t].assignee \in {tasks[t].assignee, NoName}
      BY <1>1, <1>4, Zenon
    <2> QED
      BY <1>1, <1>2, <1>3, <2>1, <2>2, <2>3, <2>4, <2>5, OutsideInv, Zenon
  <1>5. CASE /\ todo # {} /\ tasks' = [tasks EXCEPT ![x].assignee = NoName]
             /\ Set(i, [mates[i] EXCEPT !.todo = @ \ {x}])
    <2> DEFINE rest == todo \ {x}
               m == [mates[i] EXCEPT !.todo = rest]
    <2>1. mates' = [mates EXCEPT ![i] = m]
      BY <1>5, Zenon DEF Set
    <2>2. rest \subseteq Task
      BY <1>1, Zenon
    <2>3. tasks' = [tasks EXCEPT ![x].assignee = NoName]
      BY <1>5, Zenon
    <2> HIDE DEF x
    <2>4. /\ tasks' \in [Task -> TaskRecord]
          /\ x \in Task => tasks'[x].assignee = NoName
          /\ \A t \in Task : /\ tasks'[t].status = tasks[t].status
                             /\ tasks'[t].owner = tasks[t].owner
                             /\ tasks'[t].late = tasks[t].late
                             /\ tasks'[t].assignee \in {tasks[t].assignee, NoName}
      BY <1>1, <2>3, ZenonT(40) DEF TaskRecord
    <2>5. \A t \in Task : t \in todo => t \in rest \/ t = x
      OBVIOUS
    <2> HIDE DEF rest
    <2>6. /\ m \in MateRecord /\ m.pc = mates[i].pc /\ m.name = mates[i].name
          /\ m.todo = rest /\ m.work = mates[i].work /\ m.task = mates[i].task
          /\ m.active = mates[i].active /\ m.cmd = mates[i].cmd
          /\ m.state = mates[i].state /\ m.requested = mates[i].requested
          /\ SameContext(mates[i], m)
      BY <1>1, <2>2, Zenon DEF MateRecord, SameContext
    <2> HIDE DEF m
    <2>7. MateOK(m)
      BY <1>1, <2>6, Zenon DEF MateOK, SameContext
    <2>8. \A t \in Task : tasks'[t].assignee = mates[i].name /\ LooksFor(i, t) => LooksFor(i, t)'
      <3>1. mates'[i] = m
        BY <2>1, TypesOf, Zenon
      <3>2. mates[i].name # NoName
        BY <1>2, TeamConstants, Zenon
      <3> QED
        BY <1>1, <2>4, <2>5, <2>6, <3>1, <3>2, Zenon DEF LooksFor
    <2>9. m.pc \notin InTeam /\ m.pc # "none"
      BY <1>1, <1>3, <2>6, Zenon
    <2> QED
      BY <1>1, <1>2, <1>3, <2>1, <2>4, <2>6, <2>7, <2>8, <2>9, OutsideInv, Zenon
  <1> QED
    BY <1>4, <1>5, Zenon DEF ReleaseAssigned

\* SpawnTeammate takes a free name while the team is open.
LEMMA RegisterInv ==
    ASSUME TeamInv, NEW n \in Name, Register(n) PROVE TeamInv'
  <1> USE DEF TeamInv
  <1> DEFINE m == Blank("spawning", n)
  <1>1. PICK i \in Mate : /\ Cardinality(Spawned) = i - 1
                          /\ mates' = [mates EXCEPT ![i] = m]
                          /\ members' = [members EXCEPT ![n] = i]
    BY Zenon DEF Register, RegisterAlways, Set, Blank
  <1>2. /\ members[n] = 0 /\ shutdown.at = "none"
        /\ UNCHANGED <<tasks, commands, creating, shutdown, faults>>
    BY Zenon DEF Register, RegisterAlways, Closing
  <1>3. /\ m \in MateRecord /\ MateOK(m) /\ m.pc = "spawning" /\ m.name = n
        /\ m.work = "none" /\ m.cmd.at = "none"
    BY BlankFields
  <1> HIDE DEF m
  <1>4. /\ mates \in [Mate -> MateRecord] /\ members \in [Name -> 0..MaxSpawns]
        /\ tasks \in [Task -> TaskRecord] /\ i # 0
    BY TypesOf DEF Mate
  <1>5. mates'[i] = m /\ \A j \in Mate \ {i} : mates'[j] = mates[j]
    BY <1>1, <1>4, Zenon
  <1>6. mates' \in [Mate -> MateRecord] /\ \A j \in Mate : MateOK(mates'[j])
    BY <1>1, <1>3, <1>4, <1>5, Zenon
  <1>7. PICK k \in 0..MaxSpawns : Spawned = 1..k
    BY Zenon DEF Typed
  <1>8. i = k + 1 /\ k \in Nat
    <2>1. Cardinality(1..k) = k
      BY <1>7, FS_Interval, BoundsAreNat
    <2> QED
      BY <1>1, <1>7, <2>1 DEF Mate
  <1>9. mates[i].pc = "none"
    BY <1>7, <1>8 DEF Spawned
  <1>10. Typed'
    <2>1. \A j \in Mate : j \in Spawned' <=> j \in Spawned \/ j = i
      BY <1>3, <1>5, <1>9, Zenon DEF Spawned
    <2>2. Spawned' \subseteq Mate /\ 1..i \subseteq Mate /\ i \in 0..MaxSpawns
      BY BoundsAreNat DEF Spawned, Mate
    <2>3. \A j \in Mate : j \in 1..i <=> j \in 1..k \/ j = i
      BY <1>8 DEF Mate
    <2>4. Spawned' = 1..i
      BY <1>7, <2>1, <2>2, <2>3, Zenon
    <2>5. members' \in [Name -> 0..MaxSpawns] /\ Created' = Created
      BY <1>1, <1>2, <1>4, <2>2, Zenon DEF Created
    <2> QED
      BY <1>2, <1>6, <2>2, <2>4, <2>5, Zenon DEF Typed
  <1>11. NamesTaken'
    <2>1. ASSUME NEW a \in Name, members'[a] # 0
          PROVE  mates'[members'[a]].name = a /\ mates'[members'[a]].pc \in InTeam
      <3>1. CASE a = n
        BY <1>1, <1>3, <1>4, <1>5, <3>1, Zenon DEF InTeam
      <3>2. CASE a # n
        <4>1. members'[a] = members[a]
          BY <1>1, <1>4, <3>2, Zenon
        <4>2. members[a] \in Mate /\ mates[members[a]].name = a /\ mates[members[a]].pc \in InTeam
          BY <2>1, <4>1, MemberIn, Zenon
        <4>3. members[a] # i
          BY <1>9, <4>2, Zenon DEF InTeam
        <4> QED
          BY <1>5, <4>1, <4>2, <4>3, Zenon
      <3> QED
        BY <3>1, <3>2, Zenon
    <2>2. ASSUME NEW j \in Mate, mates'[j].pc \in InTeam PROVE members'[mates'[j].name] = j
      <3>1. CASE j = i
        BY <1>1, <1>3, <1>4, <1>5, <3>1, Zenon
      <3>2. CASE j # i
        <4>1. mates'[j] = mates[j] /\ members[mates[j].name] = j /\ j # 0
          BY <1>5, <2>2, <3>2 DEF NamesTaken, Mate
        <4>2. mates[j].name # n
          BY <1>2, <4>1, Zenon
        <4>3. mates[j].name \in Name
          BY <2>2, <4>1, Zenon DEF MateOK, InTeam
        <4> QED
          BY <1>1, <1>4, <4>1, <4>2, <4>3, Zenon
      <3> QED
        BY <3>1, <3>2, Zenon
    <2> QED
      BY <2>1, <2>2, Zenon DEF NamesTaken
  <1>12. LeasedToWorkers'
    <2> SUFFICES ASSUME NEW t \in Task, tasks[t].status = "running"
                 PROVE  tasks[t].owner # 0 /\ AtWork(tasks[t].owner, t)'
      BY <1>2, Zenon DEF LeasedToWorkers
    <2>1. tasks[t].owner # 0 /\ tasks[t].owner \in Mate /\ AtWork(tasks[t].owner, t)
      BY <1>4 DEF LeasedToWorkers, TaskRecord, Mate
    <2>2. tasks[t].owner # i
      BY <1>9, <2>1, Zenon DEF AtWork, MateOK
    <2>3. mates'[tasks[t].owner] = mates[tasks[t].owner]
      BY <1>5, <2>1, <2>2, Zenon
    <2> QED
      BY <1>2, <2>1, <2>3, Zenon DEF AtWork
  <1>13. ToldOfTheEnd'
    BY <1>2, <1>3, <1>5, Zenon DEF ToldOfTheEnd, Holds
  <1>15. WaitsForSomebody'
    <2>1. \A j \in Mate, t \in Task : LooksFor(j, t) =>
             LooksFor(j, t)' /\ mates'[j].name = mates[j].name
      BY <1>5, <1>9, Zenon DEF LooksFor
    <2> QED
      BY <1>2, <2>1, Zenon DEF WaitsForSomebody
  <1>16. NobodyAfterShutdown'
    BY <1>2, Zenon DEF NobodyAfterShutdown
  <1> QED
    BY <1>6, <1>10, <1>11, <1>12, <1>13, <1>15, <1>16, Zenon

-----------------------------------------------------------------------------
(* The team. *)

\* The invariant holds at first.
LEMMA TeamInitInv == TeamInit => TeamInv
  <1> SUFFICES ASSUME TeamInit PROVE TeamInv
    OBVIOUS
  <1>1. /\ mates = [i \in Mate |-> NoMate] /\ tasks = [t \in Task |-> NoTask]
        /\ members = [n \in Name |-> 0] /\ commands = [t \in Task |-> "none"]
        /\ creating = NoName /\ shutdown = [at |-> "none", ask |-> {}] /\ faults = 0
    BY Zenon DEF TeamInit
  <1>2. NoTask \in TaskRecord /\ NoTask.status = "absent"
    BY BoundsAreNat, Zenon DEF NoTask, TaskRecord
  <1>3. Spawned = {} /\ Created = {}
    BY <1>1, <1>2, NoMateFields, Zenon DEF Spawned, Created
  <1>4. 1..0 = {}
    OBVIOUS
  <1>5. creating \in Name \cup {NoName}
    BY <1>1, Zenon
  <1>6. Typed
    <2>1. mates \in [Mate -> MateRecord] /\ tasks \in [Task -> TaskRecord]
      BY <1>1, <1>2, NoMateFields, Zenon
    <2>2. /\ members \in [Name -> 0..MaxSpawns] /\ faults \in Nat
          /\ commands \in [Task -> {"none", "cancel", "retry", "claimed"}]
          /\ shutdown \in [at: {"none", "asking", "waiting", "done", "expired"}, ask: SUBSET Mate]
      BY <1>1, BoundsAreNat, Zenon
    <2> QED
      BY <1>3, <1>4, <1>5, <2>1, <2>2, BoundsAreNat, Zenon DEF Typed
  <1>7. MateOK(NoMate)
    BY NoMateFields, Zenon DEF MateOK
  <1>8. \A i \in Mate : mates[i] = NoMate
    BY <1>1, Zenon
  <1>9. \A t \in Task : tasks[t].status = "absent"
    BY <1>1, <1>2, Zenon
  <1> QED
    BY <1>1, <1>5, <1>6, <1>7, <1>8, <1>9, NoMateFields, Zenon
       DEF TeamInv, NamesTaken, InTeam, LeasedToWorkers, ToldOfTheEnd,
           WaitsForSomebody, NobodyAfterShutdown

\* Every step preserves it.
LEMMA TeamNextInv == TeamInv /\ [TeamNext]_teamVars => TeamInv'
  <1> SUFFICES ASSUME TeamInv, [TeamNext]_teamVars PROVE TeamInv'
    OBVIOUS
  <1>1. CASE UNCHANGED teamVars
    BY <1>1, StillInv, TypesOf, Zenon DEF teamVars
  <1>2. ASSUME NEW i \in Mate, Spawning(i) PROVE TeamInv'
    BY <1>2, CreateInitialTaskInv, ContextInv, Zenon DEF Spawning
  <1>3. ASSUME NEW i \in Mate, Commanding(i) PROVE TeamInv'
    BY <1>3, ClaimCommandInv, ApplyCancelInv, TellCanceledInv, RetryTaskInv, FinishCommandInv, Zenon
       DEF Commanding
  <1>4. ASSUME NEW i \in Mate, Running(i) PROVE TeamInv'
    BY <1>4, BeginRunInv, FailCurrentInv, EndRunInv, SettleInv, MarkTaskSettledInv, Zenon DEF Running
  <1>5. ASSUME NEW i \in Mate, Leaving(i) PROVE TeamInv'
    BY <1>5, StopInv, ListAssignedInv, ReleaseAssignedInv, Zenon DEF Leaving
  <1>6. ASSUME NEW i \in Mate,
               Leave(i) \/ CancelContext(i) \/ \E t \in Task : ClaimReadyTask(i, t)
        PROVE  TeamInv'
    BY <1>6, ContextInv, ClaimReadyTaskInv, Zenon
  <1>7. ASSUME NEW n \in Name, Register(n) \/ LookUpAssignee(n) \/ RequestShutdown(n)
        PROVE  TeamInv'
    BY <1>7, RegisterInv, LookUpAssigneeInv, RequestShutdownInv, Zenon
  <1>8. ASSUME NEW t \in Task, DeleteTask(t) \/ SendCommand(t) \/ ExpireLease(t)
        PROVE  TeamInv'
    BY <1>8, StoreUserInv, Zenon
  <1>9. CASE CreateTask
    BY <1>9, CreateTaskInv, Zenon
  <1>10. CASE BeginShutdown \/ AskMember \/ AllStopped \/ ShutdownExpires
    BY <1>10, ShutdownInv, Zenon
  <1> QED
    BY <1>1, <1>2, <1>3, <1>4, <1>5, <1>6, <1>7, <1>8, <1>9, <1>10, Zenon DEF TeamNext

\* The names, the leases, the shutdown and the waiting tasks agree with the
\* teammates in every reachable state of a team.
THEOREM TeamIsConsistent == TeamSpec => []TeamInv
  BY TeamInitInv, TeamNextInv, PTL DEF TeamSpec

\* A teammate shown as idle runs nothing and holds no lease but one it has
\* just claimed (markTaskProgress).
THEOREM IdleTeammatesAreFree == TeamSpec => []IdleIsFree
  <1>1. TeamInv => IdleIsFree
    <2> SUFFICES ASSUME TeamInv, NEW i \in Mate, mates[i].state = "idle"
                 PROVE  /\ mates[i].work # "executing"
                        /\ \A t \in Task : Holds(i, t) =>
                              mates[i].work = "claimed" /\ mates[i].task = t
      BY Zenon DEF IdleIsFree
    <2>1. MateOK(mates[i])
      BY TypesOf, Zenon
    <2>2. mates[i].work # "executing" /\ mates[i].active.task = 0
      BY <2>1, Zenon DEF MateOK
    <2>3. ASSUME NEW t \in Task, Holds(i, t)
          PROVE  mates[i].work = "claimed" /\ mates[i].task = t
      <3>1. AtWork(i, t) /\ t # 0
        BY <2>3, TypesOf DEF Task
      <3> QED
        BY <2>2, <3>1, Zenon DEF AtWork
    <2> QED
      BY <2>2, <2>3, Zenon
  <1> QED
    BY <1>1, TeamIsConsistent, PTL

\* When Team.Shutdown returns without error no goroutine, name or lease is left.
THEOREM ShutdownIsComplete == TeamSpec => []ShutdownLeavesNobody
  <1>1. TeamInv => ShutdownLeavesNobody
    <2> SUFFICES ASSUME TeamInv, shutdown.at = "done"
                 PROVE  /\ \A i \in Spawned : Departed(i)
                        /\ \A n \in Name : members[n] = 0
                        /\ \A t \in Task : tasks[t].status # "running"
      BY Zenon DEF ShutdownLeavesNobody
    <2>1. \A i \in Mate : mates[i].pc \in {"none", "gone", "cut", "failed"}
      BY Zenon DEF TeamInv, NobodyAfterShutdown, Spawned, Departed
    <2>2. \A n \in Name : members[n] = 0
      <3> SUFFICES ASSUME NEW n \in Name, members[n] # 0 PROVE FALSE
        OBVIOUS
      <3> QED
        BY <2>1, MemberIn, Zenon DEF InTeam
    <2>3. \A t \in Task : tasks[t].status # "running"
      <3> SUFFICES ASSUME NEW t \in Task, tasks[t].status = "running" PROVE FALSE
        OBVIOUS
      <3>1. tasks[t].owner \in Mate /\ AtWork(tasks[t].owner, t)
        BY TypesOf DEF TeamInv, LeasedToWorkers, TaskRecord, Mate
      <3>2. MateOK(mates[tasks[t].owner])
        BY <3>1, TypesOf, Zenon
      <3> QED
        BY <2>1, <3>1, <3>2, Zenon DEF AtWork, MateOK
    <2> QED
      BY <2>2, <2>3, Zenon DEF TeamInv, NobodyAfterShutdown
  <1> QED
    BY <1>1, TeamIsConsistent, PTL

\* releaseAssignedTasks leaves no task waiting for a teammate that has left.
THEOREM NoTaskWaitsForTheGone == TeamSpec => []TasksAreReleased
  <1>1. TeamInv => TasksAreReleased
    BY Zenon DEF TeamInv, WaitsForSomebody, LooksFor, TasksAreReleased
  <1> QED
    BY <1>1, TeamIsConsistent, PTL

\* A shutdown request is lost only in the two ways that LosesTrack and
\* MissesRequest name.
THEOREM RequestsAreHeeded == TeamSpec => []RequestIsHeeded
  <1>1. TeamInv => RequestIsHeeded
    <2> SUFFICES ASSUME TeamInv, NEW i \in Mate, mates[i].requested, mates[i].pc = "loop",
                        ~mates[i].canceled
                 PROVE  \/ mates[i].work = "claimed"
                        \/ mates[i].work # "none" /\ mates[i].active.task = mates[i].task
                        \/ LosesTrack(i) \/ MissesRequest(i)
      BY Zenon DEF RequestIsHeeded, At
    <2>1. mates[i] \in MateRecord /\ MateOK(mates[i])
      BY TypesOf, Zenon
    <2>2. mates[i].state \in {"running", "shutting_down"}
      BY <2>1, Zenon DEF MateRecord, MateOK
    <2> QED
      BY <2>1, <2>2, Zenon DEF MateOK, LosesTrack, MissesRequest
  <1> QED
    BY <1>1, TeamIsConsistent, PTL
=============================================================================
