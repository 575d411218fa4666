-------------------------------- MODULE Team --------------------------------
(***************************************************************************)
(* Teams of agents (ext/team): spawning and shutting down teammates, and   *)
(* the tasks they share.  Each teammate runs a scheduler of its own, with  *)
(* one slot, over a view of the task store that prefers the tasks assigned *)
(* to it and tells the teammate when its current task has been settled.    *)
(* The store and the scheduler are reduced to what a team sees of them     *)
(* (TaskStore and Scheduler have the rest): a team's task has one attempt, *)
(* so losing its lease fails it.  Of the commands, abort_run is left out:  *)
(* it ends a run as an agent that returns an error does.                   *)
(*                                                                         *)
(* A name can be used again once its teammate has left, so teammates are   *)
(* told apart by the number of the SpawnTeammate call that made them.      *)
(***************************************************************************)
EXTENDS Naturals, FiniteSets, FiniteSetsExt

CONSTANTS
    Name,       \* names of teammates
    NoName,     \* no assignee
    MaxSpawns,  \* bound: calls of SpawnTeammate
    MaxTasks,   \* bound: tasks created
    MaxFaults   \* bound: contexts canceled, leases expired, tasks deleted,
                \* commands sent (a task with a claimed command may be deleted, too)

ASSUME TeamConstants == {MaxSpawns, MaxTasks, MaxFaults} \subseteq Nat /\ NoName \notin Name

VARIABLES
    members,    \* Team.members: the teammate with each name, 0 if none
    mates,      \* the teammates and their goroutines
    tasks,      \* the team's tasks in the store
    commands,   \* the outstanding command for each task, if any
    creating,   \* the assignee of a task_create call between its check and the
                \* store
    shutdown,   \* the call of Team.Shutdown, and Team.closing
    faults      \* what has come from outside so far

teamVars == <<members, mates, tasks, commands, creating, shutdown, faults>>

Mate == 1..MaxSpawns
Task == 1..MaxTasks

\* pc: SpawnTeammate and run.  work: the scheduler's run goroutine and
\* RunTask in it.  cmd: the command the scheduler's loop is at.
NoActive == [task |-> 0, ended |-> FALSE, settled |-> FALSE]
NoMate == [pc |-> "none", name |-> NoName, state |-> "starting", cancel |-> FALSE,
           canceled |-> FALSE, requested |-> FALSE, early |-> FALSE, active |-> NoActive,
           work |-> "none", task |-> 0, cmd |-> [task |-> 0, at |-> "none"], todo |-> {}]

\* A task that is completed, failed or canceled is "over".  Only a retry asks
\* which, and it is sent only for a task that failed or was canceled: a retry
\* finds that this is how the task had ended.
\*
\* Two fields are records of the past, which no code reads.  early: a teammate
\* was asked to stop before it had a cancel function.  late: when the task
\* became pending nobody with the name of its assignee was left who would look
\* for it.
NoTask == [status |-> "absent", assignee |-> NoName, owner |-> 0, late |-> FALSE]

TeamInit ==
    /\ members = [n \in Name |-> 0]
    /\ mates = [i \in Mate |-> NoMate]
    /\ tasks = [t \in Task |-> NoTask]
    /\ commands = [t \in Task |-> "none"]
    /\ creating = NoName
    /\ shutdown = [at |-> "none", ask |-> {}]
    /\ faults = 0

Spawned == {i \in Mate : mates[i].pc # "none"}
Created == {t \in Task : tasks[t].status # "absent"}
Exists(t) == tasks[t].status \notin {"absent", "deleted"}
Departed(i) == mates[i].pc \in {"gone", "cut", "failed"}
Closing == shutdown.at # "none"
Fault == faults < MaxFaults /\ faults' = faults + 1

\* Teammate i, its program counter, and what it is when it leaves.
At(i, a) == mates[i].pc = a
Set(i, m) == mates' = [mates EXCEPT ![i] = m]
Goto(i, b) == Set(i, [mates[i] EXCEPT !.pc = b])
Depart(i, b) == Set(i, [NoMate EXCEPT !.pc = b, !.name = mates[i].name])

-----------------------------------------------------------------------------
(* Tasks. *)

\* A teammate of that name has yet to look for the tasks assigned to it.
WillLook(name) ==
    \E i \in Mate : /\ mates[i].name = name
                    /\ mates[i].pc \in {"spawning", "created", "loop", "drain", "removed"}

\* A pending task with that assignee.
Pending(name) ==
    [NoTask EXCEPT !.status = "pending", !.assignee = name,
                   !.late = name # NoName /\ ~WillLook(name)]

\* Task t when it is over: it keeps its assignee.
Over(t) == [NoTask EXCEPT !.status = "over", !.assignee = tasks[t].assignee]

\* store.CreateTask.
NewTask(name) ==
    /\ Cardinality(Created) < MaxTasks
    /\ tasks' = [tasks EXCEPT ![Cardinality(Created) + 1] = Pending(name)]

\* createTeamTask, by the leader or by a teammate's tool: the assignee is
\* looked up, then the task is stored.
LookUpAssignee(name) ==
    /\ creating = NoName /\ members[name] # 0
    /\ Cardinality(Created) < MaxTasks
    /\ creating' = name
    /\ UNCHANGED <<members, mates, tasks, commands, shutdown, faults>>

CreateTask ==
    /\ NewTask(creating)
    /\ creating' = NoName
    /\ UNCHANGED <<members, mates, commands, shutdown, faults>>

\* Users of the store: a task is deleted (its command is never seen again), a
\* command is sent to cancel or to retry it, or its lease runs out and it is
\* recovered, which fails it.
DeleteTask(t) ==
    /\ Exists(t)
    /\ Fault \/ (commands[t] = "claimed" /\ UNCHANGED faults)
    /\ tasks' = [tasks EXCEPT ![t] = [NoTask EXCEPT !.status = "deleted"]]
    /\ commands' = [commands EXCEPT ![t] = "none"]
    /\ UNCHANGED <<members, mates, creating, shutdown>>

SendCommand(t) ==
    /\ Fault
    /\ commands[t] = "none"
    /\ \/ /\ tasks[t].status \in {"pending", "running"}
          /\ commands' = [commands EXCEPT ![t] = "cancel"]
       \/ /\ tasks[t].status = "over"
          /\ commands' = [commands EXCEPT ![t] = "retry"]
    /\ UNCHANGED <<members, mates, tasks, creating, shutdown>>

ExpireLease(t) ==
    /\ Fault
    /\ tasks[t].status = "running"
    /\ tasks' = [tasks EXCEPT ![t] = Over(t)]
    /\ UNCHANGED <<members, mates, commands, creating, shutdown>>

-----------------------------------------------------------------------------
(* SpawnTeammate. *)

\* Variant: the check of Team.closing forgotten.
RegisterAlways(name) ==
    /\ members[name] = 0
    /\ \E i \in Mate :
          /\ Cardinality(Spawned) = i - 1
          /\ Set(i, [NoMate EXCEPT !.pc = "spawning", !.name = name])
          /\ members' = [members EXCEPT ![name] = i]
    /\ UNCHANGED <<tasks, commands, creating, shutdown, faults>>

\* Under Team.mu: the name is taken and the WaitGroup counts one more.
Register(name) == ~Closing /\ RegisterAlways(name)

\* The initial task; when the store refuses it the teammate is dropped again.
CreateInitialTask(i) ==
    /\ At(i, "spawning")
    /\ \/ NewTask(mates[i].name) /\ Goto(i, "created") /\ UNCHANGED members
       \/ /\ members' = [members EXCEPT ![mates[i].name] = 0]
          /\ Depart(i, "failed")
          /\ UNCHANGED tasks
    /\ UNCHANGED <<commands, creating, shutdown, faults>>

\* tm.cancel is set (without tm.mu) and the goroutine is started.  A context
\* canceled before start is seen by the scheduler's loop as well.
Launch(i) ==
    /\ At(i, "created")
    /\ Set(i, [mates[i] EXCEPT !.pc = "loop", !.cancel = TRUE])
    /\ UNCHANGED <<members, tasks, commands, creating, shutdown, faults>>

\* The context SpawnTeammate was given is canceled; only the scheduler reads it.
CancelContext(i) ==
    /\ Fault
    /\ At(i, "loop") /\ ~mates[i].canceled
    /\ Set(i, [mates[i] EXCEPT !.canceled = TRUE])
    /\ UNCHANGED <<members, tasks, commands, creating, shutdown>>

-----------------------------------------------------------------------------
(* Shutdown requests. *)

\* requestShutdown: only the first request counts; a teammate that is at work
\* is left to finish, and one that has been removed does not look any more.
Requested(m) ==
    IF m.requested \/ m.pc \notin {"spawning", "created", "loop", "drain"} THEN m
    ELSE IF m.state \in {"idle", "starting"}
         THEN [m EXCEPT !.requested = TRUE, !.state = "shutting_down",
                        !.canceled = @ \/ m.cancel, !.early = ~m.cancel]
         ELSE [m EXCEPT !.requested = TRUE]

\* The shutdown_teammate tool.
RequestShutdown(name) ==
    LET i == members[name]
    IN  /\ i # 0 /\ ~mates[i].requested
        /\ Set(i, Requested(mates[i]))
        /\ UNCHANGED <<members, tasks, commands, creating, shutdown, faults>>

\* Team.Shutdown: close the team to newcomers, ask the members one by one, and
\* wait for all goroutines or for the context.
BeginShutdown ==
    /\ shutdown.at = "none"
    /\ LET present == {members[n] : n \in Name} \ {0}
       IN  shutdown' = [at |-> IF present = {} THEN "waiting" ELSE "asking", ask |-> present]
    /\ UNCHANGED <<members, mates, tasks, commands, creating, faults>>

AskMember ==
    /\ shutdown.at = "asking"
    /\ \E i \in shutdown.ask :
          /\ Set(i, Requested(mates[i]))
          /\ shutdown' = [at |-> IF shutdown.ask = {i} THEN "waiting" ELSE "asking",
                          ask |-> shutdown.ask \ {i}]
    /\ UNCHANGED <<members, tasks, commands, creating, faults>>

AllStopped ==
    /\ shutdown.at = "waiting"
    /\ \A i \in Spawned : Departed(i)
    /\ shutdown' = [shutdown EXCEPT !.at = "done"]
    /\ UNCHANGED <<members, mates, tasks, commands, creating, faults>>

ShutdownExpires ==
    /\ shutdown.at = "waiting"
    /\ shutdown' = [shutdown EXCEPT !.at = "expired"]
    /\ mates' = [i \in Mate |->
                    IF i \in {members[n] : n \in Name} /\ mates[i].cancel
                    THEN [mates[i] EXCEPT !.canceled = TRUE] ELSE mates[i]]
    /\ UNCHANGED <<members, tasks, commands, creating, faults>>

-----------------------------------------------------------------------------
(* A teammate's run of a task. *)

\* Variant: a teammate is free as soon as its task is settled.
ProgressWhenSettled(m, t, ended, settled) ==
    IF m.active.task # t \/ ~settled
    THEN [m EXCEPT !.active.ended = @ \/ (m.active.task = t /\ ended)]
    ELSE IF m.requested THEN [m EXCEPT !.active = NoActive, !.state = "shutting_down", !.canceled = TRUE]
    ELSE [m EXCEPT !.active = NoActive, !.state = "idle"]

\* Variant: the teammate is shown as stopping, but its context is not canceled.
ProgressUncanceled(m, t, ended, settled) ==
    LET a == [m.active EXCEPT !.ended = @ \/ ended, !.settled = @ \/ settled]
    IN  IF m.active.task # t THEN m
        ELSE IF ~(a.ended /\ a.settled) THEN [m EXCEPT !.active = a]
        ELSE [m EXCEPT !.active = NoActive, !.state = IF m.requested THEN "shutting_down" ELSE "idle"]

\* markTaskProgress: once the run has ended and the task is settled, the
\* teammate is idle, or stops if it has been asked to.
Progress(m, t, ended, settled) ==
    LET a == [m.active EXCEPT !.ended = @ \/ ended, !.settled = @ \/ settled]
    IN  IF m.active.task # t THEN m
        ELSE IF ~(a.ended /\ a.settled) THEN [m EXCEPT !.active = a]
        ELSE IF m.requested
        THEN [m EXCEPT !.active = NoActive, !.state = "shutting_down", !.canceled = @ \/ m.cancel]
        ELSE [m EXCEPT !.active = NoActive, !.state = "idle"]

\* What teammate i may claim: its own tasks and the unassigned ones.  Its own
\* come first, as far as they are in the list it works from.
Claimable(i) == {t \in Task : /\ tasks[t].status = "pending"
                              /\ tasks[t].assignee \in {mates[i].name, NoName}}

InLoop(i) == At(i, "loop") /\ mates[i].cmd.at = "none"

ClaimReadyTask(i, t) ==
    /\ InLoop(i) /\ mates[i].work = "none" /\ t \in Claimable(i)
    /\ tasks' = [tasks EXCEPT ![t].status = "running", ![t].owner = i, ![t].late = FALSE]
    /\ Set(i, [mates[i] EXCEPT !.work = "claimed", !.task = t])
    /\ UNCHANGED <<members, commands, creating, shutdown, faults>>

\* RunTask: setActiveClaim, then setState.
BeginRun(i) ==
    /\ mates[i].work = "claimed"
    /\ Set(i, [mates[i] EXCEPT !.work = "executing", !.state = "running", !.early = FALSE,
                               !.active = [NoActive EXCEPT !.task = mates[i].task]])
    /\ UNCHANGED <<members, tasks, commands, creating, shutdown, faults>>

Holds(i, t) == tasks[t].status = "running" /\ tasks[t].owner = i

\* The task_fail_current tool: the task is failed in the store, the teammate is
\* told, and the run is canceled.
FailCurrent(i) ==
    LET t == mates[i].task
    IN  /\ mates[i].work = "executing" /\ Holds(i, t)
        /\ tasks' = [tasks EXCEPT ![t] = Over(t)]
        /\ Set(i, Progress(mates[i], t, FALSE, TRUE))
        /\ UNCHANGED <<members, commands, creating, shutdown, faults>>

\* The agent returns, and RunTask's deferred markRunEnded is called.  A run
\* canceled with its context hands the task back.
EndRun(i) ==
    LET m == Progress(mates[i], mates[i].task, TRUE, FALSE)
    IN  /\ mates[i].work = "executing"
        /\ \/ Set(i, [m EXCEPT !.work = "ended"])
           \/ mates[i].canceled /\ Set(i, [m EXCEPT !.work = "canceled"])
        /\ UNCHANGED <<members, tasks, commands, creating, shutdown, faults>>

\* runClaim completes, fails or releases the task, if it still holds it, and
\* frees the slot.
Settle(i) ==
    LET t == mates[i].task
    IN  /\ mates[i].work \in {"ended", "canceled"}
        /\ IF Holds(i, t)
           THEN /\ \/ /\ mates[i].work = "ended"
                      /\ tasks' = [tasks EXCEPT ![t] = Over(t)]
                   \/ /\ mates[i].work = "canceled"
                      /\ tasks' = [tasks EXCEPT ![t].status = "pending", ![t].owner = 0]
                /\ Set(i, [mates[i] EXCEPT !.work = "settled"])
           ELSE /\ Set(i, [mates[i] EXCEPT !.work = "none", !.task = 0])
                /\ UNCHANGED tasks
        /\ UNCHANGED <<members, commands, creating, shutdown, faults>>

\* The worker's store tells the teammate with its name that the task is settled.
Told(i, t, m) ==
    LET j == members[mates[i].name]
        told == IF j = 0 THEN mates ELSE [mates EXCEPT ![j] = Progress(mates[j], t, FALSE, TRUE)]
    IN  mates' = [told EXCEPT ![i].work = m.work, ![i].task = m.task, ![i].cmd = m.cmd]

MarkTaskSettled(i) ==
    /\ mates[i].work = "settled"
    /\ Told(i, mates[i].task, [mates[i] EXCEPT !.work = "none", !.task = 0])
    /\ UNCHANGED <<members, tasks, commands, creating, shutdown, faults>>

-----------------------------------------------------------------------------
(* Commands: the scheduler's loop, through the worker's store, which shows   *)
(* a command only while its task exists.                                     *)

\* A command for a running task is addressed to the worker that runs it.
ClaimCommand(i, t) ==
    /\ InLoop(i)
    /\ commands[t] \in {"cancel", "retry"} /\ Exists(t)
    /\ tasks[t].status = "running" => tasks[t].owner = i
    /\ commands' = [commands EXCEPT ![t] = "claimed"]
    /\ Set(i, [mates[i] EXCEPT !.cmd = [task |-> t, at |-> commands[t]]])
    /\ UNCHANGED <<members, tasks, creating, shutdown, faults>>

CmdAt(i, at) == Set(i, [mates[i] EXCEPT !.cmd.at = at])

\* applyCancelTask.  Another teammate's run cannot be canceled from here.
ApplyCancel(i) ==
    LET t == mates[i].cmd.task
    IN  /\ mates[i].cmd.at = "cancel"
        /\ \/ /\ tasks[t].status = "pending" \/ Holds(i, t)
              /\ tasks' = [tasks EXCEPT ![t] = Over(t)]
              /\ CmdAt(i, "tell")
           \/ /\ tasks[t].status = "running" /\ ~Holds(i, t)
              /\ CmdAt(i, "nack") /\ UNCHANGED tasks
           \/ /\ tasks[t].status \notin {"pending", "running"}
              /\ CmdAt(i, "ack") /\ UNCHANGED tasks
        /\ UNCHANGED <<members, commands, creating, shutdown, faults>>

TellCanceled(i) ==
    LET m == mates[i]
    IN  /\ m.cmd.at = "tell"
        /\ Told(i, m.cmd.task, [m EXCEPT !.cmd.at = "ack"])
        /\ UNCHANGED <<members, tasks, commands, creating, shutdown, faults>>

\* applyRetryTask, through the worker's store.  The task is pending again, for
\* the assignee it had, wherever that one is.
RetryTask(i) ==
    LET t == mates[i].cmd.task
    IN  /\ mates[i].cmd.at = "retry"
        /\ tasks' = IF tasks[t].status = "over"
                    THEN [tasks EXCEPT ![t] = Pending(tasks[t].assignee)] ELSE tasks
        /\ CmdAt(i, "ack")
        /\ UNCHANGED <<members, commands, creating, shutdown, faults>>

\* The command is acknowledged or, if it is a cancel, given back.  Both fail when
\* the task has been deleted meanwhile, and that error ends the scheduler.
FinishCommand(i) ==
    LET c == mates[i].cmd
        m == [mates[i] EXCEPT !.cmd = NoMate.cmd]
    IN  /\ c.at \in {"ack", "nack"}
        /\ IF Exists(c.task)
           THEN /\ commands' = [commands EXCEPT ![c.task] = IF c.at = "ack" THEN "none" ELSE "cancel"]
                /\ Set(i, m)
           ELSE Set(i, [m EXCEPT !.pc = "drain"]) /\ UNCHANGED commands
        /\ UNCHANGED <<members, tasks, creating, shutdown, faults>>

-----------------------------------------------------------------------------
(* Leaving the team. *)

\* Scheduler.Run ends with its context, waits for its run, and returns to the
\* deferred part of Teammate.run.
Leave(i) ==
    /\ InLoop(i) /\ mates[i].canceled
    /\ Goto(i, "drain")
    /\ UNCHANGED <<members, tasks, commands, creating, shutdown, faults>>

\* removeTeammate: the name is free from here on.
Stop(i) ==
    /\ At(i, "drain") /\ mates[i].work = "none"
    /\ members' = [members EXCEPT ![mates[i].name] = 0]
    /\ Set(i, [NoMate EXCEPT !.pc = "removed", !.name = mates[i].name, !.state = "stopped"])
    /\ UNCHANGED <<tasks, commands, creating, shutdown, faults>>

\* releaseAssignedTasks: list the pending tasks assigned to the name, then
\* clear the assignee of each; a task deleted meanwhile ends it early.
ListAssigned(i) ==
    /\ At(i, "removed")
    /\ Set(i, [mates[i] EXCEPT !.pc = "releasing",
                               !.todo = {t \in Task : /\ tasks[t].status = "pending"
                                                      /\ tasks[t].assignee = mates[i].name}])
    /\ UNCHANGED <<members, tasks, commands, creating, shutdown, faults>>

\* Variant: the search ends with the first task found.
ReleaseFirst(i) ==
    LET todo == mates[i].todo
    IN  /\ At(i, "releasing")
        /\ tasks' = IF todo = {} THEN tasks ELSE [tasks EXCEPT ![Min(todo)].assignee = NoName]
        /\ Depart(i, "gone")
        /\ UNCHANGED <<members, commands, creating, shutdown, faults>>

ReleaseAssigned(i) ==
    LET todo == mates[i].todo
    IN  /\ At(i, "releasing")
        /\ \/ todo = {} /\ Depart(i, "gone") /\ UNCHANGED tasks
           \/ /\ todo # {} /\ Exists(Min(todo))
              /\ tasks' = [tasks EXCEPT ![Min(todo)].assignee = NoName]
              /\ Set(i, [mates[i] EXCEPT !.todo = @ \ {Min(todo)}])
           \/ /\ todo # {} /\ ~Exists(Min(todo))
              /\ Depart(i, "cut")
              /\ UNCHANGED tasks
        /\ UNCHANGED <<members, commands, creating, shutdown, faults>>

-----------------------------------------------------------------------------

Spawning(i) == CreateInitialTask(i) \/ Launch(i)
Commanding(i) ==
    \/ \E t \in Task : ClaimCommand(i, t)
    \/ ApplyCancel(i) \/ TellCanceled(i) \/ RetryTask(i) \/ FinishCommand(i)
Running(i) ==
    BeginRun(i) \/ FailCurrent(i) \/ EndRun(i) \/ Settle(i) \/ MarkTaskSettled(i)
Leaving(i) == Stop(i) \/ ListAssigned(i) \/ ReleaseAssigned(i)

TeamNext ==
    \/ \E i \in Mate :
          \/ Spawning(i) \/ Commanding(i) \/ Running(i) \/ Leave(i) \/ Leaving(i)
          \/ \E t \in Task : ClaimReadyTask(i, t)
          \/ CancelContext(i)
    \/ \E n \in Name : Register(n) \/ LookUpAssignee(n) \/ RequestShutdown(n)
    \/ \E t \in Task : DeleteTask(t) \/ SendCommand(t) \/ ExpireLease(t)
    \/ CreateTask
    \/ BeginShutdown \/ AskMember \/ AllStopped \/ ShutdownExpires

TeamSpec == TeamInit /\ [][TeamNext]_teamVars

-----------------------------------------------------------------------------
(* Properties. *)

\* A teammate shown as idle is free: its agent is not running, and no task is
\* leased to it other than one it has just claimed.  The end of the run and
\* the settling of the task happen in either order, on different goroutines.
IdleIsFree ==
    \A i \in Mate : mates[i].state = "idle" =>
        /\ mates[i].work # "executing"
        /\ \A t \in Task : Holds(i, t) => mates[i].work = "claimed" /\ mates[i].task = t

\* When Shutdown returns without error nobody is left: no goroutine, no name
\* taken, and no task leased to a teammate.
ShutdownLeavesNobody ==
    shutdown.at = "done" =>
        /\ \A i \in Spawned : Departed(i)
        /\ \A n \in Name : members[n] = 0
        /\ \A t \in Task : tasks[t].status # "running"

\* A teammate that has left has let go of its tasks: no task that was pending
\* for it when it looked for them is left waiting for it.  A task that became
\* pending too late for that, by creation or by a retry, is, and so may be
\* tasks of a teammate that never looked because its initial task could not be
\* created ("failed") or that gave up at a deleted task ("cut").
TasksAreReleased ==
    \A t \in Task :
        tasks[t].status = "pending" /\ tasks[t].assignee # NoName /\ ~tasks[t].late
            => \E i \in Mate : /\ mates[i].name = tasks[t].assignee
                               /\ mates[i].pc # "gone"

\* The ways in which a teammate outlives a shutdown request.  Its last run
\* ended without the teammate being told that the task was settled, because
\* the task was deleted, lost its lease, or was canceled before RunTask had
\* begun: it is shown as running until it claims another task.
LosesTrack(i) == mates[i].state = "running" /\ mates[i].active.ended

\* Or it was asked before SpawnTeammate had set tm.cancel, so that nothing was
\* canceled, and has not run a task yet: the end of the next one stops it.
MissesRequest(i) == mates[i].early

\* No other shutdown request is lost: a teammate that was asked to stop is
\* stopping, or is at a task whose end will stop it.  The request, the end of
\* the run and the settling of its task come in any order.
RequestIsHeeded ==
    \A i \in Mate :
        mates[i].requested /\ At(i, "loop") /\ ~mates[i].canceled =>
            \/ mates[i].work = "claimed"
            \/ mates[i].work # "none" /\ mates[i].active.task = mates[i].task
            \/ LosesTrack(i) \/ MissesRequest(i)
=============================================================================
