--------------------------- MODULE TaskLifecycle ---------------------------
(***************************************************************************)
(* What a task store promises about a task, without leases, tokens, clocks *)
(* or dependencies (the contract behind orchestrator.TaskStore,            *)
(* ext/orchestrator/store.go): a task is owned by one run at a time, each  *)
(* run starts once, only the owner completes a task, and a completed or    *)
(* deleted task never moves again.                                         *)
(***************************************************************************)
CONSTANTS
    Task,       \* every task that can ever be created
    Run,        \* every run that can ever be started
    NoOwner     \* not a run

VARIABLES
    life,       \* where each task is in its life
    owner,      \* the run that owns it, or owned it last
    started     \* the runs started so far

vars == <<life, owner, started>>

Init ==
    /\ life = [t \in Task |-> "unborn"]
    /\ owner = [t \in Task |-> NoOwner]
    /\ started = {}

Move(t, to, own) ==
    /\ life' = [life EXCEPT ![t] = to]
    /\ owner' = [owner EXCEPT ![t] = own]
    /\ UNCHANGED started

Create(t) == life[t] = "unborn" /\ Move(t, "pending", NoOwner)
Complete(t) == life[t] = "running" /\ Move(t, "completed", owner[t])
Cancel(t) == life[t] \in {"pending", "running"} /\ Move(t, "canceled", owner[t])
Retry(t) == life[t] \in {"failed", "canceled"} /\ Move(t, "pending", NoOwner)
Delete(t) == life[t] \notin {"unborn", "gone"} /\ Move(t, "gone", NoOwner)

\* A task out of attempts fails; a canceled one does so too when it is next
\* looked at, because the store tests the attempts before the status.
MayFail == {t \in Task : life[t] \in {"running", "canceled"}}
Running == {t \in Task : life[t] = "running"}

\* Run r takes task t, from the queue or from a run that lost it, and the
\* tasks in `failed' fail on the way.
Start(t, r, failed) ==
    /\ life[t] \in {"pending", "running"}
    /\ t \notin failed
    /\ life' = [u \in Task |-> IF u = t THEN "running"
                               ELSE IF u \in failed THEN "failed" ELSE life[u]]
    /\ owner' = [owner EXCEPT ![t] = r]
    /\ started' = started \cup {r}

\* The runs of some tasks end without completing them: the task goes back to
\* the queue or fails.
Settle(queued, failed) ==
    /\ queued \cap failed = {}
    /\ life' = [u \in Task |-> IF u \in queued THEN "pending"
                               ELSE IF u \in failed THEN "failed" ELSE life[u]]
    /\ owner' = [u \in Task |-> IF u \in queued THEN NoOwner ELSE owner[u]]
    /\ UNCHANGED started

Next ==
    \/ \E t \in Task : Create(t) \/ Complete(t) \/ Cancel(t) \/ Retry(t) \/ Delete(t)
    \/ \E t \in Task, r \in Run \ started, failed \in SUBSET MayFail : Start(t, r, failed)
    \/ \E queued \in SUBSET Running, failed \in SUBSET MayFail : Settle(queued, failed)

Spec == Init /\ [][Next]_vars
=============================================================================
