----------------------------- MODULE Transport -----------------------------
(***************************************************************************)
(* One connection of the app server: ServeJSONLines with its request       *)
(* scheduler, and the questions (approvals and interactions) that request  *)
(* handlers put to the client.                                             *)
(*                                                                         *)
(* `loop' is the goroutine of ServeJSONLines and jobs[h] that of the h-th  *)
(* scheduled request, which may ask one question.  A question has the      *)
(* number of its request: it is pending, queued, written to the client,    *)
(* answered.  What the answer says, what methods do besides asking, the    *)
(* questions of turns and notifications are left out.                      *)
(*                                                                         *)
(* A line of the client is read in the step that handles it, and a write   *)
(* and the drain that follows it are one step, under writeMu.  A write may *)
(* fail, and one after daemon/stop ends the loop in the same way.  The     *)
(* specification ends where ServeJSONLines returns.                        *)
(***************************************************************************)
EXTENDS SequencesExt

CONSTANTS Scope, NoScope,   \* scopes of serial requests
          Limit,            \* slots of the request scheduler
          QueueLimit,       \* length of the request queue
          MaxRequests,      \* bound: accepted requests
          MaxFaults         \* bound: failed writes and cancellations

ASSUME TransportConstants ==
    /\ NoScope \notin Scope
    /\ MaxFaults \in Nat
    /\ {Limit, QueueLimit, MaxRequests} \subseteq Nat \ {0}

VARIABLES
    loop,         \* [pc, id]: what the loop is doing, with the id of an answer
    canceled,     \* the context is done
    jobs,         \* [Request -> [pc, scope]]
    failed,       \* requests with an error to report
    slots,        \* slots taken
    locks,        \* [Scope -> the request that has the lock, or 0]
    pending,      \* questions that wait for their answer
    answered,     \* questions with an answer in their channel
    queue,        \* RequestQueue.requests
    signal,       \* RequestQueue.signal
    sent,         \* pending questions that the client has got
    dropped,      \* pending questions pushed out of the full queue
    faults,       \* failed writes and cancellations so far
    failure       \* writeErr holds an error, or the request to stop

schedulerVars == <<slots, locks>>
questionVars == <<pending, answered, queue, signal, sent, dropped>>
contexts == <<canceled, faults>>
vars == <<loop, contexts, jobs, failed, schedulerVars, questionVars, failure>>

Request == 1..MaxRequests

NoJob == [pc |-> "none", scope |-> NoScope]

Select == [pc |-> "select", id |-> 0]

Init ==
    /\ loop = Select
    /\ canceled = FALSE
    /\ faults = 0
    /\ jobs = [h \in Request |-> NoJob]
    /\ failed = {}
    /\ slots = 0
    /\ locks = [s \in Scope |-> 0]
    /\ pending = {}
    /\ answered = {}
    /\ queue = <<>>
    /\ signal = FALSE
    /\ sent = {}
    /\ dropped = {}
    /\ failure = FALSE

Goto(a, pc) == jobs' = [jobs EXCEPT ![a].pc = pc]

Fault == faults < MaxFaults /\ faults' = faults + 1

\* A request that was not received yet, or is over.
Over(h) == jobs[h].pc \in {"none", "done"}

-----------------------------------------------------------------------------
(* A scheduled request. *)

\* Variant: the lock is taken without a look at whether somebody has it.
LockAnyway(h) ==
    /\ jobs[h].pc = "lock"
    /\ locks' = [locks EXCEPT ![jobs[h].scope] = h]
    /\ Goto(h, "work")
    /\ UNCHANGED <<slots, failed, loop, contexts, questionVars, failure>>

\* RequestLease.Run waits for the scope's lock, or for the context.
Lock(h) ==
    /\ jobs[h].pc = "lock"
    /\ \/ /\ locks[jobs[h].scope] = 0
          /\ locks' = [locks EXCEPT ![jobs[h].scope] = h]
          /\ Goto(h, "work")
          /\ UNCHANGED failed
       \/ /\ canceled
          /\ Goto(h, "free")
          /\ failed' = failed \cup {h}
          /\ UNCHANGED locks
    /\ UNCHANGED <<slots, loop, contexts, questionVars, failure>>

\* drainOutboundLocked: what is in the queue is written to the client.
Drained == queue' = <<>> /\ sent' = sent \cup (ToSet(queue) \cap pending)

\* A drain that fails on the way has emptied the queue, and the client has the
\* first few of its questions, which may be none or all of them.
DrainedInPart ==
    /\ queue' = <<>>
    /\ \E n \in 0..Len(queue) : sent' = sent \cup (ToSet(SubSeq(queue, 1, n)) \cap pending)

\* What a failed write leaves: it may have failed before the drain began.
DrainFails == DrainedInPart \/ UNCHANGED <<queue, sent>>

\* The method returns; its response is written, and what is in the queue.
Write(h) ==
    /\ jobs[h].pc \in {"work", "write"}
    /\ Goto(h, "unlock")
    /\ \/ Drained /\ UNCHANGED <<failed, faults>>
       \/ DrainFails /\ failed' = failed \cup {h} /\ Fault
    /\ UNCHANGED <<loop, canceled, schedulerVars, pending, answered, signal,
                   dropped, failure>>

Unlock(h) ==
    /\ jobs[h].pc = "unlock"
    /\ Goto(h, "free")
    /\ locks' = [s \in Scope |-> IF s = jobs[h].scope THEN 0 ELSE locks[s]]
    /\ UNCHANGED <<slots, failed, loop, contexts, questionVars, failure>>

\* RequestLease.Release, sendErr and handlers.Done.
Free(h) ==
    /\ jobs[h].pc = "free"
    /\ jobs' = [jobs EXCEPT ![h] = [pc |-> "done", scope |-> NoScope]]
    /\ failed' = failed \ {h}
    /\ slots' = slots - 1
    /\ failure' = (failure \/ h \in failed)
    /\ UNCHANGED <<locks, loop, contexts, questionVars>>

-----------------------------------------------------------------------------
(* Its question. *)

\* requestApproval and InteractionService.Request: the question is pending.
Ask(h) ==
    /\ jobs[h].pc = "work"
    /\ Goto(h, "publish")
    /\ pending' = pending \cup {h}
    /\ UNCHANGED <<loop, failed, contexts, schedulerVars, answered, queue,
                   signal, sent, dropped, failure>>

\* RequestQueue.Publish and PublishRaw: a full queue loses its oldest entry.  The
\* params of a question are structs and maps that can always be marshalled.
Publish(h) ==
    /\ jobs[h].pc = "publish"
    /\ Goto(h, "signal")
    /\ LET q == Append(queue, h)
           overflow == Len(q) > QueueLimit
       IN  /\ queue' = IF overflow THEN Tail(q) ELSE q
           /\ dropped' = dropped \cup (IF overflow THEN {Head(q)} \cap pending ELSE {})
    /\ UNCHANGED <<loop, failed, contexts, schedulerVars, pending, answered,
                   signal, sent, failure>>

\* signalReady: a signal that is there already stands for this one too.
SignalReady(h) ==
    /\ jobs[h].pc = "signal"
    /\ Goto(h, "await")
    /\ signal' = TRUE
    /\ UNCHANGED <<loop, failed, contexts, schedulerVars, pending, answered,
                   queue, sent, dropped, failure>>

\* Approved or denied, the method goes on to its response.
Receive(h) ==
    /\ jobs[h].pc = "await"
    /\ h \in answered
    /\ answered' = answered \ {h}
    /\ Goto(h, "write")
    /\ UNCHANGED <<loop, failed, contexts, schedulerVars, pending, queue,
                   signal, sent, dropped, failure>>

\* The context ends first, or select prefers it.
Abandon(h) ==
    /\ jobs[h].pc = "await"
    /\ canceled
    /\ pending' = pending \ {h}
    /\ sent' = sent \ {h}
    /\ dropped' = dropped \ {h}
    /\ answered' = answered \ {h}
    /\ Goto(h, "write")
    /\ UNCHANGED <<loop, failed, contexts, schedulerVars, queue, signal,
                   failure>>

-----------------------------------------------------------------------------
(* The loop. *)

LoopGoto(pc) == loop' = [Select EXCEPT !.pc = pc]

\* RequestScheduler.TryAcquire: a request takes a slot, or is refused.
TryAcquire(h, s) ==
    /\ loop = Select
    /\ slots < Limit
    /\ jobs[h].pc = "none"
    /\ \A g \in Request : g < h => jobs[g].pc # "none"
    /\ slots' = slots + 1
    /\ jobs' = [jobs EXCEPT ![h] = [pc |-> IF s = NoScope THEN "work" ELSE "lock",
                                    scope |-> s]]
    /\ UNCHANGED <<loop, failed, contexts, locks, questionVars, failure>>

Overloaded ==
    /\ loop = Select
    /\ slots = Limit
    /\ LoopGoto("select") \/ LoopGoto("returned")
    /\ UNCHANGED <<contexts, jobs, failed, schedulerVars, questionVars,
                   failure>>

\* Variant: answers need a slot, as requests do.
AnswerScheduled(i) ==
    /\ loop = Select
    /\ slots < Limit
    /\ i \in sent
    /\ loop' = [pc |-> "resolve", id |-> i]
    /\ pending' = pending \ {i}
    /\ sent' = sent \ {i}
    /\ UNCHANGED <<contexts, jobs, failed, schedulerVars, answered, queue,
                   signal, dropped, failure>>

\* RespondResponse and Respond: the loop itself takes the question off the
\* pending ones, and then resolves it.
Answer(i) ==
    /\ loop = Select
    /\ i \in sent
    /\ loop' = [pc |-> "resolve", id |-> i]
    /\ pending' = pending \ {i}
    /\ sent' = sent \ {i}
    /\ UNCHANGED <<contexts, jobs, failed, schedulerVars, answered, queue,
                   signal, dropped, failure>>

Resolve ==
    /\ loop.pc = "resolve"
    /\ answered' = answered \cup
         {h \in Request : h = loop.id /\ jobs[h].pc \in {"signal", "await"}}
    /\ LoopGoto("bypass")
    /\ UNCHANGED <<contexts, jobs, failed, schedulerVars, pending, queue,
                   signal, sent, dropped, failure>>

\* Any other line that bypasses the scheduler: initialize, a notification, an
\* answer to a question that is not pending.  An empty line is no step, nor is
\* one that cannot be parsed: it gets an error, which drains nothing.
OtherLine ==
    /\ loop = Select
    /\ LoopGoto("bypass")
    /\ UNCHANGED <<contexts, jobs, failed, schedulerVars, questionVars,
                   failure>>

\* Variant: an error of the drain is not reported.
BypassQuietly ==
    /\ loop.pc = "bypass"
    /\ LoopGoto("select")
    /\ \/ Drained /\ UNCHANGED <<failure, faults>>
       \/ Fault /\ DrainFails /\ UNCHANGED failure
    /\ UNCHANGED <<canceled, jobs, failed, schedulerVars, pending, answered,
                   signal, dropped>>

\* After such a line the queue is drained too, which may fail on the way.
Bypass ==
    /\ loop.pc = "bypass"
    /\ LoopGoto("select")
    /\ \/ Drained /\ UNCHANGED <<failure, faults>>
       \/ Fault /\ DrainFails /\ failure' = TRUE
    /\ UNCHANGED <<canceled, jobs, failed, schedulerVars, pending, answered,
                   signal, dropped>>

\* The signal is taken first, the queue drained afterwards.
TakeSignal ==
    /\ loop = Select
    /\ signal
    /\ signal' = FALSE
    /\ LoopGoto("requests")
    /\ UNCHANGED <<contexts, jobs, failed, schedulerVars, pending, answered,
                   queue, sent, dropped, failure>>

DrainRequests ==
    /\ loop.pc = "requests"
    /\ \/ LoopGoto("select") /\ Drained
       \/ LoopGoto("returned") /\ queue # <<>> /\ DrainedInPart
    /\ UNCHANGED <<contexts, jobs, failed, schedulerVars, pending, answered,
                   signal, dropped, failure>>

\* The input ends; the handlers are waited for, and the queue is drained once more.
EndOfInput ==
    /\ loop = Select
    /\ LoopGoto("eof")
    /\ UNCHANGED <<contexts, jobs, failed, schedulerVars, questionVars,
                   failure>>

HandlersDone ==
    /\ loop.pc = "eof"
    /\ \A h \in Request : Over(h)
    /\ LoopGoto("returned")
    /\ DrainedInPart
    /\ UNCHANGED <<contexts, jobs, failed, schedulerVars, pending, answered,
                   signal, dropped, failure>>

\* The input cannot be read, or a notification or an error not be written.
Fails ==
    /\ loop = Select
    /\ LoopGoto("returned")
    /\ UNCHANGED <<contexts, jobs, failed, schedulerVars, questionVars,
                   failure>>

\* Variant: while it waits for the handlers the loop sees no error.
ReturnSelecting ==
    /\ loop.pc = "select"
    /\ canceled \/ failure
    /\ LoopGoto("returned")
    /\ UNCHANGED <<contexts, jobs, failed, schedulerVars, questionVars,
                   failure>>

Return ==
    /\ loop.pc \in {"select", "eof"}
    /\ canceled \/ failure
    /\ LoopGoto("returned")
    /\ UNCHANGED <<contexts, jobs, failed, schedulerVars, questionVars,
                   failure>>

-----------------------------------------------------------------------------
(* What comes from outside the connection. *)

Cancel ==
    /\ Fault
    /\ canceled' = TRUE
    /\ UNCHANGED <<loop, jobs, failed, schedulerVars, questionVars, failure>>

Serving(h) == Lock(h) \/ Write(h) \/ Unlock(h) \/ Free(h)

Asking(h) == Ask(h) \/ Publish(h) \/ SignalReady(h) \/ Receive(h) \/ Abandon(h)

\* What a handler does unless it waits for the lock; asking is its own choice.
Proceeding(h) ==
    \/ Write(h) \/ Unlock(h) \/ Free(h)
    \/ Publish(h) \/ SignalReady(h) \/ Receive(h) \/ Abandon(h)

Reading ==
    \/ \E h \in Request, s \in Scope \cup {NoScope} : TryAcquire(h, s)
    \/ Overloaded
    \/ \E i \in Request : Answer(i)
    \/ OtherLine
    \/ EndOfInput
    \/ Fails

Looping == Resolve \/ Bypass \/ DrainRequests \/ HandlersDone

Open == loop.pc # "returned"

Next ==
    /\ Open
    /\ \/ \E h \in Request : Serving(h) \/ Asking(h)
       \/ Reading
       \/ Looping
       \/ TakeSignal
       \/ Return
       \/ Cancel

\* Goroutines run and methods return; a goroutine that waits for a lock gets it
\* (channels are first come, first served); Go chooses among the ready cases of
\* a select at random; and the client answers what it was asked.
Spec ==
    /\ Init /\ [][Next]_vars
    /\ \A h \in Request : SF_vars(Open /\ Lock(h))
    /\ \A h \in Request : WF_vars(Open /\ Proceeding(h))
    /\ WF_vars(Looping)
    /\ SF_vars(TakeSignal)
    /\ SF_vars(Return)
    /\ \A i \in Request : SF_vars(Answer(i))

-----------------------------------------------------------------------------

\* The slots taken are those of the requests under way, and the lock of a scope
\* is with the one request of that scope between Run's lock and unlock, on every
\* path through RequestLease.Run, the end of the context included.
SchedulerIsExact ==
    /\ slots = Cardinality({h \in Request : ~Over(h)})
    /\ slots <= Limit
    /\ \A s \in Scope :
          {h \in Request : jobs[h].scope = s /\ jobs[h].pc \notin {"lock", "free"}}
            = {locks[s]} \ {0}

\* A question that waits for its answer has reached the client, or is in the
\* queue with a wake-up of ServeJSONLines on its way, unless a full queue or a
\* failed write lost it or the input has ended; and whoever asked is there to
\* take the answer.
QuestionsReachClient ==
    \A i \in pending :
        /\ jobs[i].pc \in {"publish", "signal", "await"}
        /\ \/ jobs[i].pc = "publish"
           \/ i \in sent \cup dropped
           \/ failure \/ failed # {} \/ loop.pc = "returned"
           \/ /\ i \in ToSet(queue)
              /\ \/ signal
                 \/ loop.pc # "select"
                 \/ \E h \in Request : jobs[h].pc = "signal"

\* While the connection lasts every accepted request is answered, however many
\* wait for the client, unless a full queue lost a question.
RequestsGetAnswered ==
    \A h \in Request :
        ~Over(h) ~> Over(h) \/ loop.pc \in {"eof", "returned"} \/ dropped # {}

\* A canceled context or an error ends ServeJSONLines, and so does the end of
\* the input unless a request then waits for an answer, which cannot come.
ServeReturns ==
    /\ canceled \/ failure ~> loop.pc = "returned"
    /\ loop.pc = "eof" ~>
         loop.pc = "returned" \/ \E h \in Request : jobs[h].pc = "await"
=============================================================================
