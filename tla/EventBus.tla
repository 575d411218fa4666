------------------------------ MODULE EventBus ------------------------------
(***************************************************************************)
(* The typed publish-subscribe bus of core/eventbus.go, over which stores, *)
(* agents and teams announce what they do.                                 *)
(*                                                                         *)
(* Subscribe and unsubscribe change the lists of subscribers under `mu'.   *)
(* Publish and PublishAsync copy a list under `mu' and, after releasing    *)
(* it, call the handlers or put the copy on the queue under `queueMu'; so  *)
(* a caller can be overtaken between the two steps.  One goroutine takes   *)
(* events off the queue and calls their handlers.                          *)
(*                                                                         *)
(* Handlers may use the bus.  What they publish and subscribe to is what   *)
(* some client does at that moment; only a handler that calls Close on the *)
(* dispatch goroutine is different, since it waits for itself.  A handler  *)
(* that panics on that goroutine loses its event for the handlers after    *)
(* it, and the panic is repeated on a goroutine of its own, which ends the *)
(* program some time later; what happens until then is modelled.           *)
(*                                                                         *)
(* `audience', `accepted' and `log' are history: who was subscribed when,  *)
(* the events that reached the queue, and the handler calls of the         *)
(* dispatch goroutine.                                                     *)
(***************************************************************************)
EXTENDS Integers, Sequences

CONSTANTS
    Client,     \* goroutines that use the bus
    EventType,  \* the Go types of events
    MaxSubs,    \* bound: subscriptions ever made
    MaxEvents   \* bound: events ever published

ASSUME BusConstants == MaxSubs \in Nat /\ MaxEvents \in Nat

SubId == 1..MaxSubs
EventId == 1..MaxEvents

VARIABLES
    subscribers,    \* [EventType -> Seq(SubId)], in the order of subscription
    nextID,         \* the last subscription id issued (ids start at 1 here, at 0 in Go)
    queue,          \* the events waiting, with the handlers to call
    closed,
    loop,           \* the dispatch goroutine
    calls,          \* [Client -> the call it is in the middle of]
    published,      \* events published so far, synchronously or not
    audience,       \* [SubId -> its type and the events it lived through]
    accepted,       \* every entry the queue has taken
    log,            \* every handler call of the dispatch goroutine
    panicked        \* entries of `accepted' during which a handler panicked

busVars == <<subscribers, nextID, queue, closed>>
history == <<published, audience, accepted, log, panicked>>
vars == <<busVars, loop, calls, history>>

Entry == [event: EventId, type: EventType, subs: Seq(SubId)]
Call == [op: {"publish", "enqueue"}, entry: Entry] \cup {[op |-> "idle"], [op |-> "close"]}

\* The dispatch goroutine works on entry number n of `accepted' and has the
\* handlers of subs before `next' behind it.
Loop == [pc: {"dequeue", "waiting", "dispatch", "handler", "stuck", "exited"},
         n: Nat, next: Nat, subs: Seq(SubId)]

Idle == [op |-> "idle"]

Init ==
    /\ subscribers = [ty \in EventType |-> <<>>]
    /\ nextID = 0
    /\ queue = <<>>
    /\ closed = FALSE
    /\ loop = [pc |-> "dequeue", n |-> 0, next |-> 1, subs |-> <<>>]
    /\ calls = [c \in Client |-> Idle]
    /\ published = 0
    /\ audience = [s \in SubId |-> [since |-> 0, until |-> 0, types |-> {}]]
    /\ accepted = <<>>
    /\ log = <<>>
    /\ panicked = {}

-----------------------------------------------------------------------------
(* Subscriptions. *)

Subscribe(ty) ==
    /\ nextID < MaxSubs
    /\ nextID' = nextID + 1
    /\ subscribers' = [subscribers EXCEPT ![ty] = Append(@, nextID + 1)]
    /\ audience' = [audience EXCEPT ![nextID + 1] =
                       [since |-> published, until |-> MaxEvents, types |-> {ty}]]
    /\ UNCHANGED <<queue, closed, loop, calls, published, accepted, log, panicked>>

\* Variant: off by one, the subscriber itself stays and the next one goes.
WithoutNext(subs, i) == SubSeq(subs, 1, i) \o SubSeq(subs, i + 2, Len(subs))

Without(subs, i) == SubSeq(subs, 1, i - 1) \o SubSeq(subs, i + 1, Len(subs))

\* The function Subscribe returns; a second call finds nothing to do.
Unsubscribe(ty, i) ==
    LET s == subscribers[ty][i]
    IN  /\ subscribers' = [subscribers EXCEPT ![ty] = Without(@, i)]
        /\ audience' = [audience EXCEPT ![s].until = published]
        /\ UNCHANGED <<nextID, queue, closed, loop, calls, published, accepted, log, panicked>>

-----------------------------------------------------------------------------
(* Publishing. *)

\* snapshotSubscribers, the first half of Publish (op "publish") and of
\* PublishAsync (op "enqueue").  Without subscribers that is all.
Snapshot(c, ty, op) ==
    LET entry == [event |-> published + 1, type |-> ty, subs |-> subscribers[ty]]
    IN  /\ calls[c] = Idle
        /\ published < MaxEvents
        /\ published' = published + 1
        /\ calls' = [calls EXCEPT ![c] = IF subscribers[ty] = <<>> THEN Idle
                                         ELSE [op |-> op, entry |-> entry]]
        /\ UNCHANGED <<busVars, loop, audience, accepted, log, panicked>>

\* Publish calls the handlers on the caller's goroutine, one after the other;
\* a panic goes to the caller.
CallSync(c) ==
    LET subs == calls[c].entry.subs
    IN  /\ calls[c].op = "publish"
        /\ \/ /\ Len(subs) > 1
              /\ calls' = [calls EXCEPT ![c].entry.subs = Tail(subs)]
           \/ calls' = [calls EXCEPT ![c] = Idle]
        /\ UNCHANGED <<busVars, loop, history>>

\* Signal and Broadcast wake the dispatch goroutine if it waits.
Woken == [loop EXCEPT !.pc = IF @ = "waiting" THEN "dequeue" ELSE @]

\* Variant: nobody is woken.
EnqueueQuietly(c) ==
    /\ calls[c].op = "enqueue"
    /\ IF closed THEN UNCHANGED <<queue, accepted, loop>>
       ELSE /\ queue' = Append(queue, calls[c].entry)
            /\ accepted' = Append(accepted, calls[c].entry)
            /\ UNCHANGED loop
    /\ calls' = [calls EXCEPT ![c] = Idle]
    /\ UNCHANGED <<subscribers, nextID, closed, published, audience, log, panicked>>

\* enqueue, the second half of PublishAsync: a closed bus drops the event.
Enqueue(c) ==
    /\ calls[c].op = "enqueue"
    /\ IF closed THEN UNCHANGED <<queue, accepted, loop>>
       ELSE /\ queue' = Append(queue, calls[c].entry)
            /\ accepted' = Append(accepted, calls[c].entry)
            /\ loop' = Woken
    /\ calls' = [calls EXCEPT ![c] = Idle]
    /\ UNCHANGED <<subscribers, nextID, closed, published, audience, log, panicked>>

-----------------------------------------------------------------------------
(* Closing. *)

\* Variant: nobody is woken.
CloseQuietly(c) ==
    /\ calls[c] = Idle
    /\ closed' = TRUE
    /\ calls' = [calls EXCEPT ![c] = [op |-> "close"]]
    /\ UNCHANGED <<subscribers, nextID, queue, loop, history>>

\* Close marks the bus and wakes the dispatch goroutine, if it is the first ...
Close(c) ==
    /\ calls[c] = Idle
    /\ closed' = TRUE
    /\ loop' = IF closed THEN loop ELSE Woken
    /\ calls' = [calls EXCEPT ![c] = [op |-> "close"]]
    /\ UNCHANGED <<subscribers, nextID, queue, history>>

\* ... and waits for it to exit.
CloseReturns(c) ==
    /\ calls[c].op = "close"
    /\ loop.pc = "exited"
    /\ calls' = [calls EXCEPT ![c] = Idle]
    /\ UNCHANGED <<busVars, loop, history>>

-----------------------------------------------------------------------------
(* The dispatch goroutine. *)

\* Variant: the event stays on the queue.
DequeueKeeping ==
    /\ loop.pc = "dequeue"
    /\ IF queue = <<>>
       THEN loop' = [loop EXCEPT !.pc = IF closed THEN "exited" ELSE "waiting"]
       ELSE loop' = [pc |-> "dispatch", n |-> Len(accepted) - Len(queue) + 1,
                     next |-> 1, subs |-> Head(queue).subs]
    /\ UNCHANGED <<subscribers, nextID, queue, closed, calls, history>>

\* Variant: a closed bus is left at once.
DequeueUnlessClosed ==
    /\ loop.pc = "dequeue"
    /\ IF closed \/ queue = <<>>
       THEN /\ loop' = [loop EXCEPT !.pc = IF closed THEN "exited" ELSE "waiting"]
            /\ UNCHANGED queue
       ELSE /\ loop' = [pc |-> "dispatch", n |-> Len(accepted) - Len(queue) + 1,
                        next |-> 1, subs |-> Head(queue).subs]
            /\ queue' = Tail(queue)
    /\ UNCHANGED <<subscribers, nextID, closed, calls, history>>

\* dequeue: with an empty queue, wait or, once the bus is closed, exit.
Dequeue ==
    /\ loop.pc = "dequeue"
    /\ IF queue = <<>>
       THEN /\ loop' = [loop EXCEPT !.pc = IF closed THEN "exited" ELSE "waiting"]
            /\ UNCHANGED queue
       ELSE /\ loop' = [pc |-> "dispatch", n |-> Len(accepted) - Len(queue) + 1,
                        next |-> 1, subs |-> Head(queue).subs]
            /\ queue' = Tail(queue)
    /\ UNCHANGED <<subscribers, nextID, closed, calls, history>>

\* The next handler of the event is called, or the event is done.
CallNext ==
    /\ loop.pc = "dispatch"
    /\ IF loop.next <= Len(loop.subs)
       THEN /\ log' = Append(log, [n |-> loop.n, i |-> loop.next, sub |-> loop.subs[loop.next]])
            /\ loop' = [loop EXCEPT !.pc = "handler"]
       ELSE /\ loop' = [loop EXCEPT !.pc = "dequeue"]
            /\ UNCHANGED log
    /\ UNCHANGED <<busVars, calls, published, audience, accepted, panicked>>

\* Variant: the first handler is the last.
HandlerEndsEvent ==
    /\ loop.pc = "handler"
    /\ loop' = [loop EXCEPT !.pc = "dequeue"]
    /\ UNCHANGED <<busVars, calls, history>>

HandlerReturns ==
    /\ loop.pc = "handler"
    /\ loop' = [loop EXCEPT !.pc = "dispatch", !.next = @ + 1]
    /\ UNCHANGED <<busVars, calls, history>>

\* dispatchEvent recovers the panic: the handlers that are left are skipped.
HandlerPanics ==
    /\ loop.pc = "handler"
    /\ loop' = [loop EXCEPT !.pc = "dequeue"]
    /\ panicked' = panicked \cup {loop.n}
    /\ UNCHANGED <<busVars, calls, published, audience, accepted, log>>

\* A handler calls Close and waits for the goroutine it runs on.
HandlerCloses ==
    /\ loop.pc = "handler"
    /\ closed' = TRUE
    /\ loop' = [loop EXCEPT !.pc = "stuck"]
    /\ UNCHANGED <<subscribers, nextID, queue, calls, history>>

-----------------------------------------------------------------------------

Next ==
    \/ \E ty \in EventType :
          \/ Subscribe(ty)
          \/ \E i \in 1..Len(subscribers[ty]) : Unsubscribe(ty, i)
          \/ \E c \in Client, op \in {"publish", "enqueue"} : Snapshot(c, ty, op)
    \/ \E c \in Client : CallSync(c) \/ Enqueue(c) \/ Close(c) \/ CloseReturns(c)
    \/ Dequeue \/ CallNext \/ HandlerReturns \/ HandlerPanics \/ HandlerCloses

\* Calls under way go on, the dispatch goroutine runs, and handlers return.
Fairness ==
    /\ \A c \in Client : WF_vars(CallSync(c)) /\ WF_vars(Enqueue(c)) /\ WF_vars(CloseReturns(c))
    /\ WF_vars(Dequeue) /\ WF_vars(CallNext) /\ WF_vars(HandlerReturns)

Safety == Init /\ [][Next]_vars
Spec == Safety /\ Fairness

-----------------------------------------------------------------------------
(* Properties. *)

\* Every field has its type and the subscriptions named were made.
BusTypeOK ==
    /\ nextID \in 0..MaxSubs
    /\ published \in 0..MaxEvents
    /\ subscribers \in [EventType -> Seq(1..nextID)]
    /\ queue \in Seq(Entry)
    /\ closed \in BOOLEAN
    /\ loop \in Loop
    /\ calls \in [Client -> Call]
    /\ accepted \in Seq(Entry)
    /\ log \in Seq([n: Nat, i: Nat, sub: SubId])
    /\ panicked \subseteq Nat

\* Handler call x comes before y: an earlier event, or an earlier subscriber.
Before(x, y) == x.n < y.n \/ (x.n = y.n /\ x.i < y.i)

\* Asynchronous events are handled in the order in which the queue took them,
\* each by its subscribers in the order of subscription, and none twice.
DeliveredInOrder ==
    \A j, k \in 1..Len(log) : j < k => Before(log[j], log[k])

\* The handler calls made for entry n of the queue up to position `upto'.
Called(n, upto) ==
    \A i \in 1..upto : \E k \in 1..Len(log) :
        log[k].n = n /\ log[k].i = i /\ log[k].sub = accepted[n].subs[i]

\* Entry n has been handed to all it was published for, or a handler panicked.
Delivered(n) == n \in panicked \/ Called(n, Len(accepted[n].subs))

\* Taken off the queue, an event goes to all its subscribers before the next
\* event is taken.
NothingSkipped ==
    \A n \in 1..(Len(accepted) - Len(queue)) :
        Delivered(n) \/ (n = loop.n /\ loop.pc \in {"dispatch", "handler", "stuck"})

\* The handlers called for an event are those subscribed when it was
\* published: subscriptions that start or end between publication and
\* delivery make no difference.
ExactAudience ==
    \A n \in 1..Len(accepted) :
        LET e == accepted[n] IN
        {e.subs[i] : i \in 1..Len(e.subs)} =
            {s \in SubId : /\ e.type \in audience[s].types
                           /\ audience[s].since < e.event /\ e.event <= audience[s].until}

\* When the dispatch goroutine has exited, and Close can return, every event
\* the queue ever took has been delivered.
ExitDrains ==
    loop.pc = "exited" => closed /\ \A n \in 1..Len(accepted) : Delivered(n)

\* An event the queue took is delivered in the end: no wake-up of the dispatch
\* goroutine is lost.  (A handler that closes the bus blocks it for good.)
EventsGetDelivered ==
    \A n \in EventId :
        n <= Len(accepted) ~> loop.pc = "stuck" \/ (n <= Len(accepted) /\ Delivered(n))

\* Close returns, unless a handler on the dispatch goroutine called it too.
CloseCompletes ==
    \A c \in Client : calls[c].op = "close" ~> loop.pc = "stuck" \/ calls[c].op # "close"
=============================================================================
