--------------------------- MODULE EventBusProofs ---------------------------
(***************************************************************************)
(* The safety properties of EventBus, for any clients, event types and     *)
(* bounds: the queue loses and repeats nothing, keeps its order, and is    *)
(* empty when the dispatch goroutine exits.                                *)
(***************************************************************************)
EXTENDS EventBus, SequenceTheorems, TLAPS

Working == loop.pc \in {"dispatch", "handler", "stuck"}

\* Entries taken off the queue so far.
Taken == Len(accepted) - Len(queue)

\* The position up to which the handlers of the current entry were called.
Reached == IF loop.pc = "dispatch" THEN loop.next - 1 ELSE loop.next

\* The queue is the end of `accepted', and the dispatch goroutine works on the
\* entry before it.
QueueIsRest ==
    /\ Taken \in Nat
    /\ \A k \in 1..Len(queue) : queue[k] = accepted[Taken + k]
    /\ Working =>
          /\ loop.n = Taken /\ loop.n > 0
          /\ loop.subs = accepted[loop.n].subs
          /\ Reached \in 0..Len(loop.subs)

\* No handler has been called ahead of the dispatch goroutine.
LogIsBehind ==
    \A k \in 1..Len(log) :
        /\ log[k].n <= Taken
        /\ Working /\ log[k].n = loop.n => log[k].i <= Reached

\* The current entry has been handed out in order as far as it has got.
CurrentIsCalled == Working => Called(loop.n, Reached)

ExitsEmpty == loop.pc = "exited" => closed /\ queue = <<>>

\* The inductive invariant of the queue and the dispatch goroutine.
QueueInv ==
    /\ BusTypeOK
    /\ QueueIsRest
    /\ LogIsBehind
    /\ CurrentIsCalled
    /\ DeliveredInOrder
    /\ NothingSkipped
    /\ ExitsEmpty

\* A new bus satisfies it.
LEMMA InitQueue == Init => QueueInv
  <1> SUFFICES ASSUME Init PROVE QueueInv
    OBVIOUS
  <1>1. BusTypeOK
    <2>1. subscribers \in [EventType -> Seq(1..nextID)]
      BY DEF Init
    <2>2. queue \in Seq(Entry) /\ accepted \in Seq(Entry)
      BY DEF Init
    <2>3. loop \in Loop
      BY DEF Init, Loop
    <2>4. calls \in [Client -> Call]
      BY Zenon DEF Init, Call, Idle
    <2>5. log \in Seq([n: Nat, i: Nat, sub: SubId])
      BY DEF Init
    <2>6. nextID \in 0..MaxSubs /\ published \in 0..MaxEvents
      BY BusConstants DEF Init
    <2>7. closed \in BOOLEAN /\ panicked \subseteq Nat
      BY Zenon DEF Init
    <2> QED
      BY <2>1, <2>2, <2>3, <2>4, <2>5, <2>6, <2>7, Zenon DEF BusTypeOK
  <1>2. QueueIsRest /\ LogIsBehind /\ CurrentIsCalled /\ ExitsEmpty
    BY DEF Init, QueueIsRest, LogIsBehind, CurrentIsCalled, ExitsEmpty, Working, Taken
  <1>3. DeliveredInOrder /\ NothingSkipped
    BY DEF Init, DeliveredInOrder, NothingSkipped
  <1> QED
    BY <1>1, <1>2, <1>3, Zenon DEF QueueInv

-----------------------------------------------------------------------------
(* One lemma for each sort of step. *)

\* Steps that leave queue, dispatch goroutine and log alone.
LEMMA QueueUntouched ==
    ASSUME QueueInv, BusTypeOK', UNCHANGED <<queue, closed, loop, accepted, log, panicked>>
    PROVE  QueueInv'
  BY DEF QueueInv, QueueIsRest, LogIsBehind, CurrentIsCalled, DeliveredInOrder,
         NothingSkipped, ExitsEmpty, Working, Taken, Reached, Called, Delivered

\* Subscribe adds a handler to a list and touches nothing of the queue.
LEMMA SubscribeKeeps ==
    ASSUME QueueInv, NEW ty \in EventType, Subscribe(ty)
    PROVE  QueueInv'
  <1>1. \A u \in EventType : subscribers[u] \in Seq(1..nextID) /\ subscribers[u] \in Seq(1..nextID')
    BY BusConstants, SeqMonotonic DEF QueueInv, BusTypeOK, Subscribe
  <1>2. Append(subscribers[ty], nextID + 1) \in Seq(1..nextID')
    BY <1>1, AppendProperties, BusConstants DEF QueueInv, BusTypeOK, Subscribe
  <1>3. subscribers' \in [EventType -> Seq(1..nextID')]
    BY <1>1, <1>2, Zenon DEF QueueInv, BusTypeOK, Subscribe
  <1>4. BusTypeOK'
    BY <1>3, BusConstants DEF QueueInv, BusTypeOK, Subscribe
  <1> QED
    BY <1>4, QueueUntouched, Zenon DEF Subscribe

\* Taking one element out of a list.
LEMMA WithoutProperties ==
    ASSUME NEW S, NEW subs \in Seq(S), NEW i \in 1..Len(subs)
    PROVE  /\ Without(subs, i) \in Seq(S)
           /\ Len(Without(subs, i)) = Len(subs) - 1
           /\ \A j \in 1..(Len(subs) - 1) :
                 Without(subs, i)[j] = IF j < i THEN subs[j] ELSE subs[j + 1]
  <1> DEFINE a == SubSeq(subs, 1, i - 1)
             b == SubSeq(subs, i + 1, Len(subs))
  <1>0. Len(subs) \in Nat /\ \A j \in 1..Len(subs) : subs[j] \in S
    BY LenProperties, ElementOfSeq, Zenon
  <1>1. /\ a \in Seq(S) /\ Len(a) = i - 1
        /\ \A j \in 1..(i - 1) : a[j] = subs[j]
    <2>1. \A j \in 1..(i - 1) : subs[j] \in S
      BY <1>0
    <2>2. /\ a \in Seq(S) /\ Len(a) = IF 1 <= i - 1 THEN (i - 1) - 1 + 1 ELSE 0
          /\ \A j \in 1..((i - 1) - 1 + 1) : a[j] = subs[1 + j - 1]
      BY <2>1, <1>0, SubSeqProperties
    <2> QED
      BY <2>2, <1>0
  <1>2. /\ b \in Seq(S) /\ Len(b) = Len(subs) - i
        /\ \A j \in 1..(Len(subs) - i) : b[j] = subs[i + j]
    <2>1. \A j \in (i + 1)..Len(subs) : subs[j] \in S
      BY <1>0
    <2>2. /\ b \in Seq(S) /\ Len(b) = IF i + 1 <= Len(subs) THEN Len(subs) - (i + 1) + 1 ELSE 0
          /\ \A j \in 1..(Len(subs) - (i + 1) + 1) : b[j] = subs[(i + 1) + j - 1]
      BY <2>1, <1>0, SubSeqProperties
    <2> QED
      BY <2>2, <1>0
  <1>3. /\ a \o b \in Seq(S) /\ Len(a \o b) = Len(a) + Len(b)
        /\ \A j \in 1..(Len(a) + Len(b)) :
              (a \o b)[j] = IF j <= Len(a) THEN a[j] ELSE b[j - Len(a)]
    BY <1>1, <1>2, ConcatProperties, Zenon
  <1>4. Without(subs, i) = a \o b
    BY Zenon DEF Without
  <1> HIDE DEF a, b
  <1>5. Len(Without(subs, i)) = Len(subs) - 1
    BY <1>0, <1>1, <1>2, <1>3, <1>4
  <1>6. ASSUME NEW j \in 1..(Len(subs) - 1)
        PROVE  Without(subs, i)[j] = IF j < i THEN subs[j] ELSE subs[j + 1]
    <2>1. CASE j < i
      BY <2>1, <1>0, <1>1, <1>2, <1>3, <1>4
    <2>2. CASE ~(j < i)
      <3>1. Without(subs, i)[j] = b[j - (i - 1)]
        BY <2>2, <1>0, <1>1, <1>2, <1>3, <1>4, SMTT(30)
      <3>2. j - (i - 1) \in 1..(Len(subs) - i) /\ i + (j - (i - 1)) = j + 1
        BY <2>2, <1>0
      <3> QED
        BY <3>1, <3>2, <1>2, <2>2, Zenon
    <2> QED
      BY <2>1, <2>2, Zenon
  <1> QED
    BY <1>3, <1>4, <1>5, <1>6, Zenon

\* The unsubscribe function takes a handler out of its list only; events that
\* were published before keep their copy.
LEMMA UnsubscribeKeeps ==
    ASSUME QueueInv, NEW ty \in EventType, NEW i \in 1..Len(subscribers[ty]), Unsubscribe(ty, i)
    PROVE  QueueInv'
  <1>0. subscribers[ty] \in Seq(1..nextID)
    BY Zenon DEF QueueInv, BusTypeOK
  <1>1. Without(subscribers[ty], i) \in Seq(1..nextID)
    BY <1>0, WithoutProperties, Zenon
  <1>2. BusTypeOK'
    BY <1>1, Zenon DEF QueueInv, BusTypeOK, Unsubscribe
  <1> QED
    BY <1>2, QueueUntouched, Zenon DEF Unsubscribe

\* The first half of Publish and PublishAsync only copies the subscribers.
LEMMA SnapshotKeeps ==
    ASSUME QueueInv, NEW c \in Client, NEW ty \in EventType, NEW op \in {"publish", "enqueue"},
           Snapshot(c, ty, op)
    PROVE  QueueInv'
  <1> DEFINE entry == [event |-> published + 1, type |-> ty, subs |-> subscribers[ty]]
  <1>1. subscribers[ty] \in Seq(SubId)
    BY BusConstants, SeqMonotonic DEF QueueInv, BusTypeOK, SubId
  <1>2. entry \in Entry
    BY <1>1, BusConstants DEF QueueInv, BusTypeOK, Snapshot, Entry, EventId
  <1>3. [op |-> op, entry |-> entry] \in Call /\ Idle \in Call
    BY <1>2, Zenon DEF Call, Idle
  <1> HIDE DEF entry
  <1>4. calls' \in [Client -> Call]
    <2>1. calls' = [calls EXCEPT ![c] = IF subscribers[ty] = <<>> THEN Idle
                                        ELSE [op |-> op, entry |-> entry]]
      BY Zenon DEF Snapshot, entry
    <2>2. calls \in [Client -> Call]
      BY Zenon DEF QueueInv, BusTypeOK
    <2> QED
      BY <2>1, <2>2, <1>3, Zenon
  <1>5. BusTypeOK'
    BY <1>4, BusConstants DEF QueueInv, BusTypeOK, Snapshot, busVars
  <1> QED
    BY <1>5, QueueUntouched, Zenon DEF Snapshot, busVars

\* A call that publishes carries an entry.
LEMMA CallEntry ==
    ASSUME BusTypeOK, NEW c \in Client, calls[c].op \in {"publish", "enqueue"}
    PROVE  calls[c] \in [op: {"publish", "enqueue"}, entry: Entry]
  <1>1. calls[c] \in Call
    BY Zenon DEF BusTypeOK
  <1> QED
    BY <1>1 DEF Call

\* Publish calls its handlers without the queue.
LEMMA CallSyncKeeps ==
    ASSUME QueueInv, NEW c \in Client, CallSync(c)
    PROVE  QueueInv'
  <1>0. BusTypeOK /\ calls \in [Client -> Call]
    BY Zenon DEF QueueInv, BusTypeOK
  <1>1. calls[c] \in [op: {"publish", "enqueue"}, entry: Entry]
    BY <1>0, CallEntry, Zenon DEF CallSync
  <1>2. calls' \in [Client -> Call]
    <2>1. CASE calls' = [calls EXCEPT ![c] = Idle]
      BY <2>1, <1>0, Zenon DEF Call, Idle
    <2>2. CASE /\ Len(calls[c].entry.subs) > 1
               /\ calls' = [calls EXCEPT ![c].entry.subs = Tail(calls[c].entry.subs)]
      <3> DEFINE e == calls[c].entry
                 f == [e EXCEPT !.subs = Tail(e.subs)]
      <3>1. e \in Entry /\ e.subs \in Seq(SubId) /\ e.subs # <<>>
        BY <1>1, <2>2 DEF Entry
      <3>2. Tail(e.subs) \in Seq(SubId)
        BY <3>1, HeadTailProperties, Zenon
      <3>3. f \in Entry
        BY <3>1, <3>2, Zenon DEF Entry
      <3>4. [calls[c] EXCEPT !.entry = f] \in Call
        BY <3>3, <1>1, Zenon DEF Call
      <3>5. calls' = [calls EXCEPT ![c] = [calls[c] EXCEPT !.entry = f]]
        BY <2>2, <1>0, <1>1, Zenon
      <3> QED
        BY <3>4, <3>5, <1>0, Zenon
    <2> QED
      BY <2>1, <2>2, Zenon DEF CallSync
  <1>3. BusTypeOK'
    BY <1>2, Zenon DEF QueueInv, BusTypeOK, CallSync, busVars, history
  <1> QED
    BY <1>3, QueueUntouched, Zenon DEF CallSync, busVars, history

\* Going back to the idle state is all a call does to `calls'.
LEMMA IdleCalls ==
    ASSUME BusTypeOK, NEW c \in Client, calls' = [calls EXCEPT ![c] = Idle]
    PROVE  calls' \in [Client -> Call]
  BY Zenon DEF BusTypeOK, Call, Idle

\* Waking the dispatch goroutine moves it only if it waits.
LEMMA WokenLoop ==
    ASSUME BusTypeOK, loop' = Woken
    PROVE  /\ loop' \in Loop
           /\ loop'.n = loop.n /\ loop'.next = loop.next /\ loop'.subs = loop.subs
           /\ loop'.pc = loop.pc \/ (loop.pc = "waiting" /\ loop'.pc = "dequeue")
  BY Zenon DEF BusTypeOK, Loop, Woken

\* enqueue lengthens queue and `accepted' alike, or drops the event when the
\* bus is closed.
LEMMA EnqueueKeeps ==
    ASSUME QueueInv, NEW c \in Client, Enqueue(c)
    PROVE  QueueInv'
  <1> DEFINE e == calls[c].entry
  <1>0. BusTypeOK /\ calls' \in [Client -> Call]
    BY IdleCalls, Zenon DEF QueueInv, Enqueue
  <1>1. CASE closed
    <2>1. BusTypeOK'
      BY <1>0, <1>1, Zenon DEF BusTypeOK, Enqueue
    <2> QED
      BY <1>1, <2>1, QueueUntouched, Zenon DEF Enqueue
  <1>2. CASE ~closed
    <2>1. e \in Entry
      BY <1>0, CallEntry, Zenon DEF Enqueue
    <2>2. queue' = Append(queue, e) /\ accepted' = Append(accepted, e) /\ loop' = Woken
      BY <1>2, Zenon DEF Enqueue
    <2> HIDE DEF e
    <2>3. /\ queue \in Seq(Entry) /\ queue' \in Seq(Entry) /\ Len(queue) \in Nat
          /\ Len(queue') = Len(queue) + 1
          /\ \A k \in 1..Len(queue) : queue'[k] = queue[k]
          /\ queue'[Len(queue) + 1] = e
      BY <1>0, <2>1, <2>2, AppendProperties, LenProperties DEF BusTypeOK
    <2>4. /\ accepted \in Seq(Entry) /\ accepted' \in Seq(Entry) /\ Len(accepted) \in Nat
          /\ Len(accepted') = Len(accepted) + 1
          /\ \A k \in 1..Len(accepted) : accepted'[k] = accepted[k]
          /\ accepted'[Len(accepted) + 1] = e
      BY <1>0, <2>1, <2>2, AppendProperties, LenProperties DEF BusTypeOK
    <2>5. /\ loop' \in Loop /\ loop'.n = loop.n /\ loop'.next = loop.next
          /\ loop'.subs = loop.subs
          /\ loop'.pc = loop.pc \/ (loop.pc = "waiting" /\ loop'.pc = "dequeue")
      BY <1>0, <2>2, WokenLoop, Zenon
    <2>6. BusTypeOK'
      BY <1>0, <2>3, <2>4, <2>5, Zenon DEF BusTypeOK, Enqueue
    <2>7. Taken' = Taken /\ Taken \in Nat /\ Taken <= Len(accepted)
      BY <2>3, <2>4 DEF Taken, QueueInv, QueueIsRest
    <2>8. (Working' <=> Working) /\ (Working => Reached' = Reached)
      BY <2>5, Zenon DEF Working, Reached
    <2>9. QueueIsRest'
      <3>1. ASSUME NEW k \in 1..Len(queue') PROVE queue'[k] = accepted'[Taken' + k]
        <4>1. CASE k <= Len(queue)
          <5>1. queue'[k] = queue[k] /\ queue[k] = accepted[Taken + k]
            BY <4>1, <2>3 DEF QueueInv, QueueIsRest
          <5>2. Taken + k \in 1..Len(accepted)
            BY <4>1, <2>3, <2>4, <2>7 DEF Taken
          <5> QED
            BY <5>1, <5>2, <2>4, <2>7, Zenon
        <4>2. CASE k = Len(queue) + 1
          <5>1. Taken + k = Len(accepted) + 1
            BY <4>2, <2>3, <2>4 DEF Taken
          <5> QED
            BY <4>2, <5>1, <2>3, <2>4, <2>7, Zenon
        <4> QED
          BY <4>1, <4>2, <2>3
      <3>2. ASSUME Working'
            PROVE  /\ loop'.n = Taken' /\ loop'.n > 0
                   /\ loop'.subs = accepted'[loop'.n].subs
                   /\ Reached' \in 0..Len(loop'.subs)
        BY <3>2, <2>4, <2>5, <2>7, <2>8 DEF QueueInv, QueueIsRest
      <3> QED
        BY <2>7, <3>1, <3>2, Zenon DEF QueueIsRest
    <2>10. LogIsBehind'
      BY <2>5, <2>7, <2>8, Zenon DEF Enqueue, QueueInv, LogIsBehind
    <2>11. ASSUME NEW n \in 1..Taken, NEW upto PROVE Called(n, upto)' <=> Called(n, upto)
      <3>1. accepted'[n] = accepted[n] /\ log' = log
        BY <2>4, <2>7 DEF Enqueue
      <3> QED
        BY <3>1 DEF Called
    <2>12. CurrentIsCalled'
      BY <2>5, <2>7, <2>8, <2>11 DEF CurrentIsCalled, QueueInv, QueueIsRest
    <2>13. DeliveredInOrder'
      BY Zenon DEF DeliveredInOrder, QueueInv, Enqueue
    <2>14. NothingSkipped'
      <3> SUFFICES ASSUME NEW n \in 1..Taken
                   PROVE  Delivered(n)' \/ (n = loop'.n /\ Working')
        BY <2>7, Zenon DEF NothingSkipped, Taken, Working
      <3>1. Delivered(n) \/ (n = loop.n /\ Working)
        BY Zenon DEF QueueInv, NothingSkipped, Taken, Working
      <3>2. accepted'[n] = accepted[n] /\ panicked' = panicked
        BY <2>4, <2>7 DEF Enqueue
      <3>3. Delivered(n) => Delivered(n)'
        BY <3>2, <2>11, Zenon DEF Delivered
      <3> QED
        BY <3>1, <3>3, <2>5, <2>8, Zenon
    <2>15. ExitsEmpty'
      BY <1>2, <2>5, Zenon DEF ExitsEmpty, QueueInv
    <2> QED
      BY <2>6, <2>9, <2>10, <2>12, <2>13, <2>14, <2>15, Zenon DEF QueueInv
  <1> QED
    BY <1>1, <1>2, Zenon

\* Close marks the bus and may wake the dispatch goroutine.
LEMMA CloseKeeps ==
    ASSUME QueueInv, NEW c \in Client, Close(c)
    PROVE  QueueInv'
  <1>1. calls' \in [Client -> Call]
    BY Zenon DEF QueueInv, BusTypeOK, Close, Call
  <1>2. /\ loop' \in Loop /\ loop'.n = loop.n /\ loop'.next = loop.next
        /\ loop'.subs = loop.subs
        /\ loop'.pc = loop.pc \/ (loop.pc = "waiting" /\ loop'.pc = "dequeue")
    <2>1. CASE loop' = loop
      BY <2>1, Zenon DEF QueueInv, BusTypeOK
    <2>2. CASE loop' = Woken
      BY <2>2, WokenLoop, Zenon DEF QueueInv
    <2> QED
      BY <2>1, <2>2, Zenon DEF Close
  <1>3. BusTypeOK'
    BY <1>1, <1>2, Zenon DEF QueueInv, BusTypeOK, Close, history
  <1>4. UNCHANGED <<queue, accepted, log, panicked>> /\ closed' = TRUE
    BY Zenon DEF Close, history
  <1>5. (Working' <=> Working) /\ (Working => Reached' = Reached) /\ Taken' = Taken
    BY <1>2, <1>4, Zenon DEF Working, Reached, Taken
  <1>6. QueueIsRest' /\ LogIsBehind'
    BY <1>2, <1>4, <1>5, Zenon DEF QueueInv, QueueIsRest, LogIsBehind
  <1>7. CurrentIsCalled' /\ DeliveredInOrder' /\ ExitsEmpty'
    BY <1>2, <1>4, <1>5 DEF QueueInv, CurrentIsCalled, DeliveredInOrder, ExitsEmpty, Called
  <1>8. NothingSkipped'
    <2> SUFFICES ASSUME NEW n \in 1..Taken
                 PROVE  Delivered(n)' \/ (n = loop'.n /\ Working')
      BY <1>5, Zenon DEF NothingSkipped, Taken, Working
    <2>1. Delivered(n) \/ (n = loop.n /\ Working)
      BY DEF QueueInv, NothingSkipped, Taken, Working
    <2>2. Delivered(n)' <=> Delivered(n)
      BY <1>4, Zenon DEF Delivered, Called
    <2> QED
      BY <2>1, <2>2, <1>2, <1>5, Zenon
  <1> QED
    BY <1>3, <1>6, <1>7, <1>8, Zenon DEF QueueInv

\* The return of Close changes only the caller.
LEMMA CloseReturnsKeeps ==
    ASSUME QueueInv, NEW c \in Client, CloseReturns(c)
    PROVE  QueueInv'
  <1>1. calls' \in [Client -> Call]
    BY IdleCalls, Zenon DEF QueueInv, CloseReturns
  <1>2. BusTypeOK'
    BY <1>1, Zenon DEF QueueInv, BusTypeOK, CloseReturns, busVars, history
  <1> QED
    BY <1>2, QueueUntouched, Zenon DEF CloseReturns, busVars, history

-----------------------------------------------------------------------------
(* The dispatch goroutine. *)

\* dequeue takes the entry after the last one taken, waits, or exits with the
\* queue empty.
LEMMA DequeueKeeps ==
    ASSUME QueueInv, Dequeue
    PROVE  QueueInv'
  <1>0. /\ BusTypeOK /\ loop.pc = "dequeue" /\ ~Working
        /\ UNCHANGED <<subscribers, nextID, closed, calls, published, accepted, log, panicked>>
    BY Zenon DEF QueueInv, Dequeue, Working, history
  <1>1. /\ queue \in Seq(Entry) /\ accepted \in Seq(Entry) /\ loop \in Loop
        /\ Len(queue) \in Nat /\ Len(accepted) \in Nat /\ Taken \in Nat
    BY <1>0, LenProperties, Zenon DEF BusTypeOK, QueueInv, QueueIsRest
  <1>2. CASE queue = <<>>
    <2>1. /\ queue' = queue
          /\ loop' = [loop EXCEPT !.pc = IF closed THEN "exited" ELSE "waiting"]
      BY <1>2, Zenon DEF Dequeue
    <2>2. /\ loop' \in Loop /\ ~Working'
          /\ loop'.pc = "exited" => closed
      BY <1>1, <2>1, Zenon DEF Loop, Working
    <2>3. BusTypeOK'
      BY <1>0, <2>1, <2>2, Zenon DEF BusTypeOK
    <2>4. QueueIsRest' /\ LogIsBehind'
      BY <1>0, <2>1, <2>2, Zenon DEF QueueInv, QueueIsRest, LogIsBehind, Taken
    <2>5. CurrentIsCalled' /\ DeliveredInOrder' /\ ExitsEmpty'
      BY <1>0, <1>2, <2>1, <2>2, Zenon DEF QueueInv, CurrentIsCalled, DeliveredInOrder, ExitsEmpty
    <2>6. NothingSkipped'
      BY <1>0, <2>1 DEF QueueInv, NothingSkipped, Delivered, Called
    <2> QED
      BY <2>3, <2>4, <2>5, <2>6, Zenon DEF QueueInv
  <1>3. CASE queue # <<>>
    <2>1. /\ queue' = Tail(queue)
          /\ loop' = [pc |-> "dispatch", n |-> Taken + 1, next |-> 1, subs |-> Head(queue).subs]
      BY <1>3, Zenon DEF Dequeue, Taken
    <2>2. /\ queue' \in Seq(Entry) /\ Len(queue') = Len(queue) - 1
          /\ \A k \in 1..Len(queue') : queue'[k] = queue[k + 1]
          /\ Head(queue) = queue[1] /\ Head(queue) \in Entry /\ Len(queue) > 0
      BY <1>1, <1>3, <2>1, HeadTailProperties
    <2>3. Head(queue).subs \in Seq(SubId) /\ Len(Head(queue).subs) \in Nat
      BY <2>2, LenProperties, Zenon DEF Entry
    <2>4. Taken' = Taken + 1 /\ Taken + 1 <= Len(accepted)
      BY <1>0, <1>1, <2>2 DEF Taken
    <2>5. Head(queue) = accepted[Taken + 1]
      BY <1>1, <2>2 DEF QueueInv, QueueIsRest
    <2>6. /\ loop' \in Loop /\ Working' /\ Reached' = 0 /\ loop'.n = Taken'
          /\ loop'.subs = accepted'[loop'.n].subs /\ loop'.pc = "dispatch"
      BY <1>0, <1>1, <2>1, <2>3, <2>4, <2>5 DEF Loop, Working, Reached
    <2>7. BusTypeOK'
      BY <1>0, <2>2, <2>6, Zenon DEF BusTypeOK
    <2>8. QueueIsRest'
      <3>1. ASSUME NEW k \in 1..Len(queue') PROVE queue'[k] = accepted'[Taken' + k]
        <4>1. k + 1 \in 1..Len(queue) /\ Taken' + k = Taken + (k + 1)
          BY <1>1, <2>2, <2>4
        <4>2. queue[k + 1] = accepted[Taken + (k + 1)]
          BY <4>1, Zenon DEF QueueInv, QueueIsRest
        <4> QED
          BY <4>1, <4>2, <2>2, <1>0, Zenon
      <3>2. Taken' \in Nat /\ loop'.n > 0 /\ Reached' \in 0..Len(loop'.subs)
        BY <1>1, <2>1, <2>3, <2>4, <2>6
      <3> QED
        BY <3>1, <3>2, <2>6, Zenon DEF QueueIsRest
    <2>9. LogIsBehind'
      <3> SUFFICES ASSUME NEW k \in 1..Len(log)
                   PROVE  log[k].n <= Taken' /\ log[k].n # loop'.n
        BY <1>0, Zenon DEF LogIsBehind
      <3>1. log[k].n <= Taken
        BY Zenon DEF QueueInv, LogIsBehind
      <3>2. log[k].n \in Nat
        <4>1. log[k] \in [n: Nat, i: Nat, sub: SubId]
          BY <1>0, ElementOfSeq, Zenon DEF BusTypeOK
        <4> QED
          BY <4>1, Zenon
      <3> QED
        BY <3>1, <3>2, <1>1, <2>4, <2>6
    <2>10. CurrentIsCalled' /\ DeliveredInOrder' /\ ExitsEmpty'
      BY <1>0, <2>6 DEF QueueInv, CurrentIsCalled, DeliveredInOrder, ExitsEmpty, Called
    <2>11. NothingSkipped'
      <3> SUFFICES ASSUME NEW n \in 1..Taken'
                   PROVE  Delivered(n)' \/ (n = loop'.n /\ Working')
        BY Zenon DEF NothingSkipped, Taken, Working
      <3>1. CASE n = Taken'
        BY <3>1, <2>6, Zenon
      <3>2. CASE n \in 1..Taken
        <4>1. Delivered(n)
          BY <3>2, <1>0, Zenon DEF QueueInv, NothingSkipped, Taken, Working
        <4> QED
          BY <4>1, <1>0, Zenon DEF Delivered, Called
      <3> QED
        BY <3>1, <3>2, <1>1, <2>4
    <2> QED
      BY <2>7, <2>8, <2>9, <2>10, <2>11, Zenon DEF QueueInv
  <1> QED
    BY <1>2, <1>3, Zenon

\* What has been called stays called when the log only grows.
LEMMA CallsStay ==
    ASSUME BusTypeOK, accepted' = accepted, panicked \subseteq panicked',
           \/ log' = log
           \/ \E r \in [n: Nat, i: Nat, sub: SubId] : log' = Append(log, r)
    PROVE  /\ \A n, upto : Called(n, upto) => Called(n, upto)'
           /\ \A n : Delivered(n) => Delivered(n)'
  <1>1. /\ Len(log) \in Nat /\ Len(log') \in Nat /\ Len(log) <= Len(log')
        /\ \A k \in 1..Len(log) : log'[k] = log[k]
    <2>1. CASE log' = log
      BY <2>1, LenProperties DEF BusTypeOK
    <2>2. CASE \E r \in [n: Nat, i: Nat, sub: SubId] : log' = Append(log, r)
      BY <2>2, AppendProperties, LenProperties DEF BusTypeOK
    <2> QED
      BY <2>1, <2>2, Zenon
  <1>2. ASSUME NEW n, NEW upto, Called(n, upto) PROVE Called(n, upto)'
    <2> SUFFICES ASSUME NEW i \in 1..upto
                 PROVE  \E k \in 1..Len(log') : /\ log'[k].n = n /\ log'[k].i = i
                                                 /\ log'[k].sub = accepted'[n].subs[i]
      BY Zenon DEF Called
    <2>1. PICK k \in 1..Len(log) : log[k].n = n /\ log[k].i = i /\ log[k].sub = accepted[n].subs[i]
      BY <1>2, Zenon DEF Called
    <2>2. k \in 1..Len(log') /\ log'[k] = log[k]
      BY <1>1
    <2> QED
      BY <2>1, <2>2, Zenon
  <1>3. ASSUME NEW n, Delivered(n) PROVE Delivered(n)'
    BY <1>2, <1>3, Zenon DEF Delivered
  <1> QED
    BY <1>2, <1>3, Zenon

\* dispatchSubscribers calls the handler after the last one called, or is done
\* with the entry when all were called.
LEMMA CallNextKeeps ==
    ASSUME QueueInv, CallNext
    PROVE  QueueInv'
  <1>0. /\ BusTypeOK /\ loop.pc = "dispatch" /\ Working
        /\ UNCHANGED <<subscribers, nextID, queue, closed, calls, published, accepted, panicked>>
    BY Zenon DEF QueueInv, CallNext, Working, busVars
  <1>1. /\ loop \in Loop /\ loop.n \in Nat /\ loop.next \in Nat /\ loop.subs \in Seq(SubId)
        /\ Len(loop.subs) \in Nat
    BY <1>0, LenProperties, Zenon DEF BusTypeOK, Loop
  <1>2. /\ loop.n = Taken /\ loop.n > 0 /\ loop.subs = accepted[loop.n].subs
        /\ Reached = loop.next - 1 /\ loop.next - 1 \in 0..Len(loop.subs)
    BY <1>0, Zenon DEF QueueInv, QueueIsRest, Reached
  <1>3. Taken' = Taken /\ Taken \in Nat
    BY <1>0, Zenon DEF Taken, QueueInv, QueueIsRest
  <1>4. Called(loop.n, loop.next - 1)
    BY <1>0, <1>2, Zenon DEF QueueInv, CurrentIsCalled
  <1>5. CASE loop.next <= Len(loop.subs)
    <2> DEFINE r == [n |-> loop.n, i |-> loop.next, sub |-> loop.subs[loop.next]]
    <2>1. log' = Append(log, r) /\ loop' = [loop EXCEPT !.pc = "handler"]
      BY <1>5, Zenon DEF CallNext
    <2>2. r \in [n: Nat, i: Nat, sub: SubId]
      <3>1. loop.next \in 1..Len(loop.subs)
        BY <1>1, <1>2, <1>5
      <3>2. loop.subs[loop.next] \in SubId
        BY <1>1, <3>1, ElementOfSeq, Zenon
      <3> QED
        BY <1>1, <3>2, Zenon
    <2>3. r.n = loop.n /\ r.i = loop.next /\ r.sub = accepted[loop.n].subs[loop.next]
      BY <1>2, Zenon
    <2> HIDE DEF r
    <2>4. /\ loop' \in Loop /\ loop'.pc = "handler" /\ loop'.n = loop.n
          /\ loop'.next = loop.next /\ loop'.subs = loop.subs
          /\ Working' /\ Reached' = loop.next
      BY <1>1, <2>1, Zenon DEF Loop, Working, Reached
    <2>5. /\ log' \in Seq([n: Nat, i: Nat, sub: SubId])
          /\ Len(log) \in Nat /\ Len(log') = Len(log) + 1 /\ log'[Len(log) + 1] = r
          /\ \A k \in 1..Len(log) : log'[k] = log[k]
      BY <1>0, <2>1, <2>2, AppendProperties, LenProperties DEF BusTypeOK
    <2>6. BusTypeOK'
      BY <1>0, <2>4, <2>5, Zenon DEF BusTypeOK
    <2>7. QueueIsRest' /\ ExitsEmpty'
      <3>1. Reached' \in 0..Len(loop'.subs)
        BY <1>1, <1>5, <2>4
      <3> QED
        BY <1>0, <1>2, <1>3, <2>4, <3>1, Zenon DEF QueueInv, QueueIsRest, ExitsEmpty
    <2>8. ASSUME NEW k \in 1..Len(log)
          PROVE  /\ log[k].n \in Nat /\ log[k].i \in Nat /\ log[k].n <= Taken
                 /\ log[k].n = loop.n => log[k].i <= loop.next - 1
      <3>1. log[k] \in [n: Nat, i: Nat, sub: SubId]
        BY <1>0, ElementOfSeq, Zenon DEF BusTypeOK
      <3>2. log[k].n <= Taken /\ (log[k].n = loop.n => log[k].i <= loop.next - 1)
        BY <1>0, <1>2, Zenon DEF QueueInv, LogIsBehind
      <3> QED
        BY <3>1, <3>2, Zenon
    <2>9. LogIsBehind'
      <3> SUFFICES ASSUME NEW k \in 1..Len(log')
                   PROVE  /\ log'[k].n <= Taken'
                          /\ log'[k].n = loop'.n => log'[k].i <= Reached'
        BY Zenon DEF LogIsBehind
      <3>1. CASE k \in 1..Len(log)
        <4>1. log'[k] = log[k]
          BY <3>1, <2>5, Zenon
        <4>2. /\ log[k].n \in Nat /\ log[k].i \in Nat /\ log[k].n <= Taken
              /\ log[k].n = loop.n => log[k].i <= loop.next - 1
          BY <3>1, <2>8, Zenon
        <4>3. log[k].n = loop.n => log[k].i <= loop.next
          BY <4>2, <1>1
        <4> QED
          BY <4>1, <4>2, <4>3, <2>4, <1>3, Zenon
      <3>2. CASE k = Len(log) + 1
        BY <3>2, <2>5, <2>3, <2>4, <1>1, <1>2, <1>3
      <3> QED
        BY <3>1, <3>2, <2>5
    <2>10. \A n, upto : Called(n, upto) => Called(n, upto)'
      BY <1>0, <2>1, <2>2, CallsStay, Zenon
    <2>11. CurrentIsCalled'
      <3> SUFFICES ASSUME NEW i \in 1..loop.next
                   PROVE  \E k \in 1..Len(log') : /\ log'[k].n = loop.n /\ log'[k].i = i
                                                   /\ log'[k].sub = accepted'[loop.n].subs[i]
        BY <2>4 DEF CurrentIsCalled, Called
      <3>1. CASE i \in 1..(loop.next - 1)
        <4>1. Called(loop.n, loop.next - 1)'
          BY <1>0, <1>4, <2>4, <2>10, Zenon
        <4> QED
          BY <3>1, <4>1, <2>4 DEF Called
      <3>2. CASE i = loop.next
        BY <3>2, <2>3, <2>5, <1>0
      <3> QED
        BY <3>1, <3>2, <1>1
    <2>12. DeliveredInOrder'
      <3> SUFFICES ASSUME NEW j \in 1..Len(log'), NEW k \in 1..Len(log'), j < k
                   PROVE  Before(log'[j], log'[k])
        BY Zenon DEF DeliveredInOrder, Before
      <3>0. Len(log) \in Nat /\ Len(log') = Len(log) + 1
        BY <2>5, Zenon
      <3>a. j \in 1..Len(log) /\ (k \in 1..Len(log) \/ k = Len(log) + 1)
        BY <3>0
      <3>1. j \in 1..Len(log) /\ log'[j] = log[j]
        BY <3>a, <2>5, Zenon
      <3>2. CASE k \in 1..Len(log)
        BY <3>1, <3>2, <2>5, Zenon DEF QueueInv, DeliveredInOrder
      <3>3. CASE k = Len(log) + 1
        <4>1. log'[k] = r
          BY <3>3, <2>5, Zenon
        <4>2. /\ log[j].n \in Nat /\ log[j].i \in Nat /\ log[j].n <= Taken
              /\ log[j].n = loop.n => log[j].i <= loop.next - 1
          BY <3>1, <2>8, Zenon
        <4>3. Before(log[j], r)
          BY <4>2, <2>3, <1>1, <1>2, SMTT(30) DEF Before
        <4> QED
          BY <3>1, <4>1, <4>3, Zenon
      <3> QED
        BY <3>a, <3>2, <3>3, Zenon
    <2>13. NothingSkipped'
      <3> SUFFICES ASSUME NEW n \in 1..Taken
                   PROVE  Delivered(n)' \/ (n = loop'.n /\ Working')
        BY <1>3, Zenon DEF NothingSkipped, Taken, Working
      <3>1. Delivered(n) \/ n = loop.n
        BY Zenon DEF QueueInv, NothingSkipped, Taken
      <3>2. Delivered(n) => Delivered(n)'
        BY <1>0, <2>1, <2>2, CallsStay, Zenon
      <3> QED
        BY <3>1, <3>2, <2>4, Zenon
    <2> QED
      BY <2>6, <2>7, <2>9, <2>11, <2>12, <2>13, Zenon DEF QueueInv
  <1>6. CASE ~(loop.next <= Len(loop.subs))
    <2>1. log' = log /\ loop' = [loop EXCEPT !.pc = "dequeue"]
      BY <1>6, Zenon DEF CallNext
    <2>2. loop' \in Loop /\ loop'.pc = "dequeue" /\ ~Working'
      BY <1>1, <2>1, Zenon DEF Loop, Working
    <2>3. BusTypeOK'
      BY <1>0, <2>1, <2>2, Zenon DEF BusTypeOK
    <2>4. QueueIsRest' /\ LogIsBehind' /\ CurrentIsCalled' /\ ExitsEmpty'
      BY <1>0, <1>3, <2>1, <2>2, Zenon
      DEF QueueInv, QueueIsRest, LogIsBehind, CurrentIsCalled, ExitsEmpty
    <2>5. DeliveredInOrder'
      BY <2>1, Zenon DEF QueueInv, DeliveredInOrder
    <2>6. NothingSkipped'
      <3> SUFFICES ASSUME NEW n \in 1..Taken PROVE Delivered(n)'
        BY <1>3, Zenon DEF NothingSkipped, Taken
      <3>1. Delivered(n) \/ n = loop.n
        BY DEF QueueInv, NothingSkipped, Taken
      <3>2. loop.next - 1 = Len(accepted[loop.n].subs)
        BY <1>1, <1>2, <1>6
      <3>3. Delivered(n)
        BY <3>1, <3>2, <1>4, Zenon DEF Delivered
      <3> QED
        BY <3>3, <1>0, <2>1, CallsStay, Zenon
    <2> QED
      BY <2>3, <2>4, <2>5, <2>6, Zenon DEF QueueInv
  <1> QED
    BY <1>5, <1>6, Zenon

\* The two ways in which a handler goes on or stops for good.
LEMMA HandlerKeeps ==
    ASSUME QueueInv, HandlerReturns \/ HandlerCloses
    PROVE  QueueInv'
  <1>0. /\ BusTypeOK /\ loop.pc = "handler" /\ Working
        /\ UNCHANGED <<subscribers, nextID, queue, calls, published, accepted, log, panicked>>
        /\ closed' \in {closed, TRUE}
    BY Zenon DEF QueueInv, HandlerReturns, HandlerCloses, Working, busVars, history
  <1>1. loop \in Loop
    BY <1>0, Zenon DEF BusTypeOK
  <1>2. \/ loop' = [loop EXCEPT !.pc = "dispatch", !.next = loop.next + 1]
        \/ loop' = [loop EXCEPT !.pc = "stuck"]
    BY Zenon DEF HandlerReturns, HandlerCloses
  <1>3. /\ loop' \in Loop /\ loop'.pc \in {"dispatch", "stuck"} /\ loop'.n = loop.n
        /\ loop'.subs = loop.subs /\ Working' /\ Reached' = Reached
    <2>1. CASE loop' = [loop EXCEPT !.pc = "dispatch", !.next = loop.next + 1]
      <3>1. /\ loop' \in Loop /\ loop'.pc = "dispatch" /\ loop'.n = loop.n
            /\ loop'.subs = loop.subs /\ loop.next \in Nat /\ loop'.next = loop.next + 1
        <4>1. loop = [pc |-> loop.pc, n |-> loop.n, next |-> loop.next, subs |-> loop.subs]
          BY <1>1, Zenon DEF Loop
        <4>2. loop' = [pc |-> "dispatch", n |-> loop.n, next |-> loop.next + 1, subs |-> loop.subs]
          BY <4>1, <2>1, Zenon
        <4>3. loop.n \in Nat /\ loop.next \in Nat /\ loop.subs \in Seq(SubId)
          BY <1>1, Zenon DEF Loop
        <4> QED
          BY <4>2, <4>3 DEF Loop
      <3> QED
        BY <3>1, <1>0 DEF Working, Reached
    <2>2. CASE loop' = [loop EXCEPT !.pc = "stuck"]
      BY <2>2, <1>0, <1>1, Zenon DEF Loop, Working, Reached
    <2> QED
      BY <2>1, <2>2, <1>2, Zenon
  <1>4. Taken' = Taken
    BY <1>0, Zenon DEF Taken
  <1>5. BusTypeOK'
    BY <1>0, <1>3, Zenon DEF BusTypeOK
  <1>6. QueueIsRest' /\ LogIsBehind' /\ ExitsEmpty'
    BY <1>0, <1>3, <1>4, Zenon DEF QueueInv, QueueIsRest, LogIsBehind, ExitsEmpty
  <1>7. CurrentIsCalled' /\ DeliveredInOrder'
    BY <1>0, <1>3 DEF QueueInv, CurrentIsCalled, DeliveredInOrder, Called
  <1>8. NothingSkipped'
    <2> SUFFICES ASSUME NEW n \in 1..Taken
                 PROVE  Delivered(n)' \/ (n = loop'.n /\ Working')
      BY <1>4, Zenon DEF NothingSkipped, Taken, Working
    <2>1. Delivered(n) \/ n = loop.n
      BY Zenon DEF QueueInv, NothingSkipped, Taken
    <2>2. Delivered(n) => Delivered(n)'
      BY <1>0, CallsStay, Zenon
    <2> QED
      BY <2>1, <2>2, <1>3, Zenon
  <1> QED
    BY <1>5, <1>6, <1>7, <1>8, Zenon DEF QueueInv

\* A panic ends the entry, which is counted as panicked.
LEMMA HandlerPanicsKeeps ==
    ASSUME QueueInv, HandlerPanics
    PROVE  QueueInv'
  <1>0. /\ BusTypeOK /\ loop.pc = "handler" /\ Working
        /\ UNCHANGED <<subscribers, nextID, queue, closed, calls, published, accepted, log>>
        /\ panicked' = panicked \cup {loop.n} /\ loop' = [loop EXCEPT !.pc = "dequeue"]
    BY Zenon DEF QueueInv, HandlerPanics, Working, busVars
  <1>1. loop \in Loop /\ loop.n \in Nat
    BY <1>0, Zenon DEF BusTypeOK, Loop
  <1>2. loop' \in Loop /\ loop'.pc = "dequeue" /\ ~Working'
    BY <1>0, <1>1, Zenon DEF Loop, Working
  <1>3. BusTypeOK'
    BY <1>0, <1>1, <1>2, Zenon DEF BusTypeOK
  <1>4. Taken' = Taken
    BY <1>0, Zenon DEF Taken
  <1>5. QueueIsRest' /\ LogIsBehind' /\ CurrentIsCalled' /\ ExitsEmpty' /\ DeliveredInOrder'
    BY <1>0, <1>2, <1>4, Zenon
    DEF QueueInv, QueueIsRest, LogIsBehind, CurrentIsCalled, ExitsEmpty, DeliveredInOrder
  <1>6. NothingSkipped'
    <2> SUFFICES ASSUME NEW n \in 1..Taken PROVE Delivered(n)'
      BY <1>4, Zenon DEF NothingSkipped, Taken
    <2>1. Delivered(n) \/ n = loop.n
      BY DEF QueueInv, NothingSkipped, Taken
    <2>2. CASE n = loop.n
      BY <2>2, <1>0, Zenon DEF Delivered
    <2>3. CASE Delivered(n)
      BY <2>3, <1>0, CallsStay, Zenon
    <2> QED
      BY <2>1, <2>2, <2>3, Zenon
  <1> QED
    BY <1>3, <1>5, <1>6, Zenon DEF QueueInv

-----------------------------------------------------------------------------
(* Who hears an event. *)

\* The subscriptions that lived when event e was published.
Audience(e) ==
    {s \in SubId : /\ e.type \in audience[s].types
                   /\ audience[s].since < e.event /\ e.event <= audience[s].until}

\* Entry e carries exactly its audience, and belongs to the past.
Exact(e) ==
    /\ e.event <= published
    /\ {e.subs[i] : i \in 1..Len(e.subs)} = Audience(e)

Lives == [since: 0..MaxEvents, until: 0..MaxEvents, types: SUBSET EventType]

In(s, list) == \E i \in 1..Len(list) : list[i] = s
NoRepeats(list) == \A i, j \in 1..Len(list) : i # j => list[i] # list[j]

\* A subscription in a list is there once, under its type, and has not ended;
\* one that is in no list has ended or has not begun.
ListsAreLiving ==
    /\ audience \in [SubId -> Lives]
    /\ \A s \in SubId : s > nextID => audience[s].types = {}
    /\ \A ty \in EventType : NoRepeats(subscribers[ty])
    /\ \A ty \in EventType, s \in SubId : In(s, subscribers[ty]) =>
          audience[s].types = {ty} /\ audience[s].until = MaxEvents /\ audience[s].since <= published
    /\ \A s \in SubId : \A ty \in audience[s].types :
          audience[s].until <= published \/ In(s, subscribers[ty])

\* The inductive invariant of the subscriptions: the copies that wait in a
\* PublishAsync call or were taken by the queue are exact.
AudienceInv ==
    /\ ListsAreLiving
    /\ \A n \in 1..Len(accepted) : Exact(accepted[n])
    /\ \A c \in Client : calls[c].op = "enqueue" => Exact(calls[c].entry)

\* What a step may do to the life of a subscription without changing who was
\* subscribed in the past: begin it, or end it.
LivesGoOn ==
    /\ published \in 0..MaxEvents /\ published' \in 0..MaxEvents /\ published <= published'
    /\ \A s \in SubId :
          \/ audience'[s] = audience[s]
          \/ audience[s].types = {} /\ audience'[s].since = published
          \/ /\ audience[s].until = MaxEvents
             /\ audience'[s].types = audience[s].types /\ audience'[s].since = audience[s].since
             /\ audience'[s].until = published

\* The audience of a past event never changes.
LEMMA ExactStays ==
    ASSUME NEW e \in Entry, Exact(e), LivesGoOn
    PROVE  Exact(e)'
  <1>1. e.event \in Nat /\ e.event <= published /\ e.event <= published' /\ e.event <= MaxEvents
    BY BusConstants DEF Exact, LivesGoOn, Entry, EventId
  <1>2. \A s \in SubId : s \in Audience(e) <=> s \in Audience(e)'
    BY <1>1, BusConstants DEF Audience, LivesGoOn
  <1>3. Audience(e) = Audience(e)'
    BY <1>2, Zenon DEF Audience
  <1> QED
    BY <1>1, <1>3, Zenon DEF Exact

\* Steps that leave the subscriptions and the events taken alone, and at most
\* make a call idle or start one that does not publish asynchronously.
LEMMA AudienceUntouched ==
    ASSUME AudienceInv, BusTypeOK, UNCHANGED <<subscribers, nextID, published, audience, accepted>>,
           \A c \in Client : calls'[c] = calls[c] \/ calls'[c].op # "enqueue"
    PROVE  AudienceInv'
  <1>1. ListsAreLiving'
    BY Zenon DEF AudienceInv, ListsAreLiving
  <1>2. \A e : Exact(e)' <=> Exact(e)
    BY Zenon DEF Exact, Audience
  <1> QED
    BY <1>1, <1>2, Zenon DEF AudienceInv

\* The entries under way are entries.
LEMMA EntriesTyped ==
    ASSUME BusTypeOK
    PROVE  /\ \A n \in 1..Len(accepted) : accepted[n] \in Entry
           /\ \A c \in Client : calls[c].op = "enqueue" => calls[c].entry \in Entry
  <1>1. \A n \in 1..Len(accepted) : accepted[n] \in Entry
    BY ElementOfSeq, Zenon DEF BusTypeOK
  <1> QED
    BY <1>1, CallEntry, Zenon

\* Steps that only change subscriptions.
LEMMA AudienceLists ==
    ASSUME AudienceInv, BusTypeOK, ListsAreLiving', LivesGoOn, UNCHANGED <<calls, accepted>>
    PROVE  AudienceInv'
  <1>1. \A n \in 1..Len(accepted) : Exact(accepted[n])'
    BY EntriesTyped, ExactStays, Zenon DEF AudienceInv
  <1>2. ASSUME NEW c \in Client, calls[c].op = "enqueue" PROVE Exact(calls[c].entry)'
    <2>1. calls[c].entry \in Entry /\ Exact(calls[c].entry)
      BY <1>2, EntriesTyped, Zenon DEF AudienceInv
    <2>2. Exact(calls[c].entry)'
      BY <2>1, ExactStays, Zenon
    <2> QED
      BY <2>2, Zenon
  <1> QED
    BY <1>1, <1>2, Zenon DEF AudienceInv

\* A new element at the end of a list.
LEMMA AppendList ==
    ASSUME NEW S, NEW list \in Seq(S), NEW x, ~In(x, list), NoRepeats(list)
    PROVE  /\ NoRepeats(Append(list, x))
           /\ \A s : In(s, Append(list, x)) <=> In(s, list) \/ s = x
  <1> DEFINE new == Append(list, x)
  <1>1. Len(list) \in Nat /\ Len(new) = Len(list) + 1
        /\ (\A i \in 1..Len(list) : new[i] = list[i]) /\ new[Len(list) + 1] = x
    <2>1. list \in Seq(S \cup {x}) /\ x \in S \cup {x}
      BY SeqMonotonic, Zenon
    <2> QED
      BY <2>1, AppendProperties, LenProperties
  <1> HIDE DEF new
  <1>2. NoRepeats(new)
    BY <1>1 DEF NoRepeats, In
  <1>3. \A s : In(s, new) <=> In(s, list) \/ s = x
    <2>1. Len(list) + 1 \in 1..Len(new)
      BY <1>1
    <2> QED
      BY <1>1, <2>1 DEF In
  <1> QED
    BY <1>2, <1>3, Zenon DEF new

\* One element less.
LEMMA WithoutList ==
    ASSUME NEW S, NEW list \in Seq(S), NEW i \in 1..Len(list), NoRepeats(list)
    PROVE  /\ NoRepeats(Without(list, i))
           /\ \A s : In(s, Without(list, i)) <=> In(s, list) /\ s # list[i]
  <1> DEFINE rest == Without(list, i)
  <1>1. /\ Len(list) \in Nat /\ Len(rest) = Len(list) - 1
        /\ \A j \in 1..(Len(list) - 1) : rest[j] = IF j < i THEN list[j] ELSE list[j + 1]
    BY WithoutProperties, LenProperties, Zenon
  <1> HIDE DEF rest
  <1>2. NoRepeats(rest)
    BY <1>1 DEF NoRepeats
  <1>3. ASSUME NEW s, In(s, rest) PROVE In(s, list) /\ s # list[i]
    BY <1>1, <1>3 DEF In, NoRepeats
  <1>4. ASSUME NEW s, In(s, list), s # list[i] PROVE In(s, rest)
    <2>1. PICK k \in 1..Len(list) : list[k] = s
      BY <1>4, Zenon DEF In
    <2>2. CASE k < i
      <3>1. k \in 1..Len(rest) /\ rest[k] = s
        BY <2>1, <2>2, <1>1
      <3> QED
        BY <3>1, Zenon DEF In
    <2>3. CASE k > i
      <3>1. k - 1 \in 1..Len(rest) /\ rest[k - 1] = s
        BY <2>1, <2>3, <1>1
      <3> QED
        BY <3>1, Zenon DEF In
    <2> QED
      BY <2>1, <2>2, <2>3, <1>1, <1>4
  <1> QED
    BY <1>2, <1>3, <1>4, Zenon DEF rest

\* The subscriptions of a list have been made.
LEMMA ListedWereMade ==
    ASSUME BusTypeOK, NEW ty \in EventType
    PROVE  subscribers[ty] \in Seq(1..nextID) /\ \A s : In(s, subscribers[ty]) => s \in 1..nextID
  <1>1. subscribers[ty] \in Seq(1..nextID)
    BY Zenon DEF BusTypeOK
  <1> QED
    BY <1>1, ElementOfSeq, Zenon DEF In

\* Subscribe begins the life of a subscription that had none.
LEMMA SubscribeAudience ==
    ASSUME AudienceInv, BusTypeOK, NEW ty \in EventType, Subscribe(ty)
    PROVE  AudienceInv'
  <1> DEFINE new == nextID + 1
             life == [since |-> published, until |-> MaxEvents, types |-> {ty}]
  <1>1. /\ nextID \in Nat /\ new \in SubId /\ new \notin 1..nextID /\ nextID' = new
        /\ published \in 0..MaxEvents /\ published' = published
        /\ 1..nextID \subseteq SubId
        /\ \A s \in SubId : s > new => s > nextID /\ s # new
    BY BusConstants DEF BusTypeOK, Subscribe, SubId
  <1>2. /\ audience \in [SubId -> Lives] /\ audience' = [audience EXCEPT ![new] = life]
        /\ audience[new].types = {} /\ ListsAreLiving
    BY <1>1 DEF AudienceInv, ListsAreLiving, Subscribe
  <1>3. life \in Lives
    BY <1>1, BusConstants DEF Lives
  <1>4. audience' \in [SubId -> Lives] /\ audience'[new] = life
        /\ \A s \in SubId : s # new => audience'[s] = audience[s]
    BY <1>1, <1>2, <1>3, Zenon
  <1>5. /\ \A u \in EventType : u # ty => subscribers'[u] = subscribers[u]
        /\ subscribers'[ty] = Append(subscribers[ty], new)
    BY Zenon DEF Subscribe, BusTypeOK
  <1> HIDE DEF new
  <1>6. /\ NoRepeats(subscribers'[ty])
        /\ \A s : In(s, subscribers'[ty]) <=> In(s, subscribers[ty]) \/ s = new
    <2>1. subscribers[ty] \in Seq(1..nextID) /\ ~In(new, subscribers[ty])
      BY <1>1, ListedWereMade, Zenon
    <2>2. NoRepeats(subscribers[ty])
      BY <1>2, Zenon DEF ListsAreLiving
    <2> QED
      BY <1>5, <2>1, <2>2, AppendList
  <1>7. LivesGoOn
    BY <1>1, <1>2, <1>4 DEF LivesGoOn
  <1>8. ListsAreLiving'
    <2>1. \A s \in SubId : s > nextID' => audience'[s].types = {}
      BY <1>1, <1>2, <1>4, Zenon DEF ListsAreLiving
    <2>2. \A u \in EventType : NoRepeats(subscribers'[u])
      BY <1>2, <1>5, <1>6, Zenon DEF ListsAreLiving
    <2>3. ASSUME NEW u \in EventType, NEW s \in SubId, In(s, subscribers'[u])
          PROVE  /\ audience'[s].types = {u} /\ audience'[s].until = MaxEvents
                 /\ audience'[s].since <= published'
      <3>1. CASE s = new
        <4>1. u = ty
          BY <3>1, <2>3, <1>1, <1>5, ListedWereMade, Zenon
        <4> QED
          BY <3>1, <4>1, <1>1, <1>4
      <3>2. CASE s # new
        <4>1. In(s, subscribers[u])
          BY <3>2, <2>3, <1>5, <1>6, Zenon
        <4> QED
          BY <3>2, <4>1, <1>1, <1>2, <1>4, Zenon DEF ListsAreLiving
      <3> QED
        BY <3>1, <3>2, Zenon
    <2>4. ASSUME NEW s \in SubId, NEW u \in audience'[s].types
          PROVE  audience'[s].until <= published' \/ In(s, subscribers'[u])
      <3>1. CASE s = new
        BY <3>1, <1>4, <1>6
      <3>2. CASE s # new
        <4>1. u \in audience[s].types /\ audience'[s] = audience[s] /\ u \in EventType
          BY <3>2, <1>2, <1>4, Zenon DEF Lives
        <4>2. audience[s].until <= published \/ In(s, subscribers[u])
          BY <4>1, <1>2, Zenon DEF ListsAreLiving
        <4> QED
          BY <4>1, <4>2, <1>1, <1>5, <1>6, Zenon
      <3> QED
        BY <3>1, <3>2, Zenon
    <2> QED
      BY <1>4, <2>1, <2>2, <2>3, <2>4, Zenon DEF ListsAreLiving
  <1> QED
    BY <1>7, <1>8, AudienceLists, Zenon DEF Subscribe

\* The unsubscribe function ends a life that had not ended.
LEMMA UnsubscribeAudience ==
    ASSUME AudienceInv, BusTypeOK, NEW ty \in EventType, NEW i \in 1..Len(subscribers[ty]),
           Unsubscribe(ty, i)
    PROVE  AudienceInv'
  <1> DEFINE old == subscribers[ty][i]
             life == [audience[old] EXCEPT !.until = published]
  <1>1. /\ nextID \in 0..MaxSubs /\ nextID' = nextID
        /\ published \in 0..MaxEvents /\ published' = published
        /\ ListsAreLiving /\ audience \in [SubId -> Lives]
    BY Zenon DEF BusTypeOK, Unsubscribe, AudienceInv, ListsAreLiving
  <1>2. In(old, subscribers[ty])
    BY Zenon DEF In
  <1>3. old \in SubId
    <2>1. old \in 1..nextID
      BY <1>2, ListedWereMade, Zenon
    <2> QED
      BY <1>1, <2>1, BusConstants DEF SubId
  <1>4. /\ audience[old] \in Lives /\ audience[old].types = {ty} /\ audience[old].until = MaxEvents
        /\ audience[old].since <= published
    BY <1>1, <1>2, <1>3, Zenon DEF ListsAreLiving
  <1>5. life \in Lives /\ life.types = {ty} /\ life.until = published
        /\ life.since = audience[old].since
    BY <1>1, <1>4, Zenon DEF Lives
  <1>6. audience' = [audience EXCEPT ![old] = life]
    BY <1>1, <1>3, Zenon DEF Unsubscribe
  <1>7. audience' \in [SubId -> Lives] /\ audience'[old] = life
        /\ \A s \in SubId : s # old => audience'[s] = audience[s]
    BY <1>1, <1>3, <1>5, <1>6, Zenon
  <1>8. /\ \A u \in EventType : u # ty => subscribers'[u] = subscribers[u]
        /\ subscribers'[ty] = Without(subscribers[ty], i)
    BY Zenon DEF Unsubscribe, BusTypeOK
  <1>9. /\ NoRepeats(subscribers'[ty])
        /\ \A s : In(s, subscribers'[ty]) <=> In(s, subscribers[ty]) /\ s # old
    <2>1. subscribers[ty] \in Seq(1..nextID) /\ NoRepeats(subscribers[ty])
      BY <1>1, ListedWereMade, Zenon DEF ListsAreLiving
    <2> QED
      BY <1>8, <2>1, WithoutList
  <1> HIDE DEF old, life
  <1>10. LivesGoOn
    <2>1. published <= published' /\ published' \in 0..MaxEvents
      BY <1>1
    <2>2. /\ audience[old].until = MaxEvents
          /\ audience'[old].types = audience[old].types
          /\ audience'[old].since = audience[old].since
          /\ audience'[old].until = published
      BY <1>4, <1>5, <1>7, Zenon
    <2> QED
      BY <1>1, <1>7, <2>1, <2>2, Zenon DEF LivesGoOn
  <1>11. ListsAreLiving'
    <2>1. \A s \in SubId : s > nextID' => audience'[s].types = {}
      <3>1. ~(old > nextID)
        BY <1>1, <1>3, <1>4, Zenon DEF ListsAreLiving
      <3> QED
        BY <3>1, <1>1, <1>7, Zenon DEF ListsAreLiving
    <2>2. \A u \in EventType : NoRepeats(subscribers'[u])
      BY <1>1, <1>8, <1>9, Zenon DEF ListsAreLiving
    <2>3. ASSUME NEW u \in EventType, NEW s \in SubId, In(s, subscribers'[u])
          PROVE  /\ audience'[s].types = {u} /\ audience'[s].until = MaxEvents
                 /\ audience'[s].since <= published'
      <3>1. In(s, subscribers[u])
        BY <2>3, <1>8, <1>9, Zenon
      <3>2. audience[s].types = {u} /\ audience[s].until = MaxEvents /\ audience[s].since <= published
        BY <3>1, <1>1, Zenon DEF ListsAreLiving
      <3>3. s # old
        BY <2>3, <3>2, <1>4, <1>9, Zenon
      <3> QED
        BY <3>2, <3>3, <1>1, <1>7, Zenon
    <2>4. ASSUME NEW s \in SubId, NEW u \in audience'[s].types
          PROVE  audience'[s].until <= published' \/ In(s, subscribers'[u])
      <3>1. CASE s = old
        BY <3>1, <1>1, <1>5, <1>7
      <3>2. CASE s # old
        <4>1. u \in audience[s].types /\ audience'[s] = audience[s] /\ u \in EventType
          BY <3>2, <1>1, <1>7, Zenon DEF Lives
        <4>2. audience[s].until <= published \/ In(s, subscribers[u])
          BY <4>1, <1>1, Zenon DEF ListsAreLiving
        <4> QED
          BY <3>2, <4>1, <4>2, <1>1, <1>8, <1>9, Zenon
      <3> QED
        BY <3>1, <3>2, Zenon
    <2> QED
      BY <1>7, <2>1, <2>2, <2>3, <2>4, Zenon DEF ListsAreLiving
  <1> QED
    BY <1>10, <1>11, AudienceLists, Zenon DEF Unsubscribe

\* Copying the list under the lock catches exactly the living subscriptions.
LEMMA SnapshotAudience ==
    ASSUME AudienceInv, BusTypeOK, NEW c \in Client, NEW ty \in EventType,
           NEW op \in {"publish", "enqueue"}, Snapshot(c, ty, op)
    PROVE  AudienceInv'
  <1> DEFINE entry == [event |-> published + 1, type |-> ty, subs |-> subscribers[ty]]
  <1>1. /\ published \in 0..MaxEvents /\ published < MaxEvents /\ published' = published + 1
        /\ UNCHANGED <<subscribers, nextID, audience, accepted>>
        /\ ListsAreLiving /\ audience \in [SubId -> Lives]
    BY Zenon DEF BusTypeOK, Snapshot, AudienceInv, ListsAreLiving, busVars
  <1>2. \A s \in SubId : audience[s].since \in 0..MaxEvents /\ audience[s].until \in 0..MaxEvents
    BY <1>1, Zenon DEF Lives
  <1>3. LivesGoOn
    BY <1>1, BusConstants DEF LivesGoOn
  <1>4. ListsAreLiving'
    <2>1. \A s \in SubId : /\ audience[s].since <= published => audience[s].since <= published'
                           /\ audience[s].until <= published => audience[s].until <= published'
      BY <1>1, <1>2
    <2> QED
      BY <1>1, <2>1, Zenon DEF ListsAreLiving
  <1>5. ASSUME NEW e, e = entry PROVE Exact(e)'
    <2>1. ASSUME NEW s PROVE In(s, subscribers[ty]) => s \in SubId
      <3>1. 1..nextID \subseteq SubId
        BY BusConstants DEF BusTypeOK, SubId
      <3> QED
        BY <3>1, ListedWereMade, Zenon
    <2>2. ASSUME NEW s \in SubId
          PROVE  In(s, subscribers[ty]) <=> /\ ty \in audience[s].types
                                            /\ audience[s].since < published + 1
                                            /\ published + 1 <= audience[s].until
      <3>1. CASE In(s, subscribers[ty])
        <4>1. ty \in audience[s].types /\ audience[s].until = MaxEvents
              /\ audience[s].since <= published
          BY <3>1, <1>1 DEF ListsAreLiving
        <4> QED
          BY <3>1, <4>1, <1>1, <1>2, BusConstants
      <3>2. CASE ~In(s, subscribers[ty])
        <4>1. ty \in audience[s].types => audience[s].until <= published
          BY <3>2, <1>1, Zenon DEF ListsAreLiving
        <4> QED
          BY <3>2, <4>1, <1>1, <1>2
      <3> QED
        BY <3>1, <3>2, Zenon
    <2>3. {e.subs[i] : i \in 1..Len(e.subs)} = {s \in SubId : In(s, subscribers[ty])}
      BY <1>5, <2>1, Zenon DEF In
    <2>4. Audience(e)' = {s \in SubId : In(s, subscribers[ty])}
      BY <1>5, <2>2, <1>1, Zenon DEF Audience
    <2> QED
      BY <1>5, <2>3, <2>4, <1>1 DEF Exact
  <1>6. calls' = [calls EXCEPT ![c] = IF subscribers[ty] = <<>> THEN Idle
                                      ELSE [op |-> op, entry |-> entry]]
    BY Zenon DEF Snapshot
  <1> HIDE DEF entry
  <1>7. ASSUME NEW e \in Entry, Exact(e) PROVE Exact(e)'
    BY <1>3, <1>7, ExactStays, Zenon
  <1>8. \A n \in 1..Len(accepted') : Exact(accepted[n])'
    BY <1>1, <1>7, EntriesTyped, Zenon DEF AudienceInv
  <1>9. ASSUME NEW d \in Client, calls'[d].op = "enqueue" PROVE Exact(calls[d].entry)'
    <2>1. calls'[d] = IF d = c THEN IF subscribers[ty] = <<>> THEN Idle
                                    ELSE [op |-> op, entry |-> entry]
                               ELSE calls[d]
      BY <1>6, Zenon DEF BusTypeOK
    <2>2. CASE d = c
      <3>1. calls'[d].entry = entry
        BY <2>1, <2>2, <1>9 DEF Idle
      <3> QED
        BY <3>1, <1>5, Zenon
    <2>3. CASE d # c
      <3>1. calls'[d] = calls[d] /\ calls[d].entry \in Entry /\ Exact(calls[d].entry)
        BY <2>1, <2>3, <1>9, EntriesTyped, Zenon DEF AudienceInv
      <3> QED
        BY <3>1, <1>7, Zenon
    <2> QED
      BY <2>2, <2>3, Zenon
  <1> QED
    BY <1>4, <1>8, <1>9, Zenon DEF AudienceInv

\* The queue takes the copy as it was made.
LEMMA EnqueueAudience ==
    ASSUME AudienceInv, BusTypeOK, NEW c \in Client, Enqueue(c)
    PROVE  AudienceInv'
  <1>1. /\ UNCHANGED <<subscribers, nextID, published, audience>>
        /\ \A d \in Client : calls'[d] = calls[d] \/ calls'[d].op # "enqueue"
    BY Zenon DEF Enqueue, BusTypeOK, Idle
  <1>2. CASE closed
    BY <1>1, <1>2, AudienceUntouched, Zenon DEF Enqueue
  <1>3. CASE ~closed
    <2> DEFINE e == calls[c].entry
    <2>1. e \in Entry /\ Exact(e) /\ accepted' = Append(accepted, e)
      BY <1>3, EntriesTyped, Zenon DEF Enqueue, AudienceInv
    <2> HIDE DEF e
    <2>2. /\ Len(accepted) \in Nat /\ Len(accepted') = Len(accepted) + 1
          /\ \A n \in 1..Len(accepted) : accepted'[n] = accepted[n]
          /\ accepted'[Len(accepted) + 1] = e
      BY <2>1, AppendProperties, LenProperties DEF BusTypeOK
    <2>3. ASSUME NEW x, Exact(x) PROVE Exact(x)'
      BY <1>1, <2>3, Zenon DEF Exact, Audience
    <2>4. ASSUME NEW n \in 1..Len(accepted') PROVE Exact(accepted[n])'
      <3>1. Exact(accepted'[n])
        BY <2>1, <2>2 DEF AudienceInv
      <3> QED
        BY <3>1, <2>3, Zenon
    <2>5. ListsAreLiving'
      BY <1>1, Zenon DEF AudienceInv, ListsAreLiving
    <2>6. ASSUME NEW d \in Client, calls'[d].op = "enqueue" PROVE Exact(calls[d].entry)'
      <3>1. calls'[d] = calls[d] /\ Exact(calls[d].entry)
        BY <2>6, <1>1, Zenon DEF AudienceInv
      <3> QED
        BY <3>1, <2>3, Zenon
    <2> QED
      BY <2>4, <2>5, <2>6, Zenon DEF AudienceInv
  <1> QED
    BY <1>2, <1>3, Zenon

\* The other calls and the dispatch goroutine change no subscription.
LEMMA OthersAudience ==
    ASSUME AudienceInv, BusTypeOK,
           \/ \E c \in Client : CallSync(c) \/ Close(c) \/ CloseReturns(c)
           \/ Dequeue \/ CallNext \/ HandlerReturns \/ HandlerPanics \/ HandlerCloses
    PROVE  AudienceInv'
  <1>1. UNCHANGED <<subscribers, nextID, published, audience, accepted>>
    BY Zenon DEF CallSync, Close, CloseReturns, Dequeue, CallNext, HandlerReturns, HandlerPanics,
           HandlerCloses, busVars, history
  <1>2. \A d \in Client : calls'[d] = calls[d] \/ calls'[d].op # "enqueue"
    <2>1. ASSUME NEW c \in Client, CallSync(c)
          PROVE  \A d \in Client : calls'[d] = calls[d] \/ calls'[d].op # "enqueue"
      <3>1. calls[c] \in [op: {"publish", "enqueue"}, entry: Entry] /\ calls[c].op = "publish"
        BY <2>1, CallEntry, Zenon DEF CallSync
      <3>2. CASE calls' = [calls EXCEPT ![c] = Idle]
        BY <3>2, Zenon DEF BusTypeOK, Idle
      <3>3. CASE calls' = [calls EXCEPT ![c].entry.subs = Tail(calls[c].entry.subs)]
        <4> DEFINE e == [calls[c].entry EXCEPT !.subs = Tail(calls[c].entry.subs)]
        <4>1. calls' = [calls EXCEPT ![c] = [calls[c] EXCEPT !.entry = e]]
          BY <3>1, <3>3, Zenon DEF BusTypeOK
        <4> HIDE DEF e
        <4>2. [calls[c] EXCEPT !.entry = e].op = "publish"
          BY <3>1, Zenon
        <4> QED
          BY <4>1, <4>2, Zenon DEF BusTypeOK
      <3> QED
        BY <2>1, <3>2, <3>3, Zenon DEF CallSync
    <2>2. ASSUME NEW c \in Client, Close(c) \/ CloseReturns(c)
          PROVE  \A d \in Client : calls'[d] = calls[d] \/ calls'[d].op # "enqueue"
      BY <2>2 DEF Close, CloseReturns, BusTypeOK, Idle
    <2>3. CASE UNCHANGED calls
      BY <2>3, Zenon
    <2> QED
      BY <2>1, <2>2, <2>3, Zenon
      DEF Dequeue, CallNext, HandlerReturns, HandlerPanics, HandlerCloses
  <1> QED
    BY <1>1, <1>2, AudienceUntouched, Zenon

\* Every step keeps the invariant of the subscriptions.
LEMMA NextKeepsAudience == AudienceInv /\ BusTypeOK /\ [Next]_vars => AudienceInv'
  <1> SUFFICES ASSUME AudienceInv, BusTypeOK, [Next]_vars PROVE AudienceInv'
    OBVIOUS
  <1>1. CASE UNCHANGED vars
    BY <1>1, AudienceUntouched, Zenon DEF vars, busVars, history
  <1>2. ASSUME NEW ty \in EventType, Subscribe(ty) PROVE AudienceInv'
    BY <1>2, SubscribeAudience, Zenon
  <1>3. ASSUME NEW ty \in EventType, NEW i \in 1..Len(subscribers[ty]), Unsubscribe(ty, i)
        PROVE  AudienceInv'
    BY <1>3, UnsubscribeAudience, Zenon
  <1>4. ASSUME NEW ty \in EventType, NEW c \in Client, NEW op \in {"publish", "enqueue"},
               Snapshot(c, ty, op)
        PROVE  AudienceInv'
    BY <1>4, SnapshotAudience, Zenon
  <1>5. ASSUME NEW c \in Client, Enqueue(c) PROVE AudienceInv'
    BY <1>5, EnqueueAudience
  <1>6. ASSUME NEW c \in Client, CallSync(c) \/ Close(c) \/ CloseReturns(c) PROVE AudienceInv'
    BY <1>6, OthersAudience, Zenon
  <1>7. CASE Dequeue \/ CallNext \/ HandlerReturns \/ HandlerPanics \/ HandlerCloses
    BY <1>7, OthersAudience, Zenon
  <1> QED
    BY <1>1, <1>2, <1>3, <1>4, <1>5, <1>6, <1>7, Zenon DEF Next

-----------------------------------------------------------------------------
(* The results. *)

\* Every step of the bus keeps the queue's invariant.
LEMMA NextKeepsQueue == QueueInv /\ [Next]_vars => QueueInv'
  <1> SUFFICES ASSUME QueueInv, [Next]_vars PROVE QueueInv'
    OBVIOUS
  <1>1. CASE UNCHANGED vars
    <2>1. BusTypeOK'
      BY <1>1, Zenon DEF QueueInv, BusTypeOK, vars, busVars, history
    <2> QED
      BY <1>1, <2>1, QueueUntouched, Zenon DEF vars, busVars, history
  <1>2. ASSUME NEW ty \in EventType, Subscribe(ty) PROVE QueueInv'
    BY <1>2, SubscribeKeeps, Zenon
  <1>3. ASSUME NEW ty \in EventType, NEW i \in 1..Len(subscribers[ty]), Unsubscribe(ty, i)
        PROVE  QueueInv'
    BY <1>3, UnsubscribeKeeps, Zenon
  <1>4. ASSUME NEW ty \in EventType, NEW c \in Client, NEW op \in {"publish", "enqueue"},
               Snapshot(c, ty, op)
        PROVE  QueueInv'
    BY <1>4, SnapshotKeeps, Zenon
  <1>5. ASSUME NEW c \in Client, CallSync(c) \/ Enqueue(c) \/ Close(c) \/ CloseReturns(c)
        PROVE  QueueInv'
    BY <1>5, CallSyncKeeps, EnqueueKeeps, CloseKeeps, CloseReturnsKeeps, Zenon
  <1>6. CASE Dequeue \/ CallNext \/ HandlerReturns \/ HandlerPanics \/ HandlerCloses
    BY <1>6, DequeueKeeps, CallNextKeeps, HandlerKeeps, HandlerPanicsKeeps, Zenon
  <1> QED
    BY <1>1, <1>2, <1>3, <1>4, <1>5, <1>6, Zenon DEF Next

\* Whatever the clients and handlers do, the queue is the rest of what enqueue
\* took, and the handlers called are exactly those up to where dispatchLoop is.
THEOREM QueueSafe == Safety => []QueueInv
  BY InitQueue, NextKeepsQueue, PTL DEF Safety

\* Asynchronous events are handled in the order in which enqueue took them,
\* each by its subscribers in the order of Subscribe, and none twice.
THEOREM OrderSafe == Safety => []DeliveredInOrder
  <1>1. QueueInv => DeliveredInOrder
    BY Zenon DEF QueueInv
  <1> QED
    BY <1>1, QueueSafe, PTL

\* dispatchLoop takes no event before the one it has was given to all its
\* subscribers, unless a handler panicked.
THEOREM SkipSafe == Safety => []NothingSkipped
  <1>1. QueueInv => NothingSkipped
    BY Zenon DEF QueueInv
  <1> QED
    BY <1>1, QueueSafe, PTL

\* When Close returns because dispatchLoop has, every event the queue took
\* has been delivered.
THEOREM DrainSafe == Safety => []ExitDrains
  <1>1. QueueInv => ExitDrains
    <2> SUFFICES ASSUME QueueInv, loop.pc = "exited"
                 PROVE  closed /\ \A n \in 1..Len(accepted) : Delivered(n)
      BY Zenon DEF ExitDrains
    <2>1. closed /\ queue = <<>> /\ ~Working
      BY Zenon DEF QueueInv, ExitsEmpty, Working
    <2>2. Len(accepted) \in Nat /\ Taken = Len(accepted)
      BY <2>1, LenProperties DEF Taken, QueueInv, BusTypeOK
    <2> QED
      BY <2>1, <2>2, Zenon DEF QueueInv, NothingSkipped, Taken, Working
  <1> QED
    BY <1>1, QueueSafe, PTL
\* The copies of the subscriber list that Publish and PublishAsync work from
\* stay exact while subscriptions come and go.
THEOREM SubscriptionsSafe == Safety => []AudienceInv
  <1>1. Init => AudienceInv
    <2> SUFFICES ASSUME Init PROVE AudienceInv
      OBVIOUS
    <2>1. audience \in [SubId -> Lives]
      BY BusConstants DEF Init, Lives
    <2>2. \A list : list = <<>> => NoRepeats(list) /\ \A s : ~In(s, list)
      BY DEF NoRepeats, In
    <2>3. ListsAreLiving
      BY <2>1, <2>2, Zenon DEF Init, ListsAreLiving
    <2> QED
      BY <2>3 DEF Init, AudienceInv, Idle
  <1>2. QueueInv => BusTypeOK
    BY Zenon DEF QueueInv
  <1> QED
    BY <1>1, <1>2, NextKeepsAudience, QueueSafe, PTL DEF Safety

\* An event is handled by exactly those who were subscribed to its type when
\* snapshotSubscribers ran, whoever subscribes or unsubscribes before dispatch.
THEOREM AudienceSafe == Safety => []ExactAudience
  <1>1. AudienceInv => ExactAudience
    BY Zenon DEF AudienceInv, ExactAudience, Exact, Audience
  <1> QED
    BY <1>1, SubscriptionsSafe, PTL
=============================================================================
