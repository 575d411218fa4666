-------------------------- MODULE TransportProofs --------------------------
(***************************************************************************)
(* The safety properties of Transport, for any scopes, limits and bounds:  *)
(* slots and locks are accounted for, and no question is forgotten.        *)
(***************************************************************************)
EXTENDS Transport, FiniteSetTheorems, TLAPS

JobPc == {"none", "lock", "work", "publish", "signal", "await", "write",
          "unlock", "free", "done"}

JobType == [pc : JobPc, scope : Scope \cup {NoScope}]

LoopType == [pc : {"select", "resolve", "bypass", "requests", "eof", "returned"},
             id : 0..MaxRequests]

TransportTypeOK ==
    /\ loop \in LoopType
    /\ jobs \in [Request -> JobType]
    /\ failed \subseteq Request
    /\ slots \in Int
    /\ locks \in [Scope -> 0..MaxRequests]
    /\ pending \subseteq Request
    /\ answered \subseteq Request
    /\ queue \in Seq(Request)
    /\ signal \in BOOLEAN
    /\ sent \subseteq Request
    /\ dropped \subseteq Request
    /\ failure \in BOOLEAN

\* Who waits for a lock has a scope; who is not under way has none.
ScopesFit ==
    \A h \in Request :
        /\ jobs[h].pc = "lock" => jobs[h].scope \in Scope
        /\ Over(h) => jobs[h].scope = NoScope

SchedulerInv == TransportTypeOK /\ ScopesFit /\ SchedulerIsExact

\* The question of a request has been published.
Asked(h) == jobs[h].pc \notin {"none", "lock", "work", "publish"}

\* Answers are to questions that were asked and are not pending any more.
AnswersFit ==
    /\ \A i \in ToSet(queue) : Asked(i)
    /\ \A i \in sent : Asked(i)
    /\ \A i \in answered : i \notin pending /\ Asked(i)
    /\ loop.pc = "resolve" =>
          loop.id \in Request /\ loop.id \notin pending /\ Asked(loop.id)

QuestionInv == TransportTypeOK /\ AnswersFit /\ QuestionsReachClient

-----------------------------------------------------------------------------

\* Appending to the queue adds the new question and no other.
LEMMA AppendSet ==
    ASSUME NEW S, NEW q \in Seq(S), NEW x \in S
    PROVE  ToSet(Append(q, x)) = ToSet(q) \cup {x}
<1>1. DOMAIN Append(q, x) = 1..Len(q) + 1 /\ DOMAIN q = 1..Len(q)
  OBVIOUS
<1>2. \A i \in 1..Len(q) : Append(q, x)[i] = q[i]
  OBVIOUS
<1>3. Append(q, x)[Len(q) + 1] = x /\ Len(q) \in Nat
  OBVIOUS
<1>4. 1..Len(q) + 1 = (1..Len(q)) \cup {Len(q) + 1}
  BY <1>3
<1> QED
  BY <1>1, <1>2, <1>3, <1>4 DEF ToSet

\* Dropping the oldest entry of the queue removes at most that question.
LEMMA TailSet ==
    ASSUME NEW S, NEW q \in Seq(S), q # <<>>
    PROVE  /\ ToSet(Tail(q)) \subseteq ToSet(q)
           /\ ToSet(q) \subseteq ToSet(Tail(q)) \cup {Head(q)}
<1>1. DOMAIN Tail(q) = 1..Len(q) - 1 /\ DOMAIN q = 1..Len(q) /\ Len(q) \in Nat \ {0}
  OBVIOUS
<1>2. \A i \in 1..Len(q) - 1 : Tail(q)[i] = q[i + 1] /\ i + 1 \in 1..Len(q)
  BY <1>1
<1>3. \A i \in 1..Len(q) : i = 1 \/ (i - 1 \in 1..Len(q) - 1 /\ i = (i - 1) + 1)
  BY <1>1
<1>4. Head(q) = q[1]
  OBVIOUS
<1>5. ToSet(Tail(q)) \subseteq ToSet(q)
  BY <1>1, <1>2, Zenon DEF ToSet
<1>6. ASSUME NEW i \in 1..Len(q)
      PROVE  q[i] \in ToSet(Tail(q)) \cup {Head(q)}
  <2>1. CASE i = 1
    BY <2>1, <1>4, Zenon
  <2>2. CASE i - 1 \in 1..Len(q) - 1
    <3>1. q[i] = Tail(q)[i - 1]
      BY <2>2, <1>2, <1>1
    <3> QED
      BY <3>1, <2>2, <1>1, Zenon DEF ToSet
  <2> QED
    BY <1>3, <2>1, <2>2, Zenon
<1>7. ToSet(q) \subseteq ToSet(Tail(q)) \cup {Head(q)}
  BY <1>6, <1>1, Zenon DEF ToSet
<1> QED
  BY <1>5, <1>7, Zenon

\* An empty queue holds no question.
LEMMA EmptySet == ToSet(<<>>) = {}
  BY DEF ToSet

-----------------------------------------------------------------------------

\* The types hold initially.
LEMMA InitType ==
    ASSUME Init
    PROVE  TransportTypeOK
<1>1. NoJob \in JobType /\ Select \in LoopType
  BY TransportConstants DEF NoJob, Select, JobType, JobPc, LoopType
<1>2. jobs \in [Request -> JobType] /\ loop \in LoopType
  BY <1>1, Zenon DEF Init
<1>3. locks \in [Scope -> 0..MaxRequests]
  BY TransportConstants DEF Init
<1>4. queue \in Seq(Request)
  BY DEF Init
<1>5. slots \in Int
  BY DEF Init
<1>6. signal \in BOOLEAN /\ failure \in BOOLEAN
  BY Zenon DEF Init
<1>7. /\ failed \subseteq Request /\ pending \subseteq Request /\ answered \subseteq Request
      /\ sent \subseteq Request /\ dropped \subseteq Request
  BY Zenon DEF Init
<1> QED
  BY <1>2, <1>3, <1>4, <1>5, <1>6, <1>7, Zenon DEF TransportTypeOK

\* Every step keeps the types.
LEMMA TypeStep ==
    ASSUME TransportTypeOK, [Next]_vars
    PROVE  TransportTypeOK'
<1> USE DEF TransportTypeOK
<1>0. /\ NoJob \in JobType
      /\ Select \in LoopType
      /\ \A pc \in {"select", "bypass", "requests", "eof", "returned"} :
            [Select EXCEPT !.pc = pc] \in LoopType
  BY TransportConstants DEF NoJob, Select, JobType, JobPc, LoopType
<1>1. ASSUME NEW h \in Request, \E pc \in JobPc : Goto(h, pc)
      PROVE  jobs' \in [Request -> JobType]
  BY <1>1, Zenon DEF JobType, Goto
<1>3. Drained \/ DrainedInPart \/ DrainFails => queue' \in Seq(Request) /\ sent' \subseteq Request
  <2>1. <<>> \in Seq(Request)
    OBVIOUS
  <2> QED
    BY <2>1, Zenon DEF Drained, DrainFails, DrainedInPart
<1>4. ASSUME NEW h \in Request, Lock(h) PROVE TransportTypeOK'
  <2>1. h \in 0..MaxRequests
    BY TransportConstants DEF Request
  <2>2. locks' \in [Scope -> 0..MaxRequests]
    BY <1>4, <2>1, Zenon DEF Lock
  <2>3. jobs' \in [Request -> JobType]
    <3>1. \E pc \in JobPc : Goto(h, pc)
      BY <1>4, Zenon DEF Lock, JobPc
    <3> QED
      BY <3>1, <1>1, Zenon
  <2> QED
    BY <1>4, <2>2, <2>3, Zenon DEF Lock, contexts, questionVars
<1>5. ASSUME NEW h \in Request, Write(h) PROVE TransportTypeOK'
  <2>1. jobs' \in [Request -> JobType]
    <3>1. \E pc \in JobPc : Goto(h, pc)
      BY <1>5, Zenon DEF Write, JobPc
    <3> QED
      BY <3>1, <1>1
  <2>2. queue' \in Seq(Request) /\ sent' \subseteq Request
    BY <1>5, <1>3, Zenon DEF Write
  <2> QED
    BY <1>5, <2>1, <2>2, Zenon DEF Write, schedulerVars
<1>6. ASSUME NEW h \in Request, Unlock(h) PROVE TransportTypeOK'
  <2>1. jobs' \in [Request -> JobType]
    <3>1. \E pc \in JobPc : Goto(h, pc)
      BY <1>6, Zenon DEF Unlock, JobPc
    <3> QED
      BY <3>1, <1>1
  <2>2. locks' \in [Scope -> 0..MaxRequests]
    BY <1>6, TransportConstants DEF Unlock
  <2> QED
    BY <1>6, <2>1, <2>2, Zenon DEF Unlock, contexts, questionVars
<1>7. ASSUME NEW h \in Request, Free(h) PROVE TransportTypeOK'
  <2>1. [pc |-> "done", scope |-> NoScope] \in JobType
    BY Zenon DEF JobType, JobPc
  <2>2. jobs' \in [Request -> JobType]
    BY <1>7, <2>1, Zenon DEF Free
  <2>3. failure' \in BOOLEAN /\ slots' \in Int
    BY <1>7 DEF Free
  <2> QED
    BY <1>7, <2>2, <2>3, Zenon DEF Free, contexts, questionVars
<1>8. ASSUME NEW h \in Request, Asking(h) PROVE TransportTypeOK'
  <2>1. jobs' \in [Request -> JobType]
    <3>1. \E pc \in JobPc : Goto(h, pc)
      BY <1>8, Zenon DEF Asking, Ask, Publish, SignalReady, Receive, Abandon, JobPc
    <3> QED
      BY <3>1, <1>1
  <2>2. queue' \in Seq(Request) /\ dropped' \subseteq Request
    <3>1. CASE Publish(h)
      <4>1. Append(queue, h) \in Seq(Request) /\ Append(queue, h) # <<>>
        OBVIOUS
      <4>2. Tail(Append(queue, h)) \in Seq(Request)
        BY <4>1
      <4> QED
        BY <3>1, <4>1, <4>2, Zenon DEF Publish
    <3> QED
      BY <1>8, <3>1, Zenon DEF Asking, Ask, SignalReady, Receive, Abandon
  <2>3. /\ pending' \subseteq Request /\ answered' \subseteq Request
        /\ sent' \subseteq Request /\ signal' \in BOOLEAN
    BY <1>8, Zenon DEF Asking, Ask, Publish, SignalReady, Receive, Abandon
  <2>4. UNCHANGED <<loop, failed, slots, locks, failure>>
    BY <1>8, Zenon DEF Asking, Ask, Publish, SignalReady, Receive, Abandon, schedulerVars
  <2> QED
    BY <2>1, <2>2, <2>3, <2>4, Zenon
<1>9. ASSUME NEW h \in Request, NEW s \in Scope \cup {NoScope}, TryAcquire(h, s)
      PROVE  TransportTypeOK'
  <2>0. [pc |-> IF s = NoScope THEN "work" ELSE "lock", scope |-> s] \in JobType
    BY Zenon DEF JobType, JobPc
  <2>1. jobs' \in [Request -> JobType]
    BY <1>9, <2>0, Zenon DEF TryAcquire
  <2>2. slots' \in Int
    BY <1>9 DEF TryAcquire
  <2> QED
    BY <1>9, <2>1, <2>2, Zenon DEF TryAcquire, contexts, questionVars
<1>10. ASSUME NEW i \in Request, Answer(i) PROVE TransportTypeOK'
  <2>1. i \in 0..MaxRequests
    BY TransportConstants DEF Request
  <2>2. loop' \in LoopType
    BY <1>10, <2>1, Zenon DEF Answer, LoopType
  <2> QED
    BY <1>10, <2>2, Zenon DEF Answer, contexts, schedulerVars
<1>11. CASE Overloaded \/ OtherLine \/ EndOfInput \/ Fails \/ Return
  <2>1. loop' \in LoopType
    BY <1>11, <1>0, Zenon DEF Overloaded, OtherLine, EndOfInput, Fails, Return, LoopGoto
  <2> QED
    BY <1>11, <2>1, Zenon DEF Overloaded, OtherLine, EndOfInput, Fails, Return, schedulerVars,
         questionVars
<1>12. CASE Looping \/ TakeSignal
  <2>1. loop' \in LoopType
    BY <1>12, <1>0, Zenon DEF Looping, Resolve, Bypass, DrainRequests, HandlersDone, TakeSignal,
         LoopGoto
  <2>2. queue' \in Seq(Request) /\ sent' \subseteq Request
    <3>1. UNCHANGED <<queue, sent>> \/ Drained \/ DrainedInPart \/ DrainFails
      BY <1>12, Zenon
         DEF Looping, Resolve, Bypass, DrainRequests, HandlersDone, TakeSignal
    <3> QED
      BY <1>3, <3>1, Zenon
  <2>3. answered' \subseteq Request /\ signal' \in BOOLEAN /\ failure' \in BOOLEAN
    BY <1>12, Zenon DEF Looping, Resolve, Bypass, DrainRequests, HandlersDone, TakeSignal
  <2>4. UNCHANGED <<jobs, failed, slots, locks, pending, dropped>>
    BY <1>12, Zenon DEF Looping, Resolve, Bypass, DrainRequests, HandlersDone, TakeSignal,
         schedulerVars
  <2> QED
    BY <2>1, <2>2, <2>3, <2>4, Zenon
<1>13. CASE Cancel
  BY <1>13, Zenon DEF Cancel, schedulerVars, questionVars
<1>14. CASE UNCHANGED vars
  BY <1>14, Zenon DEF vars, schedulerVars, questionVars
<1> QED
  BY <1>4, <1>5, <1>6, <1>7, <1>8, <1>9, <1>10, <1>11, <1>12, <1>13, <1>14, Zenon
     DEF Next, Serving, Reading

-----------------------------------------------------------------------------

\* The requests that have a slot, and those that have the lock of scope s.
UnderWay == {h \in Request : ~Over(h)}

Holding == {"work", "publish", "signal", "await", "write", "unlock"}

Holders(s) == {h \in Request : jobs[h].scope = s /\ jobs[h].pc \notin {"lock", "free"}}

\* There are finitely many requests.
LEMMA Finite ==
    ASSUME NEW S \in SUBSET Request
    PROVE  IsFiniteSet(S) /\ Cardinality(S) \in Nat
<1>1. IsFiniteSet(Request)
  BY FS_Interval, TransportConstants DEF Request
<1>2. IsFiniteSet(S)
  BY <1>1, FS_Subset, Zenon
<1> QED
  BY <1>2, FS_CardinalityType, Zenon

\* The invariant looks at pc and scope of the requests only through these sets.
LEMMA SchedulerFromSets ==
    ASSUME SchedulerIsExact, UNCHANGED <<slots, locks>>, UnderWay' = UnderWay,
           \A s \in Scope : Holders(s)' = Holders(s)
    PROVE  SchedulerIsExact'
<1>1. /\ slots = Cardinality(UnderWay) /\ slots <= Limit
      /\ \A s \in Scope : Holders(s) = {locks[s]} \ {0}
  BY Zenon DEF SchedulerIsExact, UnderWay, Holders
<1>2. /\ slots' = Cardinality(UnderWay') /\ slots' <= Limit
      /\ \A s \in Scope : Holders(s)' = {locks'[s]} \ {0}
  BY <1>1, Zenon
<1> QED
  BY <1>2, Zenon DEF SchedulerIsExact, UnderWay, Holders

\* A request that has what it needs goes from one step of its method to the next.
LEMMA HoldingMoves ==
    ASSUME SchedulerInv, TransportTypeOK', NEW h \in Request, jobs[h].pc \in Holding,
           NEW pc \in Holding, Goto(h, pc), UNCHANGED <<slots, locks>>
    PROVE  SchedulerInv'
<1>1. \A g \in Request :
         /\ jobs'[g].scope = jobs[g].scope
         /\ jobs'[g].pc = IF g = h THEN pc ELSE jobs[g].pc
  BY Zenon DEF Goto, SchedulerInv, TransportTypeOK, JobType
<1>2. UnderWay' = UnderWay
  BY <1>1, Zenon DEF UnderWay, Over, Holding
<1>3. ASSUME NEW s \in Scope
      PROVE  Holders(s)' = Holders(s)
  BY <1>1, Zenon DEF Holders, Holding
<1>4. SchedulerIsExact'
  BY <1>2, <1>3, SchedulerFromSets, Zenon DEF SchedulerInv
<1>5. ScopesFit'
  BY <1>1, Zenon DEF SchedulerInv, ScopesFit, Over, Holding
<1> QED
  BY <1>4, <1>5, Zenon DEF SchedulerInv

\* Every step accounts for its slots and locks.
LEMMA SchedulerStep ==
    ASSUME SchedulerInv, [Next]_vars
    PROVE  SchedulerInv'
<1>0. TransportTypeOK /\ TransportTypeOK'
  BY TypeStep, Zenon DEF SchedulerInv
<1>1. ASSUME NEW h \in Request, Lock(h) PROVE SchedulerInv'
  <2>0. jobs[h].pc = "lock" /\ jobs[h].scope \in Scope /\ h # 0
    BY <1>1, TransportConstants DEF Lock, SchedulerInv, ScopesFit, Request
  <2>1. CASE locks[jobs[h].scope] = 0 /\ Goto(h, "work")
               /\ locks' = [locks EXCEPT ![jobs[h].scope] = h]
    <3>1. \A g \in Request :
             /\ jobs'[g].scope = jobs[g].scope
             /\ jobs'[g].pc = IF g = h THEN "work" ELSE jobs[g].pc
      BY <2>1, <1>0, Zenon DEF Goto, TransportTypeOK, JobType
    <3>2. UnderWay' = UnderWay
      BY <3>1, <2>0, Zenon DEF UnderWay, Over
    <3>3. slots' = slots
      BY <1>1, Zenon DEF Lock
    <3>4. ASSUME NEW s \in Scope
          PROVE  Holders(s)' = {locks'[s]} \ {0}
      <4>1. Holders(s) = {locks[s]} \ {0}
        BY Zenon DEF SchedulerInv, SchedulerIsExact, Holders
      <4>2. CASE s = jobs[h].scope
        <5>1. locks'[s] = h /\ locks[s] = 0
          BY <4>2, <2>1, <1>0, Zenon DEF TransportTypeOK
        <5>2. Holders(s)' = Holders(s) \cup {h}
          BY <3>1, <4>2, <2>0, Zenon DEF Holders
        <5> QED
          BY <5>1, <5>2, <4>1, <2>0, Zenon
      <4>3. CASE s # jobs[h].scope
        <5>1. locks'[s] = locks[s]
          BY <4>3, <2>1, <1>0, Zenon DEF TransportTypeOK
        <5>2. Holders(s)' = Holders(s)
          BY <3>1, <4>3, Zenon DEF Holders
        <5> QED
          BY <5>1, <5>2, <4>1, Zenon
      <4> QED
        BY <4>2, <4>3, Zenon
    <3>5. SchedulerIsExact'
      BY <3>2, <3>3, <3>4, Zenon DEF SchedulerInv, SchedulerIsExact, UnderWay, Holders
    <3>6. ScopesFit'
      BY <3>1, Zenon DEF SchedulerInv, ScopesFit, Over
    <3> QED
      BY <3>5, <3>6, <1>0, Zenon DEF SchedulerInv
  <2>2. CASE Goto(h, "free") /\ UNCHANGED locks
    <3>1. \A g \in Request :
             /\ jobs'[g].scope = jobs[g].scope
             /\ jobs'[g].pc = IF g = h THEN "free" ELSE jobs[g].pc
      BY <2>2, <1>0, Zenon DEF Goto, TransportTypeOK, JobType
    <3>2. UnderWay' = UnderWay
      BY <3>1, <2>0, Zenon DEF UnderWay, Over
    <3>3. \A s \in Scope : Holders(s)' = Holders(s)
      BY <3>1, <2>0, Zenon DEF Holders
    <3>4. UNCHANGED <<slots, locks>>
      BY <2>2, <1>1, Zenon DEF Lock
    <3>5. SchedulerIsExact'
      BY <3>2, <3>3, <3>4, SchedulerFromSets, Zenon DEF SchedulerInv
    <3>6. ScopesFit'
      BY <3>1, Zenon DEF SchedulerInv, ScopesFit, Over
    <3> QED
      BY <3>5, <3>6, <1>0 DEF SchedulerInv
  <2> QED
    BY <1>1, <2>1, <2>2, Zenon DEF Lock
<1>2. ASSUME NEW h \in Request, Write(h) PROVE SchedulerInv'
  <2>1. jobs[h].pc \in Holding /\ Goto(h, "unlock") /\ UNCHANGED <<slots, locks>>
    BY <1>2, Zenon DEF Write, Holding, schedulerVars
  <2> QED
    BY <2>1, <1>0, HoldingMoves, Zenon DEF Holding
<1>3. ASSUME NEW h \in Request, Unlock(h) PROVE SchedulerInv'
  <2>1. \A g \in Request :
           /\ jobs'[g].scope = jobs[g].scope
           /\ jobs'[g].pc = IF g = h THEN "free" ELSE jobs[g].pc
    BY <1>3, <1>0, Zenon DEF Unlock, Goto, TransportTypeOK, JobType
  <2>2. jobs[h].pc = "unlock" /\ slots' = slots
    BY <1>3, Zenon DEF Unlock
  <2>3. UnderWay' = UnderWay
    BY <2>1, <2>2, Zenon DEF UnderWay, Over
  <2>4. ASSUME NEW s \in Scope
        PROVE  Holders(s)' = {locks'[s]} \ {0}
    <3>1. Holders(s) = {locks[s]} \ {0}
      BY DEF SchedulerInv, SchedulerIsExact, Holders
    <3>2. locks'[s] = IF s = jobs[h].scope THEN 0 ELSE locks[s]
      BY <1>3, Zenon DEF Unlock
    <3>3. Holders(s)' = Holders(s) \ {h}
      BY <2>1, Zenon DEF Holders
    <3>4. h \in Holders(s) <=> s = jobs[h].scope
      BY <2>2, Zenon DEF Holders
    <3> QED
      BY <3>1, <3>2, <3>3, <3>4, Zenon
  <2>5. SchedulerIsExact'
    BY <2>2, <2>3, <2>4, Zenon DEF SchedulerInv, SchedulerIsExact, UnderWay, Holders
  <2>6. ScopesFit'
    BY <2>1 DEF SchedulerInv, ScopesFit, Over
  <2> QED
    BY <2>5, <2>6, <1>0 DEF SchedulerInv
<1>4. ASSUME NEW h \in Request, Free(h) PROVE SchedulerInv'
  <2>1. /\ \A g \in Request : g # h => jobs'[g] = jobs[g]
        /\ jobs'[h].pc = "done" /\ jobs'[h].scope = NoScope
    BY <1>4, <1>0, Zenon DEF Free, TransportTypeOK
  <2>2. jobs[h].pc = "free" /\ slots' = slots - 1 /\ locks' = locks
    BY <1>4, Zenon DEF Free
  <2>3. UnderWay' = UnderWay \ {h} /\ h \in UnderWay
    BY <2>1, <2>2, Zenon DEF UnderWay, Over
  <2>4. Cardinality(UnderWay \ {h}) = Cardinality(UnderWay) - 1
    <3>1. IsFiniteSet(UnderWay)
      BY Finite, Zenon DEF UnderWay
    <3> QED
      BY <3>1, <2>3, FS_RemoveElement, Zenon
  <2>5. \A s \in Scope : Holders(s)' = Holders(s)
    BY <2>1, <2>2, TransportConstants, Zenon DEF Holders
  <2>6. slots' = Cardinality(UnderWay') /\ slots' <= Limit
    <3>1. slots = Cardinality(UnderWay) /\ slots <= Limit /\ slots \in Int /\ Limit \in Nat
      BY <1>0, TransportConstants, Zenon DEF SchedulerInv, SchedulerIsExact, UnderWay,
         TransportTypeOK
    <3> QED
      BY <3>1, <2>2, <2>3, <2>4, SMTT(20)
  <2>7. SchedulerIsExact'
    BY <2>2, <2>5, <2>6, Zenon DEF SchedulerInv, SchedulerIsExact, UnderWay, Holders
  <2>8. ScopesFit'
    BY <2>1, Zenon DEF SchedulerInv, ScopesFit, Over
  <2> QED
    BY <2>7, <2>8, <1>0 DEF SchedulerInv
<1>5. ASSUME NEW h \in Request, Asking(h) PROVE SchedulerInv'
  <2>1. jobs[h].pc \in Holding /\ UNCHANGED <<slots, locks>>
    BY <1>5, Zenon DEF Asking, Ask, Publish, SignalReady, Receive, Abandon, Holding, schedulerVars
  <2>2. \E pc \in Holding : Goto(h, pc)
    BY <1>5, Zenon DEF Asking, Ask, Publish, SignalReady, Receive, Abandon, Holding
  <2> QED
    BY <2>1, <2>2, <1>0, HoldingMoves, Zenon
<1>6. ASSUME NEW h \in Request, NEW s \in Scope \cup {NoScope}, TryAcquire(h, s)
      PROVE  SchedulerInv'
  <2>1. /\ \A g \in Request : g # h => jobs'[g] = jobs[g]
        /\ jobs'[h].scope = s
        /\ jobs'[h].pc = IF s = NoScope THEN "work" ELSE "lock"
    BY <1>6, <1>0, Zenon DEF TryAcquire, TransportTypeOK
  <2>2. jobs[h].pc = "none" /\ slots' = slots + 1 /\ locks' = locks /\ slots < Limit
    BY <1>6, Zenon DEF TryAcquire
  <2>3. UnderWay' = UnderWay \cup {h} /\ h \notin UnderWay
    BY <2>1, <2>2, Zenon DEF UnderWay, Over
  <2>4. Cardinality(UnderWay \cup {h}) = Cardinality(UnderWay) + 1
    <3>1. IsFiniteSet(UnderWay)
      BY Finite, Zenon DEF UnderWay
    <3> QED
      BY <3>1, <2>3, FS_AddElement, Zenon
  <2>5. ASSUME NEW t \in Scope PROVE Holders(t)' = Holders(t)
    <3>1. jobs[h].scope = NoScope /\ NoScope \notin Scope
      BY <2>2, TransportConstants, Zenon DEF SchedulerInv, ScopesFit, Over
    <3> QED
      BY <2>1, <3>1, Zenon DEF Holders
  <2>6. slots' = Cardinality(UnderWay') /\ slots' <= Limit
    <3>1. slots = Cardinality(UnderWay) /\ slots \in Int /\ Limit \in Nat
      BY <1>0, TransportConstants, Zenon DEF SchedulerInv, SchedulerIsExact, UnderWay,
         TransportTypeOK
    <3> QED
      BY <3>1, <2>2, <2>3, <2>4
  <2>7. SchedulerIsExact'
    BY <2>2, <2>5, <2>6, Zenon DEF SchedulerInv, SchedulerIsExact, UnderWay, Holders
  <2>8. ScopesFit'
    BY <2>1, Zenon DEF SchedulerInv, ScopesFit, Over
  <2> QED
    BY <2>7, <2>8, <1>0, Zenon DEF SchedulerInv
<1>7. CASE UNCHANGED <<jobs, slots, locks>>
  BY <1>7, <1>0, Zenon DEF SchedulerInv, SchedulerIsExact, ScopesFit, Over
<1>8. \/ \E h \in Request : Serving(h) \/ Asking(h)
      \/ \E h \in Request, s \in Scope \cup {NoScope} : TryAcquire(h, s)
      \/ UNCHANGED <<jobs, slots, locks>>
  BY Zenon DEF Next, Reading, Overloaded, Answer, OtherLine, EndOfInput, Fails, Looping, Resolve,
     Bypass, DrainRequests, HandlersDone, TakeSignal, Return, Cancel, vars, schedulerVars
<1> QED
  BY <1>1, <1>2, <1>3, <1>4, <1>5, <1>6, <1>7, <1>8, Zenon DEF Serving

\* RequestScheduler: slots and scope locks are with exactly the requests that
\* are under way, on all paths of RequestLease.Run.
THEOREM SchedulerSafe == Spec => []SchedulerIsExact
<1>1. Init => SchedulerInv
  <2> SUFFICES ASSUME Init PROVE SchedulerInv
    OBVIOUS
  <2>1. \A h \in Request : jobs[h] = NoJob
    BY Zenon DEF Init
  <2>4. TransportTypeOK
    BY InitType, Zenon
  <2>5. ScopesFit
    BY <2>1 DEF ScopesFit, NoJob
  <2>6. UnderWay = {}
    BY <2>1 DEF UnderWay, Over, NoJob
  <2>7. \A s \in Scope : Holders(s) = {} /\ locks[s] = 0
    BY <2>1, TransportConstants, Zenon DEF Holders, NoJob, Init
  <2>8. SchedulerIsExact
    <3>1. slots = Cardinality(UnderWay)
      BY <2>6, FS_EmptySet, Zenon DEF Init
    <3>2. slots <= Limit
      BY TransportConstants DEF Init
    <3>3. \A s \in Scope : Holders(s) = {locks[s]} \ {0}
      BY <2>7, Zenon
    <3> QED
      BY <3>1, <3>2, <3>3, Zenon DEF SchedulerIsExact, UnderWay, Holders
  <2> QED
    BY <2>4, <2>5, <2>8, Zenon DEF SchedulerInv
<1>2. SchedulerInv /\ [Next]_vars => SchedulerInv'
  BY SchedulerStep, Zenon
<1>3. SchedulerInv => SchedulerIsExact
  BY Zenon DEF SchedulerInv
<1> QED
  BY <1>1, <1>2, <1>3, PTL DEF Spec

-----------------------------------------------------------------------------

\* What excuses a question that is not on its way, and what wakes the loop.
Excused == failure \/ failed # {} \/ loop.pc = "returned"

Awake == signal \/ loop.pc # "select" \/ \E h \in Request : jobs[h].pc = "signal"

Waiting(i) == jobs[i].pc \in {"publish", "signal", "await"}

OnItsWay(i) == jobs[i].pc = "publish" \/ i \in sent \cup dropped \/ (i \in ToSet(queue) /\ Awake)

\* What the invariant says of each question.
LEMMA QuestionsBy ==
    QuestionsReachClient <=> \A i \in pending : Waiting(i) /\ (Excused \/ OnItsWay(i))
  BY Zenon DEF QuestionsReachClient, Excused, Awake, Waiting, OnItsWay

\* A drained queue has reached the client, or its loss is excused.
LEMMA DrainSends ==
    ASSUME TransportTypeOK, AnswersFit, Drained
    PROVE  /\ ToSet(queue') = {}
           /\ sent \subseteq sent'
           /\ \A i \in ToSet(queue) : i \in pending => i \in sent'
           /\ \A i \in sent' : Asked(i)
  BY EmptySet, Zenon DEF Drained, AnswersFit

\* Of a drain that failed on the way the client has what the queue had.
LEMMA DrainSendsPart ==
    ASSUME TransportTypeOK, AnswersFit, DrainedInPart
    PROVE  /\ ToSet(queue') = {}
           /\ sent \subseteq sent'
           /\ \A i \in sent' : Asked(i)
<1>1. ASSUME NEW n \in 0..Len(queue), NEW i \in ToSet(SubSeq(queue, 1, n))
      PROVE  i \in ToSet(queue)
  <2>1. queue \in Seq(Request)
    BY DEF TransportTypeOK
  <2>2. PICK j \in DOMAIN SubSeq(queue, 1, n) : i = SubSeq(queue, 1, n)[j]
    BY Zenon DEF ToSet
  <2>3. j \in DOMAIN queue /\ i = queue[j]
    BY <2>1, <2>2
  <2> QED
    BY <2>3, Zenon DEF ToSet
<1> QED
  BY <1>1, EmptySet, Zenon DEF DrainedInPart, AnswersFit

\* Steps of the loop that leave the requests alone.
LEMMA LoopKeepsQuestions ==
    ASSUME QuestionInv, TransportTypeOK', UNCHANGED <<jobs, failed, pending, dropped>>,
           Drained \/ Excused' \/ (UNCHANGED <<queue, sent>> /\ loop'.pc # "select"),
           Drained \/ UNCHANGED <<queue, sent>> \/ DrainedInPart,
           Excused => Excused',
           answered' = answered \/ (loop.pc = "resolve" /\ answered' \subseteq answered \cup {loop.id}),
           loop'.pc # "resolve"
    PROVE  QuestionInv'
<1>1. /\ \A i \in ToSet(queue') : i \in ToSet(queue)
      /\ \A i \in sent' : Asked(i)
      /\ sent \subseteq sent'
  BY DrainSends, DrainSendsPart, EmptySet, Zenon DEF QuestionInv, AnswersFit
<1>2. \A i : Asked(i)' <=> Asked(i)
  BY Zenon DEF Asked
<1>3. AnswersFit'
  <2>1. \A i \in ToSet(queue)' : Asked(i)'
    BY <1>1, <1>2, Zenon DEF QuestionInv, AnswersFit
  <2>2. \A i \in sent' : Asked(i)'
    BY <1>1, <1>2, Zenon
  <2>3. \A i \in answered' : i \notin pending' /\ Asked(i)'
    BY <1>2, Zenon DEF QuestionInv, AnswersFit
  <2> QED
    BY <2>1, <2>2, <2>3, Zenon DEF AnswersFit
<1>4. ASSUME NEW i \in pending'
      PROVE  Waiting(i)' /\ (Excused' \/ OnItsWay(i)')
  <2>1. Waiting(i) /\ (Excused \/ OnItsWay(i))
    BY QuestionsBy, Zenon DEF QuestionInv
  <2>2. Waiting(i)'
    BY <2>1, Zenon DEF Waiting
  <2>3. CASE Drained
    BY <2>1, <2>2, <2>3, DrainSends, Zenon DEF OnItsWay, QuestionInv
  <2>4. CASE UNCHANGED <<queue, sent>> /\ loop'.pc # "select"
    BY <2>1, <2>2, <2>4, Zenon DEF OnItsWay, Awake
  <2> QED
    BY <2>2, <2>3, <2>4, Zenon
<1>5. QuestionsReachClient'
  BY <1>4, Zenon DEF QuestionsReachClient, Excused, Awake, Waiting, OnItsWay
<1> QED
  BY <1>3, <1>5, Zenon DEF QuestionInv

\* Steps of a request that has no pending question.
LEMMA OthersKeepQuestions ==
    ASSUME QuestionInv, TransportTypeOK', NEW h \in Request, ~Waiting(h),
           \A g \in Request : g # h => jobs'[g] = jobs[g],
           Asked(h) => Asked(h)', Excused => Excused', UNCHANGED <<loop, questionVars>>
    PROVE  QuestionInv'
<1>0. UNCHANGED <<pending, answered, queue, signal, sent, dropped, loop>>
  BY Zenon DEF questionVars
<1>1. \A g \in Request : Asked(g) => Asked(g)'
  BY Zenon DEF Asked
<1>2. /\ \A i \in ToSet(queue) : i \in Request
      /\ pending \subseteq Request /\ answered \subseteq Request /\ sent \subseteq Request
  BY DEF QuestionInv, TransportTypeOK, ToSet
<1>3. AnswersFit'
  BY <1>0, <1>1, <1>2, Zenon DEF QuestionInv, AnswersFit
<1>4. Awake => Awake'
  BY <1>0, Zenon DEF Awake, Waiting
<1>5. ASSUME NEW i \in pending'
      PROVE  Waiting(i)' /\ (Excused' \/ OnItsWay(i)')
  <2>1. i \in pending /\ i \in Request /\ Waiting(i) /\ (Excused \/ OnItsWay(i))
    BY <1>0, <1>2, QuestionsBy, Zenon DEF QuestionInv
  <2>2. jobs'[i] = jobs[i]
    BY <2>1, Zenon
  <2> QED
    BY <2>1, <2>2, <1>0, <1>4, Zenon DEF Waiting, OnItsWay
<1>6. QuestionsReachClient'
  BY <1>5, Zenon DEF QuestionsReachClient, Excused, Awake, Waiting, OnItsWay
<1> QED
  BY <1>3, <1>6, Zenon DEF QuestionInv

\* Every step keeps track of the questions.
LEMMA QuestionStep ==
    ASSUME QuestionInv, [Next]_vars
    PROVE  QuestionInv'
<1>0. TransportTypeOK /\ TransportTypeOK' /\ AnswersFit
  BY TypeStep, Zenon DEF QuestionInv
<1>1. /\ ToSet(queue) \subseteq Request
      /\ \A i \in pending : i \in Request /\ Waiting(i) /\ (Excused \/ OnItsWay(i))
  <2>1. ToSet(queue) \subseteq Request
    BY <1>0 DEF TransportTypeOK, ToSet
  <2>2. pending \subseteq Request
    BY <1>0, Zenon DEF TransportTypeOK
  <2> QED
    BY <2>1, <2>2, QuestionsBy, Zenon DEF QuestionInv
<1>2. ASSUME \A i \in pending' : Waiting(i)' /\ (Excused' \/ OnItsWay(i)')
      PROVE  QuestionsReachClient'
  BY <1>2, Zenon DEF QuestionsReachClient, Excused, Awake, Waiting, OnItsWay
<1>3. ASSUME NEW h \in Request, NEW pc, Goto(h, pc)
      PROVE  /\ \A g \in Request : g # h => jobs'[g] = jobs[g]
             /\ jobs'[h].pc = pc
  BY <1>3, <1>0, Zenon DEF Goto, TransportTypeOK, JobType
<1>4. ASSUME NEW h \in Request, Lock(h) \/ Unlock(h) PROVE QuestionInv'
  <2>1. PICK pc \in {"work", "free"} : Goto(h, pc)
    BY <1>4, Zenon DEF Lock, Unlock
  <2>2. ~Waiting(h) /\ (Asked(h) => Asked(h)')
    BY <1>4, <2>1, <1>3 DEF Lock, Unlock, Waiting, Asked
  <2>3. UNCHANGED <<loop, questionVars>> /\ (Excused => Excused')
    BY <1>4 DEF Lock, Unlock, Excused
  <2> QED
    BY <2>1, <2>2, <2>3, <1>3, <1>0, OthersKeepQuestions, Zenon
<1>5. ASSUME NEW h \in Request, Free(h) PROVE QuestionInv'
  <2>1. /\ \A g \in Request : g # h => jobs'[g] = jobs[g]
        /\ jobs'[h].pc = "done"
    BY <1>5, <1>0, Zenon DEF Free, TransportTypeOK
  <2>2. ~Waiting(h) /\ (Asked(h) => Asked(h)')
    BY <1>5, <2>1, Zenon DEF Free, Waiting, Asked
  <2>3. UNCHANGED <<loop, questionVars>>
    BY <1>5, Zenon DEF Free
  <2>4. Excused => Excused'
    BY <1>5, Zenon DEF Free, Excused
  <2> QED
    BY <2>1, <2>2, <2>3, <2>4, <1>0, OthersKeepQuestions, Zenon
<1>6. ASSUME NEW h \in Request, NEW s \in Scope \cup {NoScope}, TryAcquire(h, s)
      PROVE  QuestionInv'
  <2>1. /\ \A g \in Request : g # h => jobs'[g] = jobs[g]
        /\ jobs[h].pc = "none"
    BY <1>6, <1>0, Zenon DEF TryAcquire, TransportTypeOK
  <2>2. ~Waiting(h) /\ (Asked(h) => Asked(h)')
    BY <2>1, Zenon DEF Waiting, Asked
  <2>3. UNCHANGED <<loop, questionVars>> /\ (Excused => Excused')
    BY <1>6, Zenon DEF TryAcquire, Excused
  <2> QED
    BY <2>1, <2>2, <2>3, <1>0, OthersKeepQuestions, Zenon
<1>7. ASSUME NEW h \in Request, Write(h) PROVE QuestionInv'
  <2>1. /\ jobs[h].pc \in {"work", "write"} /\ Goto(h, "unlock")
        /\ UNCHANGED <<loop, pending, answered, signal, dropped, failure>>
        /\ Drained \/ DrainFails
        /\ Drained \/ Excused'
        /\ failed \subseteq failed'
    BY <1>7, Zenon DEF Write, Excused
  <2>2. \A g \in Request : Asked(g) => Asked(g)'
    BY <2>1, <1>3, Zenon DEF Asked
  <2>3. /\ sent \subseteq sent'
        /\ \A i \in ToSet(queue') : i \in ToSet(queue)
        /\ \A i \in sent' : Asked(i) /\ i \in Request
    BY <2>1, <1>0, DrainSends, DrainSendsPart, EmptySet, Zenon DEF DrainFails, AnswersFit, TransportTypeOK
  <2>4. AnswersFit'
    BY <2>1, <2>2, <2>3, <1>0, <1>1, Zenon DEF AnswersFit, TransportTypeOK
  <2>5. ASSUME NEW i \in pending'
        PROVE  Waiting(i)' /\ (Excused' \/ OnItsWay(i)')
    <3>1. i \in pending /\ i # h /\ jobs'[i] = jobs[i]
      BY <2>1, <1>1, <1>3, Zenon DEF Waiting
    <3>2. Waiting(i)' /\ (Excused => Excused')
      BY <3>1, <1>1, <2>1, Zenon DEF Waiting, Excused
    <3>3. CASE Drained
      <4>1. i \in ToSet(queue) => i \in sent'
        BY <3>3, <3>1, <1>0, DrainSends, Zenon
      <4> QED
        BY <4>1, <3>1, <3>2, <1>1, <2>1, <2>3, Zenon DEF OnItsWay
    <3> QED
      BY <3>2, <3>3, <2>1, Zenon
  <2> QED
    BY <2>4, <2>5, <1>0, <1>2, Zenon DEF QuestionInv
<1>8. ASSUME NEW h \in Request, Ask(h) PROVE QuestionInv'
  <2>1. /\ jobs[h].pc = "work" /\ Goto(h, "publish") /\ pending' = pending \cup {h}
        /\ UNCHANGED <<loop, failed, answered, queue, signal, sent, dropped, failure>>
    BY <1>8, Zenon DEF Ask
  <2>2. ~Asked(h) /\ \A g \in Request : Asked(g) => Asked(g)'
    BY <2>1, <1>3, Zenon DEF Asked
  <2>3. AnswersFit'
    BY <2>1, <2>2, <1>0, <1>1, Zenon DEF AnswersFit, TransportTypeOK
  <2>4. Awake => Awake'
    BY <2>1, <1>3, Zenon DEF Awake
  <2>5. ASSUME NEW i \in pending'
        PROVE  Waiting(i)' /\ (Excused' \/ OnItsWay(i)')
    <3>1. CASE i = h
      BY <3>1, <2>1, <1>3, Zenon DEF Waiting, OnItsWay
    <3>2. CASE i # h
      <4>1. i \in pending /\ jobs'[i] = jobs[i]
        BY <3>2, <2>1, <1>1, <1>3, Zenon
      <4> QED
        BY <4>1, <1>1, <2>1, <2>4, Zenon DEF Waiting, OnItsWay, Excused
    <3> QED
      BY <3>1, <3>2, Zenon
  <2> QED
    BY <2>3, <2>5, <1>0, <1>2 DEF QuestionInv
<1>9. ASSUME NEW h \in Request, Publish(h) PROVE QuestionInv'
  <2> DEFINE q == Append(queue, h)
  <2>1. /\ jobs[h].pc = "publish" /\ Goto(h, "signal")
        /\ UNCHANGED <<loop, failed, pending, answered, signal, sent, failure>>
        /\ dropped \subseteq dropped'
        /\ \/ queue' = q
           \/ queue' = Tail(q) /\ dropped' = dropped \cup ({Head(q)} \cap pending)
    BY <1>9, Zenon DEF Publish
  <2>2. q \in Seq(Request) /\ q # <<>>
    <3>1. queue \in Seq(Request)
      BY <1>0, Zenon DEF TransportTypeOK
    <3>2. Append(queue, h) \in Seq(Request)
      BY <3>1
    <3>3. Len(Append(queue, h)) = Len(queue) + 1 /\ Len(queue) \in Nat /\ Len(<<>>) = 0
      BY <3>1
    <3> QED
      BY <3>2, <3>3
  <2>3. ToSet(q) = ToSet(queue) \cup {h}
    BY <1>0, AppendSet DEF TransportTypeOK
  <2>4. ToSet(Tail(q)) \subseteq ToSet(q) /\ ToSet(q) \subseteq ToSet(Tail(q)) \cup {Head(q)}
    BY <2>2, TailSet, Zenon
  <2> HIDE DEF q
  <2>5. /\ ToSet(queue') \subseteq ToSet(queue) \cup {h}
        /\ \A i \in pending : i \in ToSet(queue) \cup {h} => i \in ToSet(queue') \cup dropped'
    BY <2>1, <2>3, <2>4, Zenon
  <2>6. Asked(h)' /\ \A g \in Request : Asked(g) => Asked(g)'
    BY <2>1, <1>3 DEF Asked
  <2>7. AnswersFit'
    BY <2>1, <2>5, <2>6, <1>0, <1>1, Zenon DEF AnswersFit, TransportTypeOK
  <2>8. Awake'
    BY <2>1, <1>3, Zenon DEF Awake
  <2>9. ASSUME NEW i \in pending'
        PROVE  Waiting(i)' /\ (Excused' \/ OnItsWay(i)')
    <3>1. i \in pending /\ i \in Request
      BY <2>1, <1>1, Zenon
    <3>2. CASE i = h
      BY <3>1, <3>2, <2>1, <2>5, <2>8, <1>3, Zenon DEF Waiting, OnItsWay
    <3>3. CASE i # h
      <4>1. jobs'[i] = jobs[i]
        BY <3>1, <3>3, <2>1, <1>3, Zenon
      <4> QED
        BY <4>1, <3>1, <1>1, <2>1, <2>5, <2>8, Zenon DEF Waiting, OnItsWay, Excused
    <3> QED
      BY <3>2, <3>3
  <2> QED
    BY <2>7, <2>9, <1>0, <1>2 DEF QuestionInv
<1>10. ASSUME NEW h \in Request, SignalReady(h) \/ Receive(h) \/ Abandon(h)
       PROVE  QuestionInv'
  <2>1. PICK pc \in {"await", "write"} : Goto(h, pc) /\ (pc = "write" => h \notin pending')
    BY <1>10, <1>0, Zenon DEF SignalReady, Receive, Abandon, AnswersFit
  <2>2. /\ jobs[h].pc \in {"signal", "await"} /\ UNCHANGED <<loop, failed, queue, failure>>
        /\ pending' \subseteq pending /\ answered' \subseteq answered /\ sent' \subseteq sent
        /\ \A i \in pending' : i \in sent \cup dropped => i \in sent' \cup dropped'
        /\ signal' \/ (signal' = signal /\ jobs[h].pc = "await")
    BY <1>10, Zenon DEF SignalReady, Receive, Abandon
  <2>3. \A g \in Request : Asked(g) => Asked(g)'
    BY <2>1, <1>3, Zenon DEF Asked
  <2>4. AnswersFit'
    BY <2>2, <2>3, <1>0, <1>1, Zenon DEF AnswersFit, TransportTypeOK
  <2>5. Awake => Awake'
    BY <2>1, <2>2, <1>3, Zenon DEF Awake
  <2>6. ASSUME NEW i \in pending'
        PROVE  Waiting(i)' /\ (Excused' \/ OnItsWay(i)')
    <3>1. i \in pending /\ i \in Request /\ (jobs[i].pc = "publish" => i # h)
      BY <2>2, <1>1, Zenon
    <3>2. Waiting(i)' /\ (jobs[i].pc = "publish" => jobs'[i].pc = "publish")
      BY <3>1, <2>1, <1>1, <1>3, Zenon DEF Waiting
    <3> QED
      BY <3>1, <3>2, <1>1, <2>2, <2>5, Zenon DEF OnItsWay, Excused
  <2> QED
    BY <2>4, <2>6, <1>0, <1>2, Zenon DEF QuestionInv
<1>11. ASSUME NEW i \in Request, Answer(i) PROVE QuestionInv'
  <2>1. /\ i \in sent /\ loop' = [pc |-> "resolve", id |-> i]
        /\ pending' = pending \ {i} /\ sent' = sent \ {i}
        /\ UNCHANGED <<jobs, failed, answered, queue, signal, dropped, failure>>
        /\ loop.pc # "returned"
    BY <1>11, Zenon DEF Answer, Select
  <2>2. AnswersFit'
    BY <2>1, <1>0, Zenon DEF AnswersFit, Asked
  <2>3. ASSUME NEW j \in pending'
        PROVE  Waiting(j)' /\ (Excused' \/ OnItsWay(j)')
    BY <2>1, <1>1, Zenon DEF Waiting, Excused, OnItsWay, Awake
  <2> QED
    BY <2>2, <2>3, <1>0, <1>2 DEF QuestionInv
<1>12. CASE loop.pc # "returned" /\ \E pc \in {"bypass", "requests", "eof", "returned"} :
               LoopGoto(pc) /\ UNCHANGED <<jobs, failed, pending, queue, sent, dropped, failure>>
               /\ (answered' = answered
                   \/ (loop.pc = "resolve" /\ answered' \subseteq answered \cup {loop.id}))
  <2>1. loop'.pc \in {"bypass", "requests", "eof", "returned"}
    BY <1>12, Zenon DEF LoopGoto, Select
  <2>2. UNCHANGED <<jobs, failed, pending, queue, sent, dropped, failure>>
    BY <1>12, Zenon
  <2>3. Excused => Excused'
    BY <2>2, <1>12, Zenon DEF Excused
  <2> QED
    BY <2>1, <2>2, <2>3, <1>0, <1>12, LoopKeepsQuestions, Zenon
<1>13. CASE loop.pc # "returned" /\ (Bypass \/ DrainRequests \/ HandlersDone)
  <2>1. /\ UNCHANGED <<jobs, failed, pending, dropped, answered>>
        /\ Drained \/ UNCHANGED <<queue, sent>> \/ DrainedInPart
        /\ failure => failure'
    BY <1>13 DEF Bypass, DrainRequests, HandlersDone, DrainFails
  <2>2. loop'.pc \in {"select", "returned"}
    BY <1>13, Zenon DEF Bypass, DrainRequests, HandlersDone, LoopGoto, Select
  <2>3. Drained \/ failure' \/ loop'.pc = "returned"
    BY <1>13, Zenon DEF Bypass, DrainRequests, HandlersDone, LoopGoto, Select
  <2>4. (Excused => Excused') /\ (Drained \/ Excused')
    BY <2>1, <2>3, <1>13, Zenon DEF Excused
  <2> QED
    BY <2>1, <2>2, <2>4, <1>0, LoopKeepsQuestions, Zenon
<1>14. CASE UNCHANGED <<loop, jobs, failed, questionVars, failure>>
  BY <1>14, <1>0, Zenon DEF QuestionInv, AnswersFit, QuestionsReachClient, questionVars, Asked
<1>15. CASE Next /\ (Reading \/ Looping \/ TakeSignal \/ Return \/ Cancel)
  <2>0. loop.pc # "returned"
    BY <1>15, Zenon DEF Next, Open
  <2>1. CASE Overloaded
    <3>1. loop = Select /\ (LoopGoto("select") => loop' = loop)
      BY <2>1, Zenon DEF Overloaded, LoopGoto, Select
    <3> QED
      BY <2>0, <2>1, <3>1, <1>12, <1>14, Zenon DEF Overloaded, questionVars
  <2>2. CASE OtherLine \/ EndOfInput \/ Fails \/ Return
    BY <2>0, <2>2, <1>12, Zenon DEF OtherLine, EndOfInput, Fails, Return, questionVars
  <2>3. CASE Resolve \/ TakeSignal
    <3>1. answered' = answered
          \/ (loop.pc = "resolve" /\ answered' \subseteq answered \cup {loop.id})
      BY <2>3, Zenon DEF Resolve, TakeSignal
    <3> QED
      BY <2>0, <2>3, <3>1, <1>12, Zenon DEF Resolve, TakeSignal
  <2>4. CASE Cancel
    BY <2>4, <1>14, Zenon DEF Cancel
  <2> QED
    BY <1>15, <2>0, <2>1, <2>2, <2>3, <2>4, <1>6, <1>11, <1>13, Zenon DEF Reading, Looping
<1>16. CASE UNCHANGED vars
  BY <1>16, <1>14, Zenon DEF vars
<1> QED
  BY <1>4, <1>5, <1>7, <1>8, <1>9, <1>10, <1>15, <1>16, Zenon DEF Next, Serving, Asking

\* RequestQueue and ServeJSONLines: no pending question is forgotten between
\* the queue, its signal and the loop that drains it.
THEOREM QuestionsSafe == Spec => []QuestionsReachClient
<1>1. Init => QuestionInv
  <2> SUFFICES ASSUME Init PROVE QuestionInv
    OBVIOUS
  <2>1. AnswersFit
    BY EmptySet, Zenon DEF Init, AnswersFit, Select
  <2>2. QuestionsReachClient
    BY Zenon DEF Init, QuestionsReachClient
  <2> QED
    BY <2>1, <2>2, InitType, Zenon DEF QuestionInv
<1>2. QuestionInv /\ [Next]_vars => QuestionInv'
  BY QuestionStep
<1>3. QuestionInv => QuestionsReachClient
  BY DEF QuestionInv
<1> QED
  BY <1>1, <1>2, <1>3, PTL DEF Spec

=============================================================================
