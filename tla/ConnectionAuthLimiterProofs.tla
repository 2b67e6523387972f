--------------------- MODULE ConnectionAuthLimiterProofs --------------------
(***************************************************************************)
(* TLAPS proofs about ConnectionAuthLimiter, for every set of requests and *)
(* every pair of limits.                                                   *)
(***************************************************************************)
EXTENDS ConnectionAuthLimiter, SequenceTheorems, FiniteSetTheorems, TLAPS

\* The four invariants are inductive together: a slot passes on correctly only
\* if the head of the queue is a waiter, and is counted only if it was not
\* running before.
IInv ==
    /\ TypeOK
    /\ QueueIsWaiters
    /\ CounterIsExact
    /\ NoIdleSlot

(***************************************************************************)
(* Counting the running requests.                                          *)
(***************************************************************************)
LEMMA RunningIsFinite == IsFiniteSet(InState("running"))
<1>1. InState("running") \subseteq Requests
  BY DEF InState
<1> QED
  BY <1>1, RequestsAssumption, FS_Subset

\* A request that starts is counted once more ...
LEMMA OneMoreRuns ==
    ASSUME NEW r \in Requests, request[r] # "running",
           InState("running")' = InState("running") \union {r}
    PROVE  Cardinality(InState("running"))' = Cardinality(InState("running")) + 1
<1>1. r \notin InState("running")
  BY DEF InState
<1>2. Cardinality(InState("running") \union {r}) = Cardinality(InState("running")) + 1
  BY <1>1, RunningIsFinite, FS_AddElement
<1> QED
  BY <1>2

\* ... and one that ends once less.
LEMMA OneLessRuns ==
    ASSUME NEW r \in Requests, request[r] = "running",
           InState("running")' = InState("running") \ {r}
    PROVE  /\ Cardinality(InState("running"))' = Cardinality(InState("running")) - 1
           /\ Cardinality(InState("running")) >= 1
<1>1. r \in InState("running")
  BY DEF InState
<1>2. Cardinality(InState("running") \ {r}) = Cardinality(InState("running")) - 1
  BY <1>1, RunningIsFinite, FS_RemoveElement
<1>3. /\ IsFiniteSet(InState("running") \ {r})
      /\ Cardinality(InState("running") \ {r}) \in Nat
  BY RunningIsFinite, FS_RemoveElement, FS_CardinalityType
<1>4. Cardinality(InState("running")) \in Nat
  BY RunningIsFinite, FS_CardinalityType
<1> QED
  BY <1>2, <1>3, <1>4

(***************************************************************************)
(* The steps.                                                              *)
(***************************************************************************)
LEMMA InitIInv == Init => IInv
<1> SUFFICES ASSUME Init PROVE IInv
  OBVIOUS
<1> USE DEF Init
<1>1. TypeOK
  BY LimitsAssumption, EmptySeq DEF TypeOK, States
<1>2. QueueIsWaiters
  BY DEF QueueIsWaiters, InState, ToSet
<1>3. InState("running") = {}
  BY DEF InState
<1>4. CounterIsExact
  BY <1>3, FS_EmptySet DEF CounterIsExact
<1>5. NoIdleSlot
  BY DEF NoIdleSlot
<1> QED
  BY <1>1, <1>2, <1>4, <1>5 DEF IInv

LEMMA RunNowStep ==
    ASSUME IInv, NEW r \in Requests, RunNow(r)
    PROVE  IInv'
<1> USE DEF IInv, TypeOK
<1>0. request' = [request EXCEPT ![r] = "running"] /\ request[r] = "new" /\ queue' = queue
  BY DEF RunNow, Becomes
<1>1. TypeOK'
  BY LimitsAssumption DEF RunNow, Becomes, States
<1>2. InState("waiting")' = InState("waiting")
  BY <1>0 DEF InState
<1>3. QueueIsWaiters'
  BY <1>0, <1>2 DEF QueueIsWaiters, ToSet
<1>4. InState("running")' = InState("running") \union {r}
  BY <1>0 DEF InState
<1>5. CounterIsExact'
  BY <1>0, <1>4, OneMoreRuns DEF CounterIsExact, RunNow
<1>6. NoIdleSlot'
  BY <1>0 DEF NoIdleSlot, RunNow
<1> QED
  BY <1>1, <1>3, <1>5, <1>6

LEMMA RefuseFullStep ==
    ASSUME IInv, NEW r \in Requests, RefuseFull(r)
    PROVE  IInv'
<1> USE DEF IInv, TypeOK
<1>0. /\ request' = [request EXCEPT ![r] = "queue_full"] /\ request[r] = "new"
      /\ queue' = queue /\ active' = active
  BY DEF RefuseFull, Becomes
<1>1. TypeOK'
  BY <1>0 DEF RefuseFull, States
<1>2. InState("waiting")' = InState("waiting") /\ InState("running")' = InState("running")
  BY <1>0 DEF InState
<1>3. QueueIsWaiters'
  BY <1>0, <1>2 DEF QueueIsWaiters, ToSet
<1>4. CounterIsExact' /\ NoIdleSlot'
  BY <1>0, <1>2 DEF CounterIsExact, NoIdleSlot
<1> QED
  BY <1>1, <1>3, <1>4

LEMMA QueueStep ==
    ASSUME IInv, NEW r \in Requests, Queue(r)
    PROVE  IInv'
<1> USE DEF IInv, TypeOK
<1>0. /\ request' = [request EXCEPT ![r] = "waiting"] /\ request[r] = "new"
      /\ queue' = Append(queue, r) /\ active' = active /\ active >= MaxConcurrent
      /\ Len(queue) \in Nat /\ Len(queue) < MaxQueued
  BY DEF Queue, Becomes
<1>1. /\ queue' \in Seq(Requests)
      /\ Len(queue') = Len(queue) + 1
      /\ \A j \in 1 .. Len(queue) : queue'[j] = queue[j]
      /\ queue'[Len(queue) + 1] = r
  BY <1>0
<1>2. TypeOK'
  BY <1>0, <1>1, LimitsAssumption DEF Queue, States
<1>3. InState("waiting")' = InState("waiting") \union {r}
  BY <1>0 DEF InState
<1>4. InState("running")' = InState("running")
  BY <1>0 DEF InState
<1>5. ToSet(queue)' = ToSet(queue) \union {r}
  BY <1>0, <1>1 DEF ToSet
<1>6. \A j \in 1 .. Len(queue) : queue[j] # r
  BY <1>0 DEF QueueIsWaiters, InState, ToSet
<1>7. \A j, k \in 1 .. Len(queue') : queue'[j] = queue'[k] => j = k
  <2> SUFFICES ASSUME NEW j \in 1 .. Len(queue) + 1, NEW k \in 1 .. Len(queue) + 1,
                      queue'[j] = queue'[k]
               PROVE  j = k
    BY <1>1
  <2>1. CASE j <= Len(queue) /\ k <= Len(queue)
    BY <1>0, <1>1, <2>1 DEF QueueIsWaiters
  <2>2. CASE j > Len(queue) /\ k > Len(queue)
    BY <1>0, <2>2
  <2>3. CASE j <= Len(queue) /\ k > Len(queue)
    <3>1. j \in 1 .. Len(queue) /\ k = Len(queue) + 1
      BY <1>0, <2>3
    <3> QED
      BY <3>1, <1>1, <1>6
  <2>4. CASE j > Len(queue) /\ k <= Len(queue)
    <3>1. k \in 1 .. Len(queue) /\ j = Len(queue) + 1
      BY <1>0, <2>4
    <3> QED
      BY <3>1, <1>1, <1>6
  <2> QED
    BY <1>0, <2>1, <2>2, <2>3, <2>4
<1>8. QueueIsWaiters'
  BY <1>3, <1>5, <1>7 DEF QueueIsWaiters
<1>9. CounterIsExact' /\ NoIdleSlot'
  BY <1>0, <1>4, LimitsAssumption DEF CounterIsExact, NoIdleSlot
<1> QED
  BY <1>2, <1>8, <1>9

\* A queue that loses one waiter, splice(index, 1).
LEMMA RemoveAtFacts ==
    ASSUME NEW S, NEW s \in Seq(S), NEW i \in 1 .. Len(s)
    PROVE  /\ RemoveAt(s, i) \in Seq(S)
           /\ Len(RemoveAt(s, i)) = Len(s) - 1
           /\ \A j \in 1 .. Len(s) - 1 :
                 RemoveAt(s, i)[j] = IF j < i THEN s[j] ELSE s[j + 1]
<1> DEFINE front == SubSeq(s, 1, i - 1)
           back  == SubSeq(s, i + 1, Len(s))
<1>1. Len(s) \in Nat
  OBVIOUS
<1>2. /\ front \in Seq(S)
      /\ Len(front) = i - 1
      /\ \A j \in 1 .. i - 1 : front[j] = s[j]
  BY <1>1
<1>3. /\ back \in Seq(S)
      /\ Len(back) = Len(s) - i
      /\ \A j \in 1 .. Len(s) - i : back[j] = s[i + j]
  BY <1>1
<1> HIDE DEF front, back
<1>4. /\ front \o back \in Seq(S)
      /\ Len(front \o back) = Len(front) + Len(back)
      /\ \A j \in 1 .. Len(front) + Len(back) :
            (front \o back)[j] = IF j <= Len(front) THEN front[j] ELSE back[j - Len(front)]
  BY <1>2, <1>3, ConcatProperties, ZenonT(20)
<1>5. Len(front \o back) = Len(s) - 1
  BY <1>1, <1>2, <1>3, <1>4
<1>6. ASSUME NEW j \in 1 .. Len(s) - 1
      PROVE  (front \o back)[j] = IF j < i THEN s[j] ELSE s[j + 1]
  <2>1. j \in 1 .. Len(front) + Len(back)
    BY <1>1, <1>2, <1>3
  <2>2. CASE j < i
    BY <1>1, <1>2, <1>3, <1>4, <2>1, <2>2
  <2>3. CASE ~(j < i)
    <3>1. j - Len(front) \in 1 .. Len(s) - i /\ i + (j - Len(front)) = j + 1
       BY <1>1, <1>2, <2>3
    <3>2. (front \o back)[j] = back[j - Len(front)]
       BY <1>2, <1>4, <2>1, <2>3
    <3> QED
       BY <3>1, <3>2, <2>3, <1>3
  <2> QED
    BY <2>2, <2>3
<1> QED
  BY <1>4, <1>5, <1>6 DEF RemoveAt, front, back

LEMMA WaitTimeoutStep ==
    ASSUME IInv, NEW r \in Requests, WaitTimeout(r)
    PROVE  IInv'
<1> USE DEF IInv, TypeOK
<1>0. /\ request' = [request EXCEPT ![r] = "wait_timeout"] /\ request[r] = "waiting"
      /\ active' = active /\ rejected' = rejected + 1
  BY DEF WaitTimeout, Becomes
<1>1. r \in ToSet(queue)
  BY <1>0 DEF QueueIsWaiters, InState
<1>2. PICK k \in DOMAIN queue : queue[k] = r /\ queue' = RemoveAt(queue, k)
  BY <1>1 DEF WaitTimeout
<1>3. Len(queue) \in Nat /\ k \in 1 .. Len(queue)
  BY <1>2
<1>4. /\ queue' \in Seq(Requests)
      /\ Len(queue') = Len(queue) - 1
      /\ \A j \in 1 .. Len(queue) - 1 : queue'[j] = IF j < k THEN queue[j] ELSE queue[j + 1]
  BY <1>2, <1>3, RemoveAtFacts
<1>5. TypeOK'
  BY <1>0, <1>3, <1>4, LimitsAssumption DEF States
<1>6. InState("waiting")' = InState("waiting") \ {r}
  BY <1>0 DEF InState
<1>7. InState("running")' = InState("running")
  BY <1>0 DEF InState
<1>8. ToSet(queue)' = ToSet(queue) \ {r}
  <2>1. ASSUME NEW x \in ToSet(queue') PROVE x \in ToSet(queue) \ {r}
    <3>1. PICK j \in 1 .. Len(queue) - 1 : queue'[j] = x
      BY <1>4, <2>1 DEF ToSet
    <3>2. PICK m \in 1 .. Len(queue) : queue[m] = x /\ m # k
      <4>1. CASE j < k
        BY <1>3, <1>4, <3>1, <4>1
      <4>2. CASE ~(j < k)
        <5>1. j + 1 \in 1 .. Len(queue) /\ j + 1 # k
          BY <1>3, <4>2
        <5> QED
          BY <1>4, <3>1, <4>2, <5>1
      <4> QED
        BY <4>1, <4>2
    <3> QED
      BY <1>2, <1>3, <3>2 DEF QueueIsWaiters, ToSet
  <2>2. ASSUME NEW x \in ToSet(queue), x # r PROVE x \in ToSet(queue')
    <3>1. PICK m \in 1 .. Len(queue) : queue[m] = x
      BY <2>2 DEF ToSet
    <3>2. m # k
      BY <1>2, <2>2, <3>1
    <3>3. \E j \in 1 .. Len(queue) - 1 : queue'[j] = x
      <4>1. CASE m < k
        <5>1. m \in 1 .. Len(queue) - 1
          BY <1>3, <4>1
        <5> QED
          BY <1>4, <3>1, <4>1, <5>1
      <4>2. CASE m > k
        <5>1. m - 1 \in 1 .. Len(queue) - 1 /\ ~(m - 1 < k) /\ (m - 1) + 1 = m
          BY <1>3, <4>2
        <5> QED
          BY <1>4, <3>1, <5>1
      <4> QED
        BY <1>3, <3>2, <4>1, <4>2
    <3> QED
      BY <1>3, <1>4, <3>3 DEF ToSet
  <2> QED
    BY <2>1, <2>2
<1>9. \A i, j \in 1 .. Len(queue') : queue'[i] = queue'[j] => i = j
  <2> SUFFICES ASSUME NEW i \in 1 .. Len(queue) - 1, NEW j \in 1 .. Len(queue) - 1,
                      queue'[i] = queue'[j]
               PROVE  i = j
    BY <1>4
  <2> DEFINE old(n) == IF n < k THEN n ELSE n + 1
  <2>1. old(i) \in 1 .. Len(queue) /\ old(j) \in 1 .. Len(queue)
    BY <1>3
  <2>2. queue[old(i)] = queue[old(j)]
    BY <1>4
  <2>3. old(i) = old(j)
    BY <2>1, <2>2 DEF QueueIsWaiters
  <2> QED
    BY <1>3, <2>3
<1>10. QueueIsWaiters'
  BY <1>6, <1>8, <1>9 DEF QueueIsWaiters
<1>11. CounterIsExact'
  BY <1>0, <1>7 DEF CounterIsExact
<1>12. NoIdleSlot'
  <2>1. queue # <<>>
    BY <1>3
  <2> QED
    BY <1>0, <2>1 DEF NoIdleSlot
<1> QED
  BY <1>5, <1>10, <1>11, <1>12

LEMMA FinishStep ==
    ASSUME IInv, NEW r \in Requests, Finish(r)
    PROVE  IInv'
<1> USE DEF IInv, TypeOK
<1>0. /\ request' = [request EXCEPT ![r] = "done"] /\ request[r] = "running"
      /\ queue' = queue /\ queue = <<>> /\ active' = active - 1
  BY DEF Finish, Becomes
<1>1. InState("running")' = InState("running") \ {r}
  BY <1>0 DEF InState
<1>2. CounterIsExact' /\ active >= 1
  BY <1>0, <1>1, OneLessRuns DEF CounterIsExact
<1>3. TypeOK'
  BY <1>0, <1>2, LimitsAssumption DEF Finish, States
<1>4. InState("waiting")' = InState("waiting")
  BY <1>0 DEF InState
<1>5. QueueIsWaiters'
  BY <1>0, <1>4 DEF QueueIsWaiters, ToSet
<1>6. NoIdleSlot'
  BY <1>0 DEF NoIdleSlot
<1> QED
  BY <1>2, <1>3, <1>5, <1>6

LEMMA HandOverStep ==
    ASSUME IInv, NEW r \in Requests, HandOver(r)
    PROVE  IInv'
<1> USE DEF IInv, TypeOK
<1> DEFINE next == Head(queue)
<1>0. /\ request' = [request EXCEPT ![r] = "done", ![next] = "running"]
      /\ request[r] = "running"
      /\ queue # <<>> /\ queue' = Tail(queue) /\ active' = active /\ rejected' = rejected
  BY DEF HandOver
<1>1. /\ Len(queue) \in Nat /\ Len(queue) >= 1
      /\ next = queue[1] /\ next \in Requests
      /\ queue' \in Seq(Requests) /\ Len(queue') = Len(queue) - 1
      /\ \A j \in 1 .. Len(queue) - 1 : queue'[j] = queue[j + 1]
  BY <1>0
<1>2. request[next] = "waiting" /\ next # r
  <2>1. next \in ToSet(queue)
    BY <1>1 DEF ToSet
  <2> QED
    BY <1>0, <2>1 DEF QueueIsWaiters, InState
<1> HIDE DEF next
<1>3. TypeOK'
  BY <1>0, <1>1, LimitsAssumption DEF States
<1>4. /\ request'[r] = "done" /\ request'[next] = "running"
      /\ \A x \in Requests : x # r /\ x # next => request'[x] = request[x]
  BY <1>0, <1>1, <1>2
<1>5. InState("waiting")' = InState("waiting") \ {next}
  BY <1>0, <1>1, <1>2, <1>4 DEF InState
<1>6. InState("running")' = (InState("running") \ {r}) \union {next}
  BY <1>0, <1>1, <1>2, <1>4 DEF InState
<1>7. CounterIsExact'
  <2>1. /\ r \in InState("running") /\ next \notin InState("running")
    BY <1>0, <1>2 DEF InState
  <2>2. /\ IsFiniteSet(InState("running") \ {r})
        /\ Cardinality(InState("running") \ {r}) = Cardinality(InState("running")) - 1
    BY <2>1, RunningIsFinite, FS_RemoveElement
  <2>3. Cardinality((InState("running") \ {r}) \union {next})
            = Cardinality(InState("running") \ {r}) + 1
    BY <2>1, <2>2, FS_AddElement
  <2>4. Cardinality(InState("running")) \in Nat
    BY RunningIsFinite, FS_CardinalityType
  <2>5. Cardinality(InState("running"))'
            = Cardinality((InState("running") \ {r}) \union {next})
    BY <1>6
  <2>6. Cardinality(InState("running"))' = Cardinality(InState("running"))
    BY <2>2, <2>3, <2>4, <2>5
  <2> QED
    BY <1>0, <2>6 DEF CounterIsExact
<1>8. ToSet(queue)' = ToSet(queue) \ {next}
  <2>1. ASSUME NEW x \in ToSet(queue') PROVE x \in ToSet(queue) \ {next}
    <3>1. PICK j \in 1 .. Len(queue) - 1 : queue'[j] = x
      BY <1>1, <2>1 DEF ToSet
    <3>2. j + 1 \in 1 .. Len(queue) /\ queue[j + 1] = x /\ j + 1 # 1 /\ 1 \in 1 .. Len(queue)
      BY <1>1, <3>1
    <3> QED
      BY <1>1, <3>2 DEF QueueIsWaiters, ToSet
  <2>2. ASSUME NEW x \in ToSet(queue), x # next PROVE x \in ToSet(queue')
    <3>1. PICK m \in 1 .. Len(queue) : queue[m] = x
      BY <2>2 DEF ToSet
    <3>2. m # 1
      BY <1>1, <2>2, <3>1
    <3>3. m - 1 \in 1 .. Len(queue) - 1 /\ (m - 1) + 1 = m
      BY <1>1, <3>1, <3>2
    <3>4. queue'[m - 1] = x
      BY <1>1, <3>1, <3>3
    <3> QED
      BY <1>1, <3>3, <3>4 DEF ToSet
  <2> QED
    BY <2>1, <2>2
<1>9. \A i, j \in 1 .. Len(queue') : queue'[i] = queue'[j] => i = j
  <2> SUFFICES ASSUME NEW i \in 1 .. Len(queue) - 1, NEW j \in 1 .. Len(queue) - 1,
                      queue'[i] = queue'[j]
               PROVE  i = j
    BY <1>1
  <2>1. i + 1 \in 1 .. Len(queue) /\ j + 1 \in 1 .. Len(queue)
    BY <1>1
  <2>2. queue[i + 1] = queue[j + 1]
    BY <1>1
  <2>3. i + 1 = j + 1
    BY <2>1, <2>2 DEF QueueIsWaiters
  <2> QED
    BY <1>1, <2>3
<1>10. QueueIsWaiters'
  BY <1>5, <1>8, <1>9 DEF QueueIsWaiters
<1>11. NoIdleSlot'
  BY <1>0 DEF NoIdleSlot
<1> QED
  BY <1>3, <1>7, <1>10, <1>11

LEMMA StepIInv == IInv /\ [Next]_vars => IInv'
<1> SUFFICES ASSUME IInv, [Next]_vars PROVE IInv'
  OBVIOUS
<1>1. CASE UNCHANGED vars
  BY <1>1 DEF vars, IInv, TypeOK, QueueIsWaiters, CounterIsExact, NoIdleSlot, InState, ToSet
<1>2. CASE Next
  <2>1. PICK r \in Requests : \/ RunNow(r) \/ RefuseFull(r) \/ Queue(r)
                              \/ WaitTimeout(r) \/ Finish(r) \/ HandOver(r)
    BY <1>2 DEF Next
  <2> QED
    BY <2>1, RunNowStep, RefuseFullStep, QueueStep, WaitTimeoutStep, FinishStep, HandOverStep
<1> QED
  BY <1>1, <1>2

LEMMA Inductive == Spec => []IInv
<1> QED
  BY InitIInv, StepIInv, PTL DEF Spec

(***************************************************************************)
(* The theorems.                                                           *)
(***************************************************************************)

\* At most maxConcurrent authentications are counted as running and at most
\* maxQueued wait (run, execute).
THEOREM BoundsHold == Spec => []TypeOK
<1>1. IInv => TypeOK
  BY DEF IInv
<1> QED
  BY <1>1, Inductive, PTL

\* The count of running authentications is exact whatever mix of hand-overs,
\* time outs and endings happened, so the bound is a bound on the tasks.
THEOREM CountIsExact == Spec => [](CounterIsExact /\ Cardinality(InState("running")) <= MaxConcurrent)
<1>1. IInv => CounterIsExact /\ Cardinality(InState("running")) <= MaxConcurrent
  BY LimitsAssumption DEF IInv, TypeOK, CounterIsExact
<1> QED
  BY <1>1, Inductive, PTL

\* No slot stays idle while an authentication waits (the finally block).
THEOREM SlotsAreUsed == Spec => [](NoIdleSlot /\ QueueIsWaiters)
<1>1. IInv => NoIdleSlot /\ QueueIsWaiters
  BY DEF IInv
<1> QED
  BY <1>1, Inductive, PTL

\* Waiters start in arrival order and no newcomer passes them.
THEOREM ArrivalOrder == Spec => FirstComeFirstServed
<1> DEFINE InOrder == \A r \in Requests :
                          request[r] # "running" /\ request'[r] = "running" =>
                              IF queue = <<>> THEN request[r] = "new" ELSE r = Head(queue)
<1>1. ASSUME IInv, [Next]_vars PROVE [InOrder]_vars
  <2>1. CASE UNCHANGED vars
    BY <2>1
  <2>2. CASE Next
    <3> SUFFICES ASSUME NEW x \in Requests, request[x] # "running", request'[x] = "running"
                 PROVE  IF queue = <<>> THEN request[x] = "new" ELSE x = Head(queue)
      OBVIOUS
    <3> USE DEF IInv, TypeOK
    <3>1. PICK r \in Requests : \/ RunNow(r) \/ RefuseFull(r) \/ Queue(r)
                                \/ WaitTimeout(r) \/ Finish(r) \/ HandOver(r)
      BY <2>2 DEF Next
    <3>2. CASE RunNow(r)
      <4>1. active # MaxConcurrent
        BY <3>2, <1>1, LimitsAssumption DEF RunNow
      <4>2. queue = <<>>
        BY <4>1, <1>1 DEF NoIdleSlot
      <4>3. x = r /\ request[x] = "new"
        BY <1>1, <3>2 DEF RunNow, Becomes
      <4> QED
        BY <4>2, <4>3
    <3>3. CASE HandOver(r)
      <4>1. /\ request' = [request EXCEPT ![r] = "done", ![Head(queue)] = "running"]
            /\ queue # <<>>
        BY <3>3 DEF HandOver
      <4>2. x = Head(queue)
        BY <1>1, <4>1
      <4> QED
        BY <4>1, <4>2
    <3>4. CASE RefuseFull(r) \/ Queue(r) \/ WaitTimeout(r) \/ Finish(r)
      BY <1>1, <3>4 DEF RefuseFull, Queue, WaitTimeout, Finish, Becomes
    <3> QED
      BY <3>1, <3>2, <3>3, <3>4
  <2> QED
    BY <1>1, <2>1, <2>2
<1> QED
  BY <1>1, Inductive, PTL DEF Spec, FirstComeFirstServed
=============================================================================
