------------------------ MODULE ProjectionQueueProofs -----------------------
(***************************************************************************)
(* TLAPS proofs about ProjectionQueue, for every set of lanes, every       *)
(* finite set of work and every bound.                                     *)
(***************************************************************************)
EXTENDS ProjectionQueue, FiniteSetTheorems, TLAPS

\* Work that was enqueued: the lanes map and the chain name only such work.
Chained == {w \in Work : state[w] \in {"queued", "running", "done"}}

\* A link of a chain stays in its lane.
LinksInv ==
    /\ \A l \in Lanes : tail[l] # Nothing => tail[l] \in Chained /\ LaneOf[tail[l]] = l
    /\ \A w \in Chained : prev[w] # Nothing => prev[w] \in Chained /\ LaneOf[prev[w]] = LaneOf[w]

\* When the tail of a lane has settled, the lane is idle ...
TailInv ==
    \A l \in Lanes \ cut : Settled(tail[l]) => Unfinished(l) = {}

\* ... because the tail is chained behind everything else that is unfinished,
BehindInv ==
    \A l \in Lanes \ cut : \A v \in Unfinished(l) : v = tail[l] \/ v \in since[tail[l]]

\* and so was each predecessor when work was chained behind it.
SinceInv ==
    \A w \in Chained : LaneOf[w] \notin cut =>
        \A v \in since[w] :
            state[v] = "done" \/ (prev[w] # Nothing /\ (v = prev[w] \/ v \in since[prev[w]]))

IInv ==
    /\ TypeOK
    /\ LinksInv
    /\ TailInv
    /\ BehindInv
    /\ SinceInv
    /\ LaneIsSerial
    /\ PendingIsExact
    /\ BoundHolds

BoundedIn(l) == Unfinished(l) \intersect Bounded

(***************************************************************************)
(* Counting the bounded work of a lane.                                    *)
(***************************************************************************)
LEMMA BoundedIsFinite ==
    ASSUME NEW l
    PROVE  /\ IsFiniteSet(BoundedIn(l))
           /\ Cardinality(BoundedIn(l)) \in Nat
<1>1. BoundedIn(l) \subseteq Work
  BY DEF BoundedIn, Unfinished
<1>2. IsFiniteSet(BoundedIn(l))
  BY <1>1, WorkAssumption, FS_Subset
<1> QED
  BY <1>2, FS_CardinalityType

\* PendingIsExact and BoundHolds in terms of BoundedIn.
LEMMA CountsOf ==
    /\ PendingIsExact <=> \A l \in Lanes : pending[l] = Cardinality(BoundedIn(l))
    /\ BoundHolds <=> \A l \in Lanes : Cardinality(BoundedIn(l)) <= MaxPending
BY DEF PendingIsExact, BoundHolds, BoundedIn

\* Both counts stay right when the lanes hold the same bounded work.
LEMMA CountsKept ==
    ASSUME PendingIsExact, BoundHolds, UNCHANGED pending,
           \A l \in Lanes : Unfinished(l)' = Unfinished(l)
    PROVE  PendingIsExact' /\ BoundHolds'
<1>1. \A l \in Lanes : BoundedIn(l)' = BoundedIn(l)
  BY DEF BoundedIn
<1>2. \A l \in Lanes : Cardinality(BoundedIn(l))' = Cardinality(BoundedIn(l))
  BY <1>1
<1> QED
  BY <1>2 DEF PendingIsExact, BoundHolds, BoundedIn

\* One more piece of bounded work is counted once more ...
LEMMA OneMore ==
    ASSUME NEW l, NEW w, w \notin Unfinished(l), w \in Bounded,
           Unfinished(l)' = Unfinished(l) \union {w}
    PROVE  Cardinality(BoundedIn(l))' = Cardinality(BoundedIn(l)) + 1
<1>1. w \notin BoundedIn(l) /\ BoundedIn(l)' = BoundedIn(l) \union {w}
  BY DEF BoundedIn
<1>2. Cardinality(BoundedIn(l) \union {w}) = Cardinality(BoundedIn(l)) + 1
  BY <1>1, BoundedIsFinite, FS_AddElement
<1> QED
  BY <1>1, <1>2

\* ... and one less once less.
LEMMA OneLess ==
    ASSUME NEW l, NEW w, w \in Unfinished(l), w \in Bounded,
           Unfinished(l)' = Unfinished(l) \ {w}
    PROVE  /\ Cardinality(BoundedIn(l))' = Cardinality(BoundedIn(l)) - 1
           /\ Cardinality(BoundedIn(l)) - 1 \in Nat
<1>1. w \in BoundedIn(l) /\ BoundedIn(l)' = BoundedIn(l) \ {w}
  BY DEF BoundedIn
<1>2. Cardinality(BoundedIn(l) \ {w}) = Cardinality(BoundedIn(l)) - 1
  BY <1>1, BoundedIsFinite, FS_RemoveElement
<1>3. IsFiniteSet(BoundedIn(l) \ {w})
  BY BoundedIsFinite, FS_RemoveElement, <1>1
<1>4. Cardinality(BoundedIn(l) \ {w}) \in Nat
  BY <1>3, FS_CardinalityType
<1> QED
  BY <1>1, <1>2, <1>4

(***************************************************************************)
(* The steps.                                                              *)
(***************************************************************************)
LEMMA InitIInv == Init => IInv
<1> SUFFICES ASSUME Init PROVE IInv
  OBVIOUS
<1> USE DEF Init
<1>1. TypeOK
  BY DEF TypeOK, States
<1>2. Chained = {} /\ Started = {} /\ \A l \in Lanes : Unfinished(l) = {}
  BY DEF Chained, Started, Unfinished
<1>3. LinksInv /\ TailInv /\ BehindInv /\ SinceInv /\ LaneIsSerial
  BY <1>2 DEF LinksInv, TailInv, BehindInv, SinceInv, LaneIsSerial
<1>4. \A l \in Lanes : BoundedIn(l) = {}
  BY <1>2 DEF BoundedIn
<1>5. Cardinality({}) = 0
  BY FS_EmptySet
<1>6. PendingIsExact /\ BoundHolds
  BY <1>4, <1>5, CountsOf, BoundAssumption
<1> QED
  BY <1>1, <1>3, <1>6 DEF IInv

\* Work that is dropped was never chained.
LEMMA DropStep ==
    ASSUME IInv, NEW w \in Work, Drop(w)
    PROVE  IInv'
<1> USE DEF IInv
<1>0. /\ state[w] = "new" /\ state' = [state EXCEPT ![w] = "dropped"]
      /\ UNCHANGED <<prev, tail, pending, waiter, since, cut>>
  BY DEF Drop
<1>1. TypeOK'
  BY <1>0 DEF TypeOK, States
<1>2. /\ Chained' = Chained /\ Started' = Started
      /\ \A l : Unfinished(l)' = Unfinished(l)
      /\ \A v \in Work : state'[v] = "done" <=> state[v] = "done"
  BY <1>0 DEF TypeOK, Chained, Started, Unfinished
<1>3. LinksInv'
  BY <1>0, <1>2 DEF LinksInv
<1>4. TailInv' /\ BehindInv'
  BY <1>0, <1>2 DEF TailInv, BehindInv, LinksInv, Settled, Chained
<1>5. \A v \in Work : since[v] \subseteq Work
  BY DEF TypeOK
<1>6. SinceInv'
  BY <1>0, <1>2, <1>5 DEF SinceInv, Chained
<1>7. LaneIsSerial'
  BY <1>0, <1>2, <1>5 DEF LaneIsSerial, Started
<1>8. PendingIsExact' /\ BoundHolds'
  BY <1>0, <1>2, CountsKept
<1> QED
  BY <1>1, <1>3, <1>4, <1>6, <1>7, <1>8

\* New work goes behind the tail of its lane.
LEMMA EnqueueStep ==
    ASSUME IInv, NEW w \in Work, Enqueue(w)
    PROVE  IInv'
<1> DEFINE lane == LaneOf[w]
<1> USE DEF IInv
<1>0. /\ state[w] = "new" /\ ~Full(w)
      /\ state' = [state EXCEPT ![w] = "queued"]
      /\ prev' = [prev EXCEPT ![w] = tail[lane]]
      /\ tail' = [tail EXCEPT ![lane] = w]
      /\ pending' = [pending EXCEPT ![lane] = IF w \in Bounded THEN @ + 1 ELSE @]
      /\ since' = [since EXCEPT ![w] = Unfinished(lane)]
      /\ UNCHANGED <<waiter, cut>>
  BY DEF Enqueue
<1>l. lane \in Lanes /\ w # Nothing
  BY WorkAssumption, NothingAssumption
<1>t. TypeOK
  OBVIOUS
<1> HIDE DEF lane
<1>1. TypeOK'
  <2>1. Unfinished(lane) \in SUBSET Work
    BY DEF Unfinished
  <2>2. state' \in [Work -> States] /\ prev' \in [Work -> Work \union {Nothing}]
    BY <1>0, <1>l, <1>t DEF TypeOK, States
  <2>3. tail' \in [Lanes -> Work \union {Nothing}] /\ pending' \in [Lanes -> Nat]
    BY <1>0, <1>l, <1>t DEF TypeOK
  <2>4. since' \in [Work -> SUBSET Work]
    BY <1>0, <1>l, <1>t, <2>1 DEF TypeOK
  <2> QED
    BY <1>0, <1>t, <2>2, <2>3, <2>4 DEF TypeOK
<1>2. /\ Chained' = Chained \union {w} /\ w \notin Chained
      /\ Started' = Started
      /\ \A v \in Work : state'[v] = "done" <=> state[v] = "done"
  BY <1>0, <1>t DEF TypeOK, Chained, Started
<1>3. /\ Unfinished(lane)' = Unfinished(lane) \union {w}
      /\ w \notin Unfinished(lane)
      /\ \A l : l # lane => Unfinished(l)' = Unfinished(l)
  BY <1>0, <1>t DEF TypeOK, Unfinished, lane
<1>4. LinksInv'
  <2>1. ASSUME NEW l \in Lanes, tail'[l] # Nothing
        PROVE  tail'[l] \in Chained' /\ LaneOf[tail'[l]] = l
    BY <1>0, <1>l, <1>t, <1>2, <2>1 DEF TypeOK, LinksInv, lane
  <2>2. ASSUME NEW v \in Chained', prev'[v] # Nothing
        PROVE  prev'[v] \in Chained' /\ LaneOf[prev'[v]] = LaneOf[v]
    BY <1>0, <1>l, <1>t, <1>2, <2>2 DEF TypeOK, LinksInv, lane, Chained
  <2> QED
    BY <2>1, <2>2 DEF LinksInv
<1>5. TailInv'
  <2> SUFFICES ASSUME NEW l \in Lanes \ cut, Settled(tail[l])'
               PROVE  Unfinished(l)' = {}
    BY <1>0 DEF TailInv
  <2>1. l # lane
    BY <1>0, <1>l, <1>t DEF TypeOK, Settled
  <2>2. tail'[l] = tail[l]
    BY <1>0, <1>t, <2>1 DEF TypeOK
  <2>3. tail[l] \in Work \union {Nothing}
    BY <1>t DEF TypeOK
  <2>4. Settled(tail[l])
    BY <1>2, <2>2, <2>3 DEF Settled
  <2> QED
    BY <1>3, <2>1, <2>4 DEF TailInv
<1>6. BehindInv'
  <2> SUFFICES ASSUME NEW l \in Lanes \ cut, NEW v \in Unfinished(l)'
               PROVE  v = tail'[l] \/ v \in since'[tail'[l]]
    BY <1>0 DEF BehindInv
  <2>1. CASE l = lane
    BY <1>0, <1>l, <1>t, <1>3, <2>1 DEF TypeOK
  <2>2. CASE l # lane
    <3>1. v \in Unfinished(l) /\ tail'[l] = tail[l]
      BY <1>0, <1>t, <1>3, <2>2 DEF TypeOK
    <3>2. v = tail[l] \/ v \in since[tail[l]]
      BY <3>1 DEF BehindInv
    <3>3. tail[l] # w
      BY <1>l, <1>2 DEF LinksInv
    <3>4. tail[l] \in Work \/ Unfinished(l) = {}
      BY <1>t DEF TypeOK, TailInv, Settled
    <3> QED
      BY <1>0, <1>t, <3>1, <3>2, <3>3, <3>4 DEF TypeOK
  <2> QED
    BY <2>1, <2>2
<1>7. SinceInv'
  <2> SUFFICES ASSUME NEW u \in Chained', LaneOf[u] \notin cut, NEW v \in since'[u],
                      state'[v] # "done"
               PROVE  prev'[u] # Nothing /\ (v = prev'[u] \/ v \in since'[prev'[u]])
    BY <1>0 DEF SinceInv
  <2>1. CASE u = w
    <3>1. v \in Unfinished(lane) /\ prev'[u] = tail[lane] /\ lane \in Lanes \ cut
      BY <1>0, <1>l, <1>t, <2>1 DEF TypeOK, lane
    <3>2. tail[lane] # Nothing
      BY <3>1 DEF TailInv, Settled
    <3>3. v = tail[lane] \/ v \in since[tail[lane]]
      BY <3>1 DEF BehindInv
    <3>4. tail[lane] # w /\ tail[lane] \in Work
      BY <1>l, <1>2, <3>2 DEF LinksInv, Chained
    <3> QED
      BY <1>0, <1>t, <3>1, <3>2, <3>3, <3>4 DEF TypeOK
  <2>2. CASE u # w
    <3>1. u \in Chained /\ u \in Work /\ since'[u] = since[u] /\ prev'[u] = prev[u]
      BY <1>0, <1>2, <1>t, <2>2 DEF TypeOK, Chained
    <3>2. v \in Work /\ state[v] # "done"
      BY <1>2, <1>t, <3>1 DEF TypeOK
    <3>3. prev[u] # Nothing /\ (v = prev[u] \/ v \in since[prev[u]])
      BY <3>1, <3>2 DEF SinceInv
    <3>4. prev[u] \in Work /\ prev[u] # w
      BY <1>2, <3>1, <3>3 DEF LinksInv, Chained
    <3> QED
      BY <1>0, <1>t, <3>1, <3>3, <3>4 DEF TypeOK
  <2> QED
    BY <2>1, <2>2
<1>8. LaneIsSerial'
  <2> SUFFICES ASSUME NEW u \in Started, LaneOf[u] \notin cut, NEW v \in since'[u]
               PROVE  state'[v] = "done"
    BY <1>0, <1>2 DEF LaneIsSerial
  <2>1. u \in Work /\ u # w
    BY <1>0 DEF Started
  <2>2. since'[u] = since[u]
    BY <1>0, <1>t, <2>1 DEF TypeOK
  <2>3. v \in Work /\ state[v] = "done"
    BY <2>1, <2>2, <1>t DEF LaneIsSerial, TypeOK
  <2> QED
    BY <1>2, <2>3
<1>9. PendingIsExact' /\ BoundHolds'
  <2> SUFFICES ASSUME NEW l \in Lanes
               PROVE  pending'[l] = Cardinality(BoundedIn(l))' /\ Cardinality(BoundedIn(l))' <= MaxPending
    BY DEF PendingIsExact, BoundHolds, BoundedIn
  <2>1. /\ pending[l] = Cardinality(BoundedIn(l)) /\ Cardinality(BoundedIn(l)) <= MaxPending
        /\ Cardinality(BoundedIn(l)) \in Nat
    BY BoundedIsFinite, CountsOf
  <2>2. CASE l = lane /\ w \in Bounded
    <3>1. Cardinality(BoundedIn(l))' = Cardinality(BoundedIn(l)) + 1
      BY <1>3, <2>2, OneMore
    <3>2. ~(pending[l] >= MaxPending)
      BY <1>0, <2>2 DEF Full, lane
    <3>3. pending'[l] = pending[l] + 1
      BY <1>0, <1>t, <2>2 DEF TypeOK
    <3> QED
      BY <2>1, <3>1, <3>2, <3>3, BoundAssumption
  <2>3. CASE ~(l = lane /\ w \in Bounded)
    <3>1. BoundedIn(l)' = BoundedIn(l)
      BY <1>3, <2>3 DEF BoundedIn
    <3>2. Cardinality(BoundedIn(l))' = Cardinality(BoundedIn(l))
      BY <3>1
    <3>3. pending'[l] = pending[l]
      BY <1>0, <1>t, <2>3 DEF TypeOK
    <3> QED
      BY <2>1, <3>2, <3>3
  <2> QED
    BY <2>2, <2>3
<1> QED
  BY <1>1, <1>4, <1>5, <1>6, <1>7, <1>8, <1>9

\* Work starts when its predecessor has settled, and with it everything the
\* work was chained behind.
LEMMA StartStep ==
    ASSUME IInv, NEW w \in Work, Start(w)
    PROVE  IInv'
<1> USE DEF IInv
<1>0. /\ state[w] = "queued" /\ Settled(prev[w])
      /\ state' = [state EXCEPT ![w] = "running"]
      /\ UNCHANGED <<prev, tail, pending, waiter, since, cut>>
  BY DEF Start
<1>t. TypeOK
  OBVIOUS
<1>1. TypeOK'
  BY <1>0 DEF TypeOK, States
<1>2. /\ Chained' = Chained /\ Started' = Started \union {w}
      /\ w \in Chained
      /\ \A l : Unfinished(l)' = Unfinished(l)
      /\ \A v \in Work : state'[v] = "done" <=> state[v] = "done"
  BY <1>0, <1>t DEF TypeOK, Chained, Started, Unfinished
<1>3. LinksInv'
  BY <1>0, <1>2 DEF LinksInv
<1>4. TailInv' /\ BehindInv'
  BY <1>0, <1>2 DEF TailInv, BehindInv, LinksInv, Settled, Chained
<1>5. \A v \in Work : since[v] \subseteq Work
  BY <1>t DEF TypeOK
<1>6. SinceInv'
  BY <1>0, <1>2, <1>5 DEF SinceInv, Chained
<1>7. LaneIsSerial'
  <2>1. ASSUME LaneOf[w] \notin cut, NEW v \in since[w], state[v] # "done"
        PROVE  FALSE
    <3>1. prev[w] # Nothing /\ (v = prev[w] \/ v \in since[prev[w]])
      BY <1>2, <2>1 DEF SinceInv
    <3>2. prev[w] \in Chained /\ LaneOf[prev[w]] = LaneOf[w]
      BY <1>2, <3>1 DEF LinksInv
    <3>3. state[prev[w]] = "done"
      BY <1>0, <3>1 DEF Settled
    <3>4. prev[w] \in Started
      BY <3>2, <3>3 DEF Chained, Started
    <3> QED
      BY <2>1, <3>1, <3>2, <3>3, <3>4 DEF LaneIsSerial
  <2> QED
    BY <1>0, <1>2, <1>5, <2>1 DEF LaneIsSerial, Started
<1>8. PendingIsExact' /\ BoundHolds'
  BY <1>0, <1>2, CountsKept
<1> QED
  BY <1>1, <1>3, <1>4, <1>6, <1>7, <1>8

\* Work that ends leaves the lane; as the tail it leaves it idle.
LEMMA EndStep ==
    ASSUME IInv, NEW w \in Work, End(w)
    PROVE  IInv'
<1> DEFINE lane == LaneOf[w]
<1> USE DEF IInv
<1>0. /\ state[w] = "running"
      /\ state' = [state EXCEPT ![w] = "done"]
      /\ pending' = [pending EXCEPT ![lane] = IF w \in Bounded THEN @ - 1 ELSE @]
      /\ UNCHANGED <<prev, tail, waiter, since, cut>>
  BY DEF End
<1>l. lane \in Lanes /\ w # Nothing
  BY WorkAssumption, NothingAssumption
<1>t. TypeOK
  OBVIOUS
<1> HIDE DEF lane
<1>2. /\ Chained' = Chained /\ Started' = Started /\ w \in Started
      /\ \A v \in Work : state'[v] = "done" <=> state[v] = "done" \/ v = w
  BY <1>0, <1>t DEF TypeOK, Chained, Started
<1>3. /\ Unfinished(lane)' = Unfinished(lane) \ {w}
      /\ w \in Unfinished(lane)
      /\ \A l : l # lane => Unfinished(l)' = Unfinished(l) /\ w \notin Unfinished(l)
  BY <1>0, <1>t DEF TypeOK, Unfinished, lane
<1>5. \A v \in Work : since[v] \subseteq Work
  BY <1>t DEF TypeOK
<1>4. LinksInv'
  BY <1>0, <1>2 DEF LinksInv
<1>6. TailInv'
  <2> SUFFICES ASSUME NEW l \in Lanes \ cut, Settled(tail[l])', NEW v \in Unfinished(l)'
               PROVE  FALSE
    BY <1>0 DEF TailInv
  <2>1. v \in Unfinished(l) /\ v # w
    BY <1>3
  <2>2. tail[l] \in Work \union {Nothing}
    BY <1>t DEF TypeOK
  <2>3. ~Settled(tail[l])
    BY <2>1 DEF TailInv
  <2>4. tail[l] = w
    BY <1>0, <1>2, <2>2, <2>3 DEF Settled
  <2>5. v \in since[w] /\ LaneOf[w] = l
    BY <1>l, <2>1, <2>4 DEF BehindInv, LinksInv
  <2>6. state[v] = "done"
    BY <1>2, <2>5 DEF LaneIsSerial
  <2> QED
    BY <2>1, <2>6 DEF Unfinished
<1>7. BehindInv'
  <2>1. \A l \in Lanes : Unfinished(l)' \subseteq Unfinished(l)
    BY <1>3
  <2> QED
    BY <1>0, <2>1 DEF BehindInv
<1>8. SinceInv'
  BY <1>0, <1>2, <1>5 DEF SinceInv, Chained
<1>9. LaneIsSerial'
  BY <1>0, <1>2, <1>5 DEF LaneIsSerial, Started
<1>10. PendingIsExact' /\ BoundHolds' /\ pending' \in [Lanes -> Nat]
  <2> SUFFICES ASSUME NEW l \in Lanes
               PROVE  /\ pending'[l] = Cardinality(BoundedIn(l))' /\ pending'[l] \in Nat
                      /\ Cardinality(BoundedIn(l))' <= MaxPending
    BY <1>0, <1>t DEF PendingIsExact, BoundHolds, BoundedIn, TypeOK
  <2>1. /\ pending[l] = Cardinality(BoundedIn(l)) /\ Cardinality(BoundedIn(l)) <= MaxPending
        /\ Cardinality(BoundedIn(l)) \in Nat
    BY BoundedIsFinite, CountsOf
  <2>2. CASE l = lane /\ w \in Bounded
    <3>1. /\ Cardinality(BoundedIn(l))' = Cardinality(BoundedIn(l)) - 1
          /\ Cardinality(BoundedIn(l)) - 1 \in Nat
      BY <1>3, <2>2, OneLess
    <3>2. pending'[l] = pending[l] - 1
      BY <1>0, <1>t, <2>2 DEF TypeOK
    <3> QED
      BY <2>1, <3>1, <3>2, BoundAssumption
  <2>3. CASE ~(l = lane /\ w \in Bounded)
    <3>1. BoundedIn(l)' = BoundedIn(l)
      BY <1>3, <2>3 DEF BoundedIn
    <3>2. Cardinality(BoundedIn(l))' = Cardinality(BoundedIn(l))
      BY <3>1
    <3>3. pending'[l] = pending[l]
      BY <1>0, <1>t, <2>3 DEF TypeOK
    <3> QED
      BY <2>1, <3>2, <3>3
  <2> QED
    BY <2>2, <2>3
<1>1. TypeOK'
  BY <1>0, <1>t, <1>10 DEF TypeOK, States
<1> QED
  BY <1>1, <1>4, <1>6, <1>7, <1>8, <1>9, <1>10

\* A lane is forgotten: idle, or marked in cut.
LEMMA CleanupStep ==
    ASSUME IInv, NEW lane \in Lanes, Cleanup(lane)
    PROVE  IInv'
<1> USE DEF IInv
<1>0. /\ tail' = [tail EXCEPT ![lane] = Nothing]
      /\ cut' = IF Unfinished(lane) = {} THEN cut ELSE cut \union {lane}
      /\ UNCHANGED <<state, prev, pending, waiter, since>>
  BY DEF Cleanup
<1>t. TypeOK
  OBVIOUS
<1>1. TypeOK'
  BY <1>0, <1>t DEF TypeOK
<1>2. /\ Chained' = Chained /\ Started' = Started
      /\ \A l : Unfinished(l)' = Unfinished(l)
      /\ cut \subseteq cut'
      /\ lane \notin cut' => Unfinished(lane) = {}
      /\ \A l \in Lanes : tail'[l] = IF l = lane THEN Nothing ELSE tail[l]
  BY <1>0, <1>t DEF TypeOK, Chained, Started, Unfinished
<1>3. LinksInv'
  BY <1>0, <1>2 DEF LinksInv
<1>4. TailInv'
  <2> SUFFICES ASSUME NEW l \in Lanes \ cut', Settled(tail[l])'
               PROVE  Unfinished(l)' = {}
    BY DEF TailInv
  <2>1. CASE l = lane
    BY <1>2, <2>1
  <2>2. CASE l # lane
    BY <1>0, <1>2, <2>2 DEF TailInv, Settled
  <2> QED
    BY <2>1, <2>2
<1>5. BehindInv'
  BY <1>0, <1>2 DEF BehindInv
<1>6. SinceInv'
  BY <1>0, <1>2 DEF SinceInv
<1>7. LaneIsSerial'
  BY <1>0, <1>2 DEF LaneIsSerial
<1>8. PendingIsExact' /\ BoundHolds'
  BY <1>0, <1>2, CountsKept
<1> QED
  BY <1>1, <1>3, <1>4, <1>5, <1>6, <1>7, <1>8

\* settled() looks at the lanes and changes none.
SettledSteps ==
    \/ \E lanes \in SUBSET Lanes \ {{}} : SettledCall(lanes)
    \/ SettledRound
    \/ SettledTimeout

LEMMA WaiterStep ==
    ASSUME IInv, SettledSteps
    PROVE  IInv'
<1> USE DEF IInv
<1>0. UNCHANGED laneVars
  BY DEF SettledSteps, SettledCall, SettledRound, SettledTimeout
<1>1. TypeOK'
  BY <1>0 DEF TypeOK, SettledSteps, SettledCall, SettledRound, SettledTimeout, Looks, laneVars
<1> QED
  BY <1>0, <1>1 DEF laneVars, LinksInv, TailInv, BehindInv, SinceInv, LaneIsSerial,
     PendingIsExact, BoundHolds, Chained, Started, Unfinished, Settled

LEMMA StutterStep ==
    ASSUME IInv, UNCHANGED vars
    PROVE  IInv'
BY DEF IInv, vars, laneVars, TypeOK, LinksInv, TailInv, BehindInv, SinceInv, LaneIsSerial,
   PendingIsExact, BoundHolds, Chained, Started, Unfinished, Settled

LEMMA NextIInv ==
    ASSUME IInv, [Next]_vars
    PROVE  IInv'
<1>1. CASE \E w \in Work : Drop(w) \/ Enqueue(w) \/ Start(w) \/ End(w)
  BY <1>1, DropStep, EnqueueStep, StartStep, EndStep
<1>2. CASE \E l \in Lanes : Cleanup(l)
  BY <1>2, CleanupStep
<1>3. CASE SettledSteps
  BY <1>3, WaiterStep
<1>4. CASE UNCHANGED vars
  BY <1>4, StutterStep
<1> QED
  BY <1>1, <1>2, <1>3, <1>4 DEF Next, SettledSteps

\* A settled() that answers found its lanes idle.
LEMMA SettledStep ==
    ASSUME IInv, [Next]_vars, waiter.told # "settled", waiter'.told = "settled",
           NEW l \in waiter'.lanes \ cut
    PROVE  Unfinished(l) = {}
<1> USE DEF IInv
<1>1. SettledSteps
  BY DEF SettledSteps, Next, vars, Drop, Enqueue, Start, End, Cleanup
<1>2. l \in Lanes
  BY NextIInv DEF TypeOK
<1>3. Settled(tail[l])
  <2>1. CASE \E lanes \in SUBSET Lanes \ {{}} : SettledCall(lanes)
    BY <2>1 DEF SettledCall, Looks, Settled
  <2>2. CASE SettledRound
    <3>1. CASE \A k \in waiter.lanes : tail[k] = waiter.saw[k]
      BY <2>2, <3>1 DEF SettledRound, TypeOK
    <3>2. CASE ~ \A k \in waiter.lanes : tail[k] = waiter.saw[k]
      BY <2>2, <3>2 DEF SettledRound, Looks, Settled
    <3> QED
      BY <3>1, <3>2
  <2>3. CASE SettledTimeout
    BY <2>3 DEF SettledTimeout, TypeOK
  <2> QED
    BY <1>1, <2>1, <2>2, <2>3 DEF SettledSteps
<1> QED
  BY <1>2, <1>3 DEF TailInv

(***************************************************************************)
(* The theorems.                                                           *)
(***************************************************************************)
LEMMA Invariance == Spec => []IInv
<1>1. Init => IInv
  BY InitIInv
<1>2. IInv /\ [Next]_vars => IInv'
  BY NextIInv
<1> QED
  BY <1>1, <1>2, PTL DEF Spec

\* Every variable stays in its range; the lanes map and the counts of bounded
\* work name only work that exists.
THEOREM TypeCorrect == Spec => []TypeOK
<1>1. IInv => TypeOK
  BY DEF IInv
<1> QED
  BY <1>1, Invariance, PTL

\* In a lane that was never forgotten too early, work runs one at a time in
\* arrival order (enqueue chains it behind the tail of its lane).
THEOREM WorkIsSerial == Spec => [](TypeOK /\ LaneIsSerial)
<1>1. IInv => TypeOK /\ LaneIsSerial
  BY DEF IInv
<1> QED
  BY <1>1, Invariance, PTL

\* The count by which enqueue drops bounded work is exact, so a lane never
\* holds more of it than its bound.
THEOREM BoundIsKept == Spec => [](PendingIsExact /\ BoundHolds)
<1>1. IInv => PendingIsExact /\ BoundHolds
  BY DEF IInv
<1> QED
  BY <1>1, Invariance, PTL

\* settled() answers only at a moment when its lanes are idle, apart from
\* lanes forgotten too early.
THEOREM SettledMeansIdle == Spec => SettledIsIdle
<1>1. IInv /\ [Next]_vars =>
        [waiter.told # "settled" /\ waiter'.told = "settled" =>
            \A l \in waiter'.lanes \ cut : Unfinished(l) = {}]_vars
  BY SettledStep
<1> QED
  BY <1>1, Invariance, PTL DEF Spec, SettledIsIdle
=============================================================================
