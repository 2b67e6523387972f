--------------------------- MODULE ProjectionQueue --------------------------
(***************************************************************************)
(* The lanes in which event projections run one at a time:                 *)
(* packages/ocpp/src/server/projection-queue.ts.                           *)
(*                                                                         *)
(* A lane is the tail of a chain of promises: enqueue chains the new work  *)
(* behind the tail.  Every five minutes the lanes that got no work for ten *)
(* minutes are forgotten.  settled() waits for the tails it saw, and again *)
(* if they changed meanwhile.                                              *)
(*                                                                         *)
(*   state   - what became of each piece of work                           *)
(*   prev    - the work it is chained behind                               *)
(*   tail    - the lanes map: the last work of each lane                   *)
(*   pending - pendingByKind: bounded work waiting or running, by lane     *)
(*   waiter  - one caller of settled(): its lanes, the tails it saw, and   *)
(*             what it was told                                            *)
(*   since   - for each piece of work, the work of its lane that was       *)
(*             unfinished when it was enqueued (history)                   *)
(*   cut     - lanes forgotten while their work was unfinished (history)   *)
(***************************************************************************)
EXTENDS Naturals, FiniteSets

CONSTANTS
    Lanes,
    Work,
    LaneOf,     \* the lane of each piece of work (projectionLane)
    Bounded,    \* work that is dropped when its lane is full (LaneBound)
    MaxPending, \* LaneBound.maxPending
    Nothing     \* no work

ASSUME NothingAssumption == Nothing \notin Work
ASSUME WorkAssumption    == IsFiniteSet(Work) /\ LaneOf \in [Work -> Lanes] /\ Bounded \subseteq Work
ASSUME BoundAssumption   == MaxPending \in Nat

VARIABLES state, prev, tail, pending, waiter, since, cut

laneVars == <<state, prev, tail, pending, since, cut>>
vars     == <<laneVars, waiter>>

States == {"new", "dropped", "queued", "running", "done"}

Unfinished(l) == {w \in Work : LaneOf[w] = l /\ state[w] \in {"queued", "running"}}

Init ==
    /\ state = [w \in Work |-> "new"]
    /\ prev = [w \in Work |-> Nothing]
    /\ tail = [l \in Lanes |-> Nothing]
    /\ pending = [l \in Lanes |-> 0]
    /\ waiter = [told |-> "nothing", lanes |-> {}, saw |-> [l \in Lanes |-> Nothing]]
    /\ since = [w \in Work |-> {}]
    /\ cut = {}

(***************************************************************************)
(* enqueue and the promise chain                                           *)
(***************************************************************************)
Full(w) == w \in Bounded /\ pending[LaneOf[w]] >= MaxPending

Drop(w) ==
    /\ state[w] = "new"
    /\ Full(w)
    /\ state' = [state EXCEPT ![w] = "dropped"]
    /\ UNCHANGED <<prev, tail, pending, waiter, since, cut>>

\* Mutant: the bound is not looked at.
EnqueueFull(w) ==
    /\ state[w] = "new"
    /\ state' = [state EXCEPT ![w] = "queued"]
    /\ prev' = [prev EXCEPT ![w] = tail[LaneOf[w]]]
    /\ tail' = [tail EXCEPT ![LaneOf[w]] = w]
    /\ pending' = [pending EXCEPT ![LaneOf[w]] = IF w \in Bounded THEN @ + 1 ELSE @]
    /\ since' = [since EXCEPT ![w] = Unfinished(LaneOf[w])]
    /\ UNCHANGED <<waiter, cut>>

Enqueue(w) ==
    /\ state[w] = "new"
    /\ ~Full(w)
    /\ state' = [state EXCEPT ![w] = "queued"]
    /\ prev' = [prev EXCEPT ![w] = tail[LaneOf[w]]]
    /\ tail' = [tail EXCEPT ![LaneOf[w]] = w]
    /\ pending' = [pending EXCEPT ![LaneOf[w]] = IF w \in Bounded THEN @ + 1 ELSE @]
    /\ since' = [since EXCEPT ![w] = Unfinished(LaneOf[w])]
    /\ UNCHANGED <<waiter, cut>>

Settled(w) == w # Nothing => state[w] = "done"

\* Mutant: the work starts without its predecessor.
StartAtOnce(w) ==
    /\ state[w] = "queued"
    /\ state' = [state EXCEPT ![w] = "running"]
    /\ UNCHANGED <<prev, tail, pending, waiter, since, cut>>

\* Mutant: the next work is looked up in the lanes map.
StartFromLanes(w) ==
    /\ state[w] = "queued"
    /\ Settled(prev[w])
    /\ tail[LaneOf[w]] # Nothing
    /\ state' = [state EXCEPT ![w] = "running"]
    /\ UNCHANGED <<prev, tail, pending, waiter, since, cut>>

\* The promise reaction on the predecessor, whether it succeeded or failed.
Start(w) ==
    /\ state[w] = "queued"
    /\ Settled(prev[w])
    /\ state' = [state EXCEPT ![w] = "running"]
    /\ UNCHANGED <<prev, tail, pending, waiter, since, cut>>

\* Mutant: the count goes down only when the work succeeds.
EndUncounted(w) ==
    /\ state[w] = "running"
    /\ state' = [state EXCEPT ![w] = "done"]
    /\ \/ pending' = [pending EXCEPT ![LaneOf[w]] = IF w \in Bounded THEN @ - 1 ELSE @]
       \/ UNCHANGED pending
    /\ UNCHANGED <<prev, tail, waiter, since, cut>>

\* Mutant: work without a bound is counted down too.
EndCountsAll(w) ==
    /\ state[w] = "running"
    /\ state' = [state EXCEPT ![w] = "done"]
    /\ pending' = [pending EXCEPT ![LaneOf[w]] = @ - 1]
    /\ UNCHANGED <<prev, tail, waiter, since, cut>>

\* The work succeeds or fails.
End(w) ==
    /\ state[w] = "running"
    /\ state' = [state EXCEPT ![w] = "done"]
    /\ pending' = [pending EXCEPT ![LaneOf[w]] = IF w \in Bounded THEN @ - 1 ELSE @]
    /\ UNCHANGED <<prev, tail, waiter, since, cut>>

(***************************************************************************)
(* The cleanup timer                                                       *)
(***************************************************************************)

\* A lane that got no work for QUEUE_STALE_THRESHOLD_MS is forgotten, whether
\* or not its work has ended.
Cleanup(l) ==
    /\ tail[l] # Nothing
    /\ tail' = [tail EXCEPT ![l] = Nothing]
    /\ cut' = IF Unfinished(l) = {} THEN cut ELSE cut \union {l}
    /\ UNCHANGED <<state, prev, pending, waiter, since>>

(***************************************************************************)
(* settled                                                                 *)
(***************************************************************************)

\* One round of the loop: look at the tails; with none there is nothing to
\* wait for.
Looks(lanes) ==
    waiter' = [told |-> IF \A l \in lanes : tail[l] = Nothing THEN "settled" ELSE "nothing",
               lanes |-> lanes,
               saw |-> tail]

SettledCall(lanes) ==
    /\ waiter.lanes = {}
    /\ Looks(lanes)
    /\ UNCHANGED laneVars

\* Mutant: the tails are not compared after the wait.
SettledOnce ==
    /\ waiter.lanes # {} /\ waiter.told = "nothing"
    /\ \A l \in waiter.lanes : Settled(waiter.saw[l])
    /\ waiter' = [waiter EXCEPT !.told = "settled"]
    /\ UNCHANGED laneVars

\* The tails it saw have settled: done if they are still the tails.
SettledRound ==
    /\ waiter.lanes # {} /\ waiter.told = "nothing"
    /\ \A l \in waiter.lanes : Settled(waiter.saw[l])
    /\ IF \A l \in waiter.lanes : tail[l] = waiter.saw[l]
       THEN waiter' = [waiter EXCEPT !.told = "settled"]
       ELSE Looks(waiter.lanes)
    /\ UNCHANGED laneVars

SettledTimeout ==
    /\ waiter.lanes # {} /\ waiter.told = "nothing"
    /\ waiter' = [waiter EXCEPT !.told = "timeout"]
    /\ UNCHANGED laneVars

Next ==
    \/ \E w \in Work : Drop(w) \/ Enqueue(w) \/ Start(w) \/ End(w)
    \/ \E l \in Lanes : Cleanup(l)
    \/ \E lanes \in SUBSET Lanes \ {{}} : SettledCall(lanes)
    \/ SettledRound
    \/ SettledTimeout

\* Promise reactions run, projections end.
Fairness == \A w \in Work : WF_vars(Start(w)) /\ WF_vars(End(w))

Spec == Init /\ [][Next]_vars /\ Fairness

(***************************************************************************)
(* Properties                                                              *)
(***************************************************************************)

\* Every variable stays in its range.
TypeOK ==
    /\ state \in [Work -> States]
    /\ prev \in [Work -> Work \union {Nothing}]
    /\ tail \in [Lanes -> Work \union {Nothing}]
    /\ pending \in [Lanes -> Nat]
    /\ waiter \in [told  : {"nothing", "settled", "timeout"},
                  lanes : SUBSET Lanes,
                  saw   : [Lanes -> Work \union {Nothing}]]
    /\ since \in [Work -> SUBSET Work]
    /\ cut \subseteq Lanes

Started == {w \in Work : state[w] \in {"running", "done"}}

\* In a lane that was never forgotten too early, work starts only after
\* everything that was in the lane before it has ended: one at a time, in
\* arrival order.
LaneIsSerial ==
    \A w \in Started : LaneOf[w] \notin cut => \A v \in since[w] : state[v] = "done"

\* The count that decides about dropping is the work that is there.
PendingIsExact ==
    \A l \in Lanes : pending[l] = Cardinality(Unfinished(l) \intersect Bounded)

\* A lane never holds more bounded work than its bound.
BoundHolds ==
    \A l \in Lanes : Cardinality(Unfinished(l) \intersect Bounded) <= MaxPending

\* settled() says so only at a moment when none of its lanes has unfinished
\* work, work that finishing work queued included.
SettledIsIdle ==
    [][waiter.told # "settled" /\ waiter'.told = "settled" =>
          \A l \in waiter'.lanes \ cut : Unfinished(l) = {}]_vars

\* Work that was queued runs, although lanes are forgotten.
QueuedWorkRuns ==
    \A w \in Work : state[w] = "queued" ~> state[w] = "done"
=============================================================================
