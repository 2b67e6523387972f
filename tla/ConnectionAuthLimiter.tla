------------------------ MODULE ConnectionAuthLimiter -----------------------
(***************************************************************************)
(* Admission of station connection authentications after a restart:        *)
(* ConnectionAuthLimiter of                                                *)
(* packages/ocpp/src/server/connection-auth-limiter.ts.                    *)
(*                                                                         *)
(* The runtime is single threaded: run(), the timer callback and the       *)
(* finally block of execute() each run to their end, the hand-over of a    *)
(* slot to the next waiter included.                                       *)
(*                                                                         *)
(*   request  - what became of each request                                *)
(*   active   - the limiter's count of running tasks                       *)
(*   queue    - requests waiting for a slot, in arrival order              *)
(*   rejected - the limiter's count of refused requests                    *)
(***************************************************************************)
EXTENDS Naturals, Sequences, FiniteSets, SequencesExt

CONSTANTS
    Requests,       \* authentications
    MaxConcurrent,  \* limits.maxConcurrent
    MaxQueued       \* limits.maxQueued

ASSUME RequestsAssumption == IsFiniteSet(Requests)
ASSUME LimitsAssumption   == MaxConcurrent \in Nat /\ MaxQueued \in Nat

VARIABLES request, active, queue, rejected

vars == <<request, active, queue, rejected>>

States == {"new", "waiting", "running", "done", "queue_full", "wait_timeout"}

Init ==
    /\ request = [r \in Requests |-> "new"]
    /\ active = 0
    /\ queue = <<>>
    /\ rejected = 0

Becomes(r, what) == request' = [request EXCEPT ![r] = what]

(***************************************************************************)
(* run                                                                     *)
(***************************************************************************)

\* A slot is free.
RunNow(r) ==
    /\ request[r] = "new"
    /\ active < MaxConcurrent
    /\ Becomes(r, "running")
    /\ active' = active + 1
    /\ UNCHANGED <<queue, rejected>>

RefuseFull(r) ==
    /\ request[r] = "new"
    /\ active >= MaxConcurrent
    /\ Len(queue) >= MaxQueued
    /\ Becomes(r, "queue_full")
    /\ rejected' = rejected + 1
    /\ UNCHANGED <<active, queue>>

\* Mutant: the bound of the queue is one too large.
QueueOneMore(r) ==
    /\ request[r] = "new"
    /\ active >= MaxConcurrent
    /\ Len(queue) <= MaxQueued
    /\ Becomes(r, "waiting")
    /\ queue' = Append(queue, r)
    /\ UNCHANGED <<active, rejected>>

Queue(r) ==
    /\ request[r] = "new"
    /\ active >= MaxConcurrent
    /\ Len(queue) < MaxQueued
    /\ Becomes(r, "waiting")
    /\ queue' = Append(queue, r)
    /\ UNCHANGED <<active, rejected>>

(***************************************************************************)
(* The timer of a waiter, cleared when it starts                           *)
(***************************************************************************)

\* Mutant: the waiter that timed out stays in the queue.
TimeOutInPlace(r) ==
    /\ request[r] = "waiting"
    /\ Becomes(r, "wait_timeout")
    /\ rejected' = rejected + 1
    /\ UNCHANGED <<active, queue>>

\* Mutant: no timer is set.
NeverTimesOut(r) == FALSE /\ UNCHANGED vars

WaitTimeout(r) ==
    /\ request[r] = "waiting"
    /\ Becomes(r, "wait_timeout")
    /\ IF r \in ToSet(queue)
       THEN \E k \in DOMAIN queue : queue[k] = r /\ queue' = RemoveAt(queue, k)
       ELSE UNCHANGED queue
    /\ rejected' = rejected + 1
    /\ UNCHANGED active

(***************************************************************************)
(* The finally block of execute                                            *)
(***************************************************************************)

\* A task ends and nobody waits.
Finish(r) ==
    /\ request[r] = "running"
    /\ queue = <<>>
    /\ Becomes(r, "done")
    /\ active' = active - 1
    /\ UNCHANGED <<queue, rejected>>

\* Mutant: the slot is freed and the next waiter is not started.
FinishOnly(r) ==
    /\ request[r] = "running"
    /\ queue # <<>>
    /\ Becomes(r, "done")
    /\ active' = active - 1
    /\ UNCHANGED <<queue, rejected>>

\* A task ends and the first waiter takes its slot.
HandOver(r) ==
    /\ request[r] = "running"
    /\ queue # <<>>
    /\ request' = [request EXCEPT ![r] = "done", ![Head(queue)] = "running"]
    /\ queue' = Tail(queue)
    /\ UNCHANGED <<active, rejected>>

Next ==
    \E r \in Requests :
        \/ RunNow(r)
        \/ RefuseFull(r)
        \/ Queue(r)
        \/ WaitTimeout(r)
        \/ Finish(r)
        \/ HandOver(r)

\* Timers fire.  A task may hang: nothing is assumed about Finish and HandOver.
Fairness == \A r \in Requests : WF_vars(WaitTimeout(r))

Spec == Init /\ [][Next]_vars /\ Fairness

(***************************************************************************)
(* Properties                                                              *)
(***************************************************************************)
InState(what) == {r \in Requests : request[r] = what}

\* Every variable stays in its range, and the queue within its bound.
TypeOK ==
    /\ request \in [Requests -> States]
    /\ active \in 0 .. MaxConcurrent
    /\ queue \in Seq(Requests)
    /\ Len(queue) <= MaxQueued
    /\ rejected \in Nat

\* The queue holds exactly the requests that wait, each once: none that was
\* refused meanwhile is started later, none waits outside the queue.
QueueIsWaiters ==
    /\ ToSet(queue) = InState("waiting")
    /\ \A j, k \in 1 .. Len(queue) : queue[j] = queue[k] => j = k

\* The counter of running tasks does not drift: it is what bounds the load of
\* the database pool.
CounterIsExact ==
    active = Cardinality(InState("running"))

\* No slot is idle while a request waits.
NoIdleSlot ==
    queue # <<>> => active = MaxConcurrent

\* Waiters start in arrival order: only the first of the queue starts, and
\* while anybody waits nobody who arrives starts.
FirstComeFirstServed ==
    [][\A r \in Requests :
          request[r] # "running" /\ request'[r] = "running" =>
              IF queue = <<>> THEN request[r] = "new" ELSE r = Head(queue)]_vars

\* A request in the queue is answered or started, although tasks may hang.
NobodyWaitsForever ==
    \A r \in Requests : request[r] = "waiting" ~> request[r] # "waiting"
=============================================================================
