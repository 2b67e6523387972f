------------------------------ MODULE CallLane ------------------------------
(***************************************************************************)
(* The outgoing CALL lane of one station connection: MessageCorrelator in  *)
(* packages/ocpp/src/server/message-correlator.ts.                         *)
(*                                                                         *)
(* The server is one Node.js event loop.  Timers, socket events and        *)
(* incoming frames are macrotasks; the hand-over of the lane is a promise   *)
(* reaction of the settled CALL (sent.then(release, release)), a microtask *)
(* that runs before the next macrotask but after the code that settled the *)
(* CALL, so other microtasks - a sendCall of a caller that was awaiting -  *)
(* can run in between.                                                     *)
(*                                                                         *)
(* Both timers of a CALL last timeoutMs.  Timers of one duration expire in *)
(* the order they were armed, so an armed timer is its arming instant.     *)
(*                                                                         *)
(*   busy, closed, queue - the CallLane record                             *)
(*   pending   - keys of session.pendingMessages                           *)
(*   releasing - settled CALLs whose release reaction has not run yet      *)
(*   status    - "new", "waiting", "out" or how the promise settled        *)
(*   askedAt, sentAt - instant of sendCall and of ws.send, 0 before: the   *)
(*               queue timer and the response timer are armed there        *)
(*   now       - the last instant used                                     *)
(***************************************************************************)
EXTENDS Naturals, Sequences, SequencesExt

CONSTANT Calls

VARIABLES busy, closed, queue, pending, releasing, status, askedAt, sentAt, now

vars == <<busy, closed, queue, pending, releasing, status, askedAt, sentAt, now>>

\* How a sent CALL ends, and how a CALL ends that was never sent.  "rejected"
\* stands for a CALLERROR, a CALLRESULT that fails its schema and a failed
\* write, which differ in the text of the error alone.
Answers        == {"resolved", "rejected"}
SentOutcomes   == {"resolved", "rejected", "timeout", "closedWhileOut"}
UnsentOutcomes == {"queueTimeout", "closedUnsent"}
Settled        == SentOutcomes \union UnsentOutcomes
Statuses       == {"new", "waiting", "out"} \union Settled

Init ==
    /\ busy = FALSE
    /\ closed = FALSE
    /\ queue = <<>>
    /\ pending = {}
    /\ releasing = {}
    /\ status = [c \in Calls |-> "new"]
    /\ askedAt = [c \in Calls |-> 0]
    /\ sentAt = [c \in Calls |-> 0]
    /\ now = 0

(***************************************************************************)
(* Helpers                                                                 *)
(***************************************************************************)

\* No promise reaction is due: the event loop may take its next macrotask.
Idle == releasing = {}

\* The armed timers: the queue timer of a waiting CALL and the response
\* timer of a pending one.
QueueTimer(c)    == c \in ToSet(queue)
ResponseTimer(c) == c \in pending
ArmedAt(c)       == IF ResponseTimer(c) THEN sentAt[c] ELSE askedAt[c]

\* Mutant: the two timers have different durations.
ExpiresInAnyOrder(c) == QueueTimer(c) \/ ResponseTimer(c)

\* The timer of c is the next one to expire.
Expires(c) ==
    \A d \in Calls : QueueTimer(d) \/ ResponseTimer(d) => ArmedAt(c) <= ArmedAt(d)

\* sendNow: the pending entry is stored and the frame is written.
Transmits(c) ==
    /\ pending' = pending \union {c}
    /\ status' = [status EXCEPT ![c] = "out"]
    /\ sentAt' = [sentAt EXCEPT ![c] = now + 1]
    /\ now' = now + 1

\* Mutant: sent.then(release) without the rejection handler.
SettlesReleasingOnSuccess(c, outcome) ==
    /\ pending' = pending \ {c}
    /\ status' = [status EXCEPT ![c] = outcome]
    /\ releasing' = IF outcome = "resolved" THEN releasing \union {c} ELSE releasing

\* The pending CALL c is settled with a verdict; its release is now due.
Settles(c, outcome) ==
    /\ pending' = pending \ {c}
    /\ status' = [status EXCEPT ![c] = outcome]
    /\ releasing' = releasing \union {c}

(***************************************************************************)
(* sendCall                                                                *)
(***************************************************************************)
SendCallClosed(c) ==
    /\ status[c] = "new"
    /\ closed
    /\ status' = [status EXCEPT ![c] = "closedUnsent"]
    /\ UNCHANGED <<busy, closed, queue, pending, releasing, askedAt, sentAt, now>>

\* Mutant: the lane is not checked for an outstanding CALL.
SendCallNowAlways(c) ==
    /\ status[c] = "new"
    /\ ~closed
    /\ busy' = TRUE
    /\ askedAt' = [askedAt EXCEPT ![c] = now + 1]
    /\ Transmits(c)
    /\ UNCHANGED <<closed, queue, releasing>>

SendCallNow(c) ==
    /\ status[c] = "new"
    /\ ~closed
    /\ ~busy
    /\ busy' = TRUE
    /\ askedAt' = [askedAt EXCEPT ![c] = now + 1]
    /\ Transmits(c)
    /\ UNCHANGED <<closed, queue, releasing>>

\* Mutant: the queue is joined without looking at closed.
SendCallQueuedAnyway(c) ==
    /\ status[c] = "new"
    /\ busy
    /\ queue' = Append(queue, c)
    /\ status' = [status EXCEPT ![c] = "waiting"]
    /\ askedAt' = [askedAt EXCEPT ![c] = now + 1]
    /\ now' = now + 1
    /\ UNCHANGED <<busy, closed, pending, releasing, sentAt>>

SendCallQueued(c) ==
    /\ status[c] = "new"
    /\ ~closed
    /\ busy
    /\ queue' = Append(queue, c)
    /\ status' = [status EXCEPT ![c] = "waiting"]
    /\ askedAt' = [askedAt EXCEPT ![c] = now + 1]
    /\ now' = now + 1
    /\ UNCHANGED <<busy, closed, pending, releasing, sentAt>>

(***************************************************************************)
(* Settling                                                                *)
(***************************************************************************)

\* handleResponse: the verdict depends on the kind of frame and, for a
\* CALLRESULT, on the response schema.  A frame for an unknown or already
\* settled messageId changes nothing.
HandleResponse(c, outcome) ==
    /\ Idle
    /\ c \in pending
    /\ outcome \in Answers
    /\ Settles(c, outcome)
    /\ UNCHANGED <<busy, closed, queue, askedAt, sentAt, now>>

\* Mutant: the response timer rejects with CommandQueueTimeoutError.
ResponseTimeoutAsQueued(c) ==
    /\ Idle
    /\ ResponseTimer(c)
    /\ Expires(c)
    /\ Settles(c, "queueTimeout")
    /\ UNCHANGED <<busy, closed, queue, askedAt, sentAt, now>>

ResponseTimeout(c) ==
    /\ Idle
    /\ ResponseTimer(c)
    /\ Expires(c)
    /\ Settles(c, "timeout")
    /\ UNCHANGED <<busy, closed, queue, askedAt, sentAt, now>>

\* The callback of ws.send reports that the frame could not be written.
SendFailed(c) ==
    /\ Idle
    /\ c \in pending
    /\ Settles(c, "rejected")
    /\ UNCHANGED <<busy, closed, queue, askedAt, sentAt, now>>

\* Mutant: the entry is rejected but stays in the queue.
QueueTimeoutKeepingEntry(i) ==
    /\ Idle
    /\ i \in DOMAIN queue
    /\ status[queue[i]] = "waiting"
    /\ Expires(queue[i])
    /\ status' = [status EXCEPT ![queue[i]] = "queueTimeout"]
    /\ UNCHANGED <<busy, closed, queue, pending, releasing, askedAt, sentAt, now>>

\* The queue timer: the entry leaves the queue wherever it is.
QueueTimeout(i) ==
    /\ Idle
    /\ i \in DOMAIN queue
    /\ Expires(queue[i])
    /\ queue' = RemoveAt(queue, i)
    /\ status' = [status EXCEPT ![queue[i]] = "queueTimeout"]
    /\ UNCHANGED <<busy, closed, pending, releasing, askedAt, sentAt, now>>

(***************************************************************************)
(* release: the reaction of a settled CALL hands the lane on               *)
(***************************************************************************)
\* Mutant: queue.pop() instead of queue.shift().
ReleaseToLast(c) ==
    /\ c \in releasing
    /\ queue # <<>>
    /\ releasing' = releasing \ {c}
    /\ queue' = Front(queue)
    /\ Transmits(Last(queue))
    /\ UNCHANGED <<busy, closed, askedAt>>

ReleaseToNext(c) ==
    /\ c \in releasing
    /\ queue # <<>>
    /\ releasing' = releasing \ {c}
    /\ queue' = Tail(queue)
    /\ Transmits(Head(queue))
    /\ UNCHANGED <<busy, closed, askedAt>>

ReleaseToNobody(c) ==
    /\ c \in releasing
    /\ queue = <<>>
    /\ releasing' = releasing \ {c}
    /\ busy' = FALSE
    /\ UNCHANGED <<closed, queue, pending, status, askedAt, sentAt, now>>

(***************************************************************************)
(* clearPending, on the close event of the socket                          *)
(***************************************************************************)
\* Mutant: the waiting entries are dropped without an error.
ClearPendingSilently ==
    /\ Idle
    /\ ~closed
    /\ closed' = TRUE
    /\ status' = [c \in Calls |-> CASE c \in pending      -> "closedWhileOut"
                                    [] c \in ToSet(queue) -> "undefined"
                                    [] OTHER              -> status[c]]
    /\ queue' = <<>>
    /\ releasing' = releasing \union pending
    /\ pending' = {}
    /\ UNCHANGED <<busy, askedAt, sentAt, now>>

ClearPending ==
    /\ Idle
    /\ ~closed
    /\ closed' = TRUE
    /\ status' = [c \in Calls |-> CASE c \in pending      -> "closedWhileOut"
                                    [] c \in ToSet(queue) -> "closedUnsent"
                                    [] OTHER              -> status[c]]
    /\ queue' = <<>>
    /\ releasing' = releasing \union pending
    /\ pending' = {}
    /\ UNCHANGED <<busy, askedAt, sentAt, now>>

Next ==
    \/ \E c \in Calls :
          \/ SendCallClosed(c)
          \/ SendCallNow(c)
          \/ SendCallQueued(c)
          \/ \E outcome \in Answers :
                HandleResponse(c, outcome)
          \/ ResponseTimeout(c)
          \/ SendFailed(c)
          \/ ReleaseToNext(c)
          \/ ReleaseToNobody(c)
    \/ \E i \in DOMAIN queue : QueueTimeout(i)
    \/ ClearPending

\* The event loop runs due reactions and expired timers; nothing obliges a
\* station to answer or a caller to call.
Fairness ==
    \A c \in Calls :
        /\ WF_vars(ReleaseToNext(c) \/ ReleaseToNobody(c))
        /\ WF_vars(ResponseTimeout(c))
        /\ WF_vars(\E i \in DOMAIN queue : queue[i] = c /\ QueueTimeout(i))

Spec == Init /\ [][Next]_vars /\ Fairness

(***************************************************************************)
(* Properties                                                              *)
(***************************************************************************)

\* Every variable stays in its range.
TypeOK ==
    /\ busy \in BOOLEAN
    /\ closed \in BOOLEAN
    /\ queue \in Seq(Calls)
    /\ pending \subseteq Calls
    /\ releasing \subseteq Calls
    /\ status \in [Calls -> Statuses]
    /\ askedAt \in [Calls -> Nat]
    /\ sentAt \in [Calls -> Nat]
    /\ now \in Nat

\* OCPP-J allows one outstanding CALL per direction: the station never has
\* two CALLs of the server open, whatever order answers, timeouts, failed
\* writes and hand-overs come in.
OneOutstanding ==
    \A c, d \in pending : c = d

\* The lane is never lost: while CALLs wait, some CALL is out or about to
\* hand the lane over, and an open idle lane has nobody waiting.
NoLostHandOver ==
    /\ queue # <<>> => pending \union releasing # {}
    /\ busy <=> pending \union releasing # {}

\* CALLs go out in the order their callers made them: a CALL that was sent
\* overtook none that was made before it and is still waiting or was sent
\* later.
SentInOrder ==
    \A c, d \in Calls :
        /\ sentAt[c] > 0
        /\ 0 < askedAt[d] /\ askedAt[d] < askedAt[c]
        => status[d] # "waiting" /\ sentAt[d] < sentAt[c]

\* CommandQueueTimeoutError promises the station never saw the CALL, and a
\* CALL is told anything else only after it was sent.
UnsentIsUnsent ==
    \A c \in Calls :
        /\ status[c] \in UnsentOutcomes => sentAt[c] = 0
        /\ status[c] \in SentOutcomes => sentAt[c] > 0

\* The CALL that waits directly behind the outstanding one always gets its
\* turn: the response timer in front of it was armed first.  A CALL is dropped
\* from the queue only if one that was ahead of it was sent in the meantime.
OnlyDeepQueueTimesOut ==
    \A c \in Calls : status[c] = "queueTimeout" =>
        \E d \in Calls : askedAt[d] < askedAt[c] /\ sentAt[d] > askedAt[c]

\* Once the socket closed, nothing goes out and nobody is left waiting.
NothingAfterClose ==
    closed => pending = {} /\ queue = <<>>

\* A verdict is final: no late answer, timer or close changes it.
VerdictIsFinal ==
    [][\A c \in Calls : status[c] \in Settled => status'[c] = status[c]]_vars

\* Every CALL gets a verdict although the station may never answer.
EveryCallSettles ==
    \A c \in Calls : status[c] \in {"waiting", "out"} ~> status[c] \in Settled

(***************************************************************************)
(* The lane implements what its callers are promised                       *)
(***************************************************************************)
Heard == {c \in Calls : sentAt[c] > 0}

Verdict ==
    [c \in Calls |-> CASE status[c] = "new"                -> "new"
                       [] status[c] \in {"waiting", "out"} -> "open"
                       [] OTHER                            -> "settled"]

Promise == INSTANCE OutboundCalls
    WITH line <- queue, talking <- pending, heard <- Heard, verdict <- Verdict

\* The lane does for its callers what OutboundCalls says, step for step.
ImplementsPromise == Promise!OCSpec
=============================================================================
