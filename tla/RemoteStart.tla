----------------------------- MODULE RemoteStart -----------------------------
(***************************************************************************)
(* A driver's start from the portal with a saved card: the session row, the *)
(* hold on the card, and the transaction that may or may not follow.       *)
(*                                                                         *)
(*   portal/charger.ts       row, hold, RequestStartTransaction, its close *)
(*   session-payments.ts     authorise, record, compensate; cancel a hold; *)
(*                           an operator's capture or cancel of it         *)
(*   payment-gate.ts         the projection's own hold and its decision    *)
(*   transaction-projector.ts  link of the Started to the waiting row      *)
(*   remote-start-timeout.ts, unstarted-starts.ts   the delayed close      *)
(*   stale-session-cleanup.ts  the last resort, hours later                *)
(*                                                                         *)
(* Three triggers place the hold of one session under one idempotency key, *)
(* three closers release it and an operator may take or release it at any  *)
(* time.  Each of their steps that awaits the database, the provider or    *)
(* the station is an action of its own.                                    *)
(***************************************************************************)
EXTENDS Naturals

CONSTANTS
  MaxTries,    \* runs of the delayed close (attempts of its queue: 3)
  MaxFaults    \* bound: failed calls, lost answers, crashes

ASSUME BoundsAssumption == MaxTries \in Nat \ {0} /\ MaxFaults \in Nat

Trigger == {"portal", "gate", "operator"}
Closer  == {"portal", "job", "stale"}
Taker   == Closer \cup {"operator"}     (* who looks for the recorded hold *)
Verdict == {"authorized", "over", "refused"}
Over    == {"failed", "faulted", "ended"}

VARIABLES
  session,   \* status of the charging_sessions row
  linked,    \* the row carries the transaction of the station
  row,       \* a transaction_events row of the session exists
  record,    \* status of its payment record: none, open (pre_authorized), ...
  hold,      \* at the provider: none, refused, held, cancelled, settled
  place,     \* per trigger: where its placement of the hold is, or its verdict
  portal,    \* the portal's request: idle, place, wait (for the station), done
  station,   \* idle, asked, charging, over (Ended sent), done
  reply,     \* the station's answer to the start: none, accepted, rejected
  gate,      \* the projection of Started: idle, link, row, place, a decision
  closer,    \* per closer and for the operator: idle, due, find, cancel, mark,
             \* done; of the operator alone: capture, settle
  tries,     \* runs of the delayed close
  astray,    \* history: what went wrong for good (see below)
  faults

vars == <<session, linked, row, record, hold, place, portal, station, reply,
          gate, closer, tries, astray, faults>>

payment == <<record, hold, place>>
start   == <<portal, station, reply>>

(* What no later step repairs:                                             *)
(*   adrift      a failed placement left its hold at the provider          *)
(*   refused     a refused start left the hold another trigger recorded    *)
(*   reversed    a compensation cancelled the hold of an open record       *)
(*   replayed    an open record of a hold cancelled before (replayed key)  *)
(*   late        a hold recorded for a session that is over                *)
(*   uncancelled the close of a session gave its hold up                   *)
(*   begun       a linked session closed before its event row, if one came *)
(*   released    an operator cancelled the hold                            *)
Astray == {"adrift", "refused", "reversed", "replayed", "late", "uncancelled",
           "begun", "released"}

Stage == {"idle", "due", "find", "cancel", "mark", "capture", "settle", "done"}

(* One type invariant; tries is bounded by the queue's attempts. *)
TypeOK ==
  /\ session \in {"none", "active"} \cup Over
  /\ linked \in BOOLEAN /\ row \in BOOLEAN
  /\ record \in {"none", "open", "failed", "cancelled", "settled"}
  /\ hold \in {"none", "refused", "held", "cancelled", "settled"}
  /\ place \in [Trigger -> {"idle", "read", "ask", "record", "fail", "reverse"} \cup Verdict]
  /\ portal \in {"idle", "place", "wait", "done"}
  /\ station \in {"idle", "asked", "charging", "over", "done"}
  /\ reply \in {"none", "accepted", "rejected"}
  /\ gate \in {"idle", "link", "row", "place", "allowed", "stopped", "over"}
  /\ closer \in [Taker -> Stage]
  /\ tries \in 0 .. MaxTries
  /\ astray \subseteq Astray
  /\ faults \in 0 .. MaxFaults

Init ==
  /\ session = "none" /\ linked = FALSE /\ row = FALSE
  /\ record = "none" /\ hold = "none" /\ place = [t \in Trigger |-> "idle"]
  /\ portal = "idle" /\ station = "idle" /\ reply = "none" /\ gate = "idle"
  /\ closer = [c \in Taker |-> "idle"] /\ tries = 0
  /\ astray = {} /\ faults = 0

Fault == faults < MaxFaults /\ faults' = faults + 1

Note(what, happened) == astray' = IF happened THEN astray \cup {what} ELSE astray

-----------------------------------------------------------------------------
(* Placing a hold: authorizeSessionHold.                                   *)

At(t, s)    == place' = [place EXCEPT ![t] = s]
NotPlacing  == <<session, linked, row, start, gate, closer, tries>>
OnHold(r)   == IF r \in {"failed", "cancelled"} THEN "over" ELSE "authorized"

(* A hold that no record leads to. *)
Unrecorded  == hold = "held" /\ record \in {"none", "failed"}

(* An existing record ends the placement; a failed or cancelled one is     *)
(* terminal.                                                               *)
Read(t) ==
  /\ place[t] = "read"
  /\ At(t, IF record = "none" THEN "ask" ELSE OnHold(record))
  /\ UNCHANGED <<NotPlacing, record, hold, astray, faults>>

(* No call to the provider: the card was removed (the portal has no branch  *)
(* for this and sends the start without a hold), its provider is not       *)
(* configured, or the payout account of the site is not ready.             *)
NoHold(t) ==
  /\ place[t] = "read" /\ record = "none" /\ Fault
  /\ \E s \in {"refused", "fail"} \cup (IF t = "portal" THEN {"over"} ELSE {}) : At(t, s)
  /\ UNCHANGED <<NotPlacing, record, hold, astray>>

(* The provider answers: once per key, the same answer ever after.  Under  *)
(* a key it has seen it also refuses another card or amount.               *)
Ask(t) ==
  /\ place[t] = "ask"
  /\ \/ hold \notin {"none", "refused"} /\ At(t, "record") /\ UNCHANGED <<hold, faults>>
     \/ hold = "none" /\ hold' = "held" /\ At(t, "record") /\ UNCHANGED faults
     \/ hold = "none" /\ hold' = "refused" /\ At(t, "fail") /\ UNCHANGED faults
     \/ hold = "refused" /\ At(t, "fail") /\ UNCHANGED <<hold, faults>>
     \/ hold \notin {"none", "refused"} /\ Fault /\ At(t, "fail") /\ UNCHANGED hold
  /\ UNCHANGED <<NotPlacing, record, astray>>

(* The answer is lost, and taken for a refusal. *)
AnswerLost(t) ==
  /\ place[t] = "ask" /\ Fault
  /\ hold' = IF hold = "none" THEN "held" ELSE hold
  /\ At(t, "fail")
  /\ UNCHANGED <<NotPlacing, record, astray>>

(* recordHold: one record per session. *)
Inserts ==
  /\ record = "none" /\ record' = "open"
  /\ astray' = astray \cup (IF hold # "held" THEN {"replayed"} ELSE {})
                      \cup (IF session \in Over THEN {"late"} ELSE {})

(* A trigger that finds another's record goes by the status of that one.   *)
Record(t) ==
  /\ place[t] = "record"
  /\ \/ Inserts /\ At(t, "authorized")
     \/ /\ record # "none" /\ At(t, OnHold(record)) /\ UNCHANGED record
        /\ Note("adrift", Unrecorded)
  /\ UNCHANGED <<NotPlacing, hold, faults>>

(* The insert fails, or its answer is lost after it committed. *)
RecordThrows(t) ==
  /\ place[t] = "record" /\ Fault
  /\ Inserts \/ UNCHANGED <<record, astray>>
  /\ At(t, "reverse")
  /\ UNCHANGED <<NotPlacing, hold>>

(* The compensation: the hold is cancelled, whoever recorded it meanwhile. *)
Reverse(t) ==
  /\ place[t] = "reverse" /\ At(t, "refused")
  /\ hold' = IF hold = "held" THEN "cancelled" ELSE hold
  /\ Note("reversed", hold = "held" /\ record = "open")
  /\ UNCHANGED <<NotPlacing, record, faults>>

ReverseThrows(t) ==
  /\ place[t] = "reverse" /\ At(t, "refused") /\ Fault
  /\ Note("adrift", hold = "held")
  /\ UNCHANGED <<NotPlacing, record, hold>>

(* recordFailedHold, unless a record exists; its insert may fail too. *)
RecordFailed(t) ==
  /\ place[t] = "fail" /\ At(t, "refused")
  /\ \/ record' = (IF record = "none" THEN "failed" ELSE record) /\ UNCHANGED faults
     \/ Fault /\ UNCHANGED record
  /\ Note("adrift", Unrecorded)
  /\ UNCHANGED <<NotPlacing, hold>>

Place(t) == Read(t) \/ Ask(t) \/ Record(t) \/ Reverse(t) \/ RecordFailed(t)

(* POST /sessions/:id/pre-authorize.  It does not look at the session. *)
OperatorPreAuthorizes ==
  /\ session # "none" /\ place["operator"] = "idle"
  /\ At("operator", "read")
  /\ UNCHANGED <<NotPlacing, record, hold, astray, faults>>

-----------------------------------------------------------------------------
(* The request of the portal.                                              *)

PortalStarts ==
  /\ portal = "idle" /\ portal' = "place" /\ session' = "active"
  /\ At("portal", "read")
  /\ UNCHANGED <<linked, row, record, hold, station, reply, gate, closer, tries,
                 astray, faults>>

(* No hold: the start is refused.  The UPDATE has no guard. *)
PortalRefuses ==
  /\ portal = "place" /\ place["portal"] = "refused"
  /\ session' = "failed" /\ portal' = "done"
  /\ Note("refused", hold = "held" /\ record = "open")
  /\ UNCHANGED <<linked, row, payment, station, reply, gate, closer, tries, faults>>

(* RequestStartTransaction, which may not reach the station. *)
PortalSends ==
  /\ portal = "place" /\ place["portal"] \in {"authorized", "over"}
  /\ portal' = "wait" /\ station' \in {"idle", "asked"}
  /\ UNCHANGED <<session, linked, row, payment, reply, gate, closer, tries,
                 astray, faults>>

(* Accepted: the delayed close is scheduled, unless its message is lost. *)
PortalAccepted ==
  /\ portal = "wait" /\ reply = "accepted" /\ portal' = "done"
  /\ \/ closer' = [closer EXCEPT !["job"] = "due"] /\ UNCHANGED faults
     \/ Fault /\ UNCHANGED closer
  /\ UNCHANGED <<session, linked, row, payment, station, reply, gate, tries, astray>>

(* Rejected, or no answer in time: closeFailedStart. *)
PortalGivesUp ==
  /\ portal = "wait" /\ portal' = "done"
  /\ closer' = [closer EXCEPT !["portal"] = "due"]
  /\ UNCHANGED <<session, linked, row, payment, station, reply, gate, tries,
                 astray, faults>>

-----------------------------------------------------------------------------
(* Closing a start that never began.                                       *)

Go(c, s) == closer' = [closer EXCEPT ![c] = s]

(* Mutant: a session this closer closed before is left alone. *)
CloseOnce(c) ==
  /\ closer[c] = "due" /\ c \in {"portal", "job"}
  /\ tries' = IF c = "job" THEN tries + 1 ELSE tries
  /\ \/ /\ session = "active" /\ ~row /\ session' = "failed" /\ Go(c, "find")
        /\ Note("begun", linked)
     \/ (session # "active" \/ row) /\ Go(c, "done") /\ UNCHANGED <<session, astray>>
  /\ UNCHANGED <<linked, row, payment, start, gate, faults>>

(* failUnstartedRemoteSession: only while the session is active and no     *)
(* transaction was reported.  A session already closed in this way is      *)
(* closed again, for its hold.                                             *)
Close(c) ==
  /\ closer[c] = "due" /\ c \in {"portal", "job"}
  /\ tries' = IF c = "job" THEN tries + 1 ELSE tries
  /\ \/ /\ session = "active" /\ ~row /\ session' = "failed" /\ Go(c, "find")
        /\ Note("begun", linked)
     \/ /\ session \in {"failed", "faulted"} /\ ~row /\ Go(c, "find")
        /\ UNCHANGED <<session, astray>>
     \/ /\ row \/ session = "ended"
        /\ Go(c, "done") /\ UNCHANGED <<session, astray>>
  /\ UNCHANGED <<linked, row, payment, start, gate, faults>>

(* staleSessionCleanupHandler: hours without news of an active session.    *)
(* Everything else that was under way has ended long ago.                  *)
StaleCloses ==
  /\ closer["stale"] = "idle" /\ session = "active"
  /\ portal = "done" /\ closer["portal"] \in {"idle", "done"}
  /\ closer["job"] \in {"idle", "due", "done"} /\ closer["operator"] \in {"idle", "done"}
  /\ gate \notin {"link", "row", "place"}
  /\ \A t \in Trigger : place[t] \in {"idle"} \cup Verdict
  /\ session' = "faulted" /\ Go("stale", "find")
  /\ UNCHANGED <<linked, row, payment, start, gate, tries, astray, faults>>

(* POST /sessions/:id/capture.  It does not look at the session. *)
OperatorCaptures ==
  /\ session # "none" /\ closer["operator"] = "idle" /\ Go("operator", "find")
  /\ UNCHANGED <<session, linked, row, payment, start, gate, tries, astray, faults>>

(* cancelOpenSessionHold: find the open record, cancel at the provider     *)
(* (one cancel per hold), then the guarded write to the record.  An        *)
(* operator captures an amount, refused if it is above the hold, or        *)
(* cancels: at the amount 0, and at none while there is no final cost.     *)
FindHold(c) ==
  /\ closer[c] = "find"
  /\ \/ record = "open" /\ Go(c, "cancel")
     \/ record = "open" /\ c = "operator" /\ \E s \in {"capture", "done"} : Go(c, s)
     \/ record # "open" /\ Go(c, "done")
  /\ UNCHANGED <<session, linked, row, payment, start, gate, tries, astray, faults>>

(* A hold an operator lets go. *)
Released(c) ==
  IF c = "operator" /\ hold = "held" /\ hold' = "cancelled" THEN {"released"} ELSE {}

CancelHold(c) ==
  /\ closer[c] = "cancel" /\ hold \in {"held", "cancelled"}
  /\ hold' = "cancelled" /\ Go(c, "mark")
  /\ astray' = astray \cup Released(c)
  /\ UNCHANGED <<session, linked, row, record, place, start, gate, tries, faults>>

MarkCancelled(c) ==
  /\ closer[c] = "mark" /\ Go(c, "done")
  /\ record' = IF record = "open" THEN "cancelled" ELSE record
  /\ UNCHANGED <<session, linked, row, hold, place, start, gate, tries, astray, faults>>

(* The capture and its write.  Of a hold captured before, the provider     *)
(* repeats the answer or refuses another amount; of one cancelled it       *)
(* refuses.                                                                *)
CaptureHold ==
  /\ closer["operator"] = "capture"
  /\ \/ hold \in {"held", "settled"} /\ hold' = "settled" /\ Go("operator", "settle")
     \/ hold \in {"settled", "cancelled"} /\ Go("operator", "done") /\ UNCHANGED hold
  /\ UNCHANGED <<session, linked, row, record, place, start, gate, tries, astray, faults>>

MarkCaptured ==
  /\ closer["operator"] = "settle" /\ Go("operator", "done")
  /\ record' = IF record = "open" THEN "settled" ELSE record
  /\ UNCHANGED <<session, linked, row, hold, place, start, gate, tries, astray, faults>>

(* Mutant: the queue repeats the job for ever. *)
RetriesForEver(c) == c = "job"
MayRetry(c) == c = "job" /\ tries < MaxTries

(* A step of a closer throws: the job runs again, the others only warn. A  *)
(* cancel may have reached the provider, which refuses one of a captured   *)
(* hold.  The operator's request fails, or dies, and leaves the record to  *)
(* the others.                                                             *)
Threw(c) ==
  /\ Go(c, IF MayRetry(c) THEN "due" ELSE "done")
  /\ astray' = astray \cup Released(c) \cup
       (IF hold' = "held" /\ c \in Closer /\ ~MayRetry(c) THEN {"uncancelled"} ELSE {})
  /\ UNCHANGED <<session, linked, row, record, place, start, gate, tries>>

CancelRefused(c) ==
  /\ closer[c] = "cancel" /\ hold = "settled"
  /\ UNCHANGED <<hold, faults>> /\ Threw(c)

(* The hold after a call of c that reached the provider. *)
Reached(c) ==
  CASE hold = "held" /\ closer[c] = "cancel"  -> "cancelled"
    [] hold = "held" /\ closer[c] = "capture" -> "settled"
    [] OTHER -> hold

CloserThrows(c) ==
  /\ closer[c] \notin {"idle", "due", "done"} /\ Fault
  /\ hold' \in {hold, Reached(c)}
  /\ Threw(c)

(* This process cannot use the provider of the hold: no retry helps. *)
ProviderGone(c) ==
  /\ closer[c] \in {"cancel", "capture"} /\ Fault /\ Go(c, "done")
  /\ Note("uncancelled", hold = "held" /\ c \in Closer)
  /\ UNCHANGED <<session, linked, row, payment, start, gate, tries>>

Closes(c) ==
  \/ Close(c) \/ FindHold(c) \/ CancelHold(c) \/ CancelRefused(c)
  \/ MarkCancelled(c)

-----------------------------------------------------------------------------
(* The station.                                                            *)

StationAnswers ==
  /\ station = "asked" /\ reply = "none" /\ reply' \in {"accepted", "rejected"}
  /\ UNCHANGED <<session, linked, row, payment, portal, station, gate, closer,
                 tries, astray, faults>>

(* The transaction of this start begins, before or after the answer, or    *)
(* long after the portal stopped to wait for one.                          *)
StationStarts ==
  /\ station = "asked" /\ station' = "charging" /\ gate' = "link"
  /\ UNCHANGED <<session, linked, row, payment, portal, reply, closer, tries,
                 astray, faults>>

StationEnds ==
  /\ station = "charging" /\ station' = "over"
  /\ UNCHANGED <<session, linked, row, payment, portal, reply, gate, closer,
                 tries, astray, faults>>

-----------------------------------------------------------------------------
(* The projections of the transaction, in their lane.                      *)

(* Mutant: any session of the remote start is linked. *)
LinkAny ==
  /\ gate = "link"
  /\ \/ ~row /\ linked' = TRUE /\ gate' = "row"
     \/ row /\ gate' = "over" /\ UNCHANGED linked
  /\ UNCHANGED <<session, row, payment, start, closer, tries, astray, faults>>

(* The pick-and-link of one statement: an active start without an event.   *)
(* Otherwise the transaction gets a session of its own.                    *)
Link ==
  /\ gate = "link"
  /\ \/ session = "active" /\ ~row /\ linked' = TRUE /\ gate' = "row"
     \/ (session # "active" \/ row) /\ gate' = "over" /\ UNCHANGED linked
  /\ UNCHANGED <<session, row, payment, start, closer, tries, astray, faults>>

(* The event row, then the gate's own placement of the hold.  An insert    *)
(* that was interrupted is only warned about.                              *)
InsertRow ==
  /\ gate = "row" /\ gate' = "place" /\ At("gate", "read")
  /\ \/ row' = TRUE /\ UNCHANGED faults
     \/ Fault /\ UNCHANGED row
  /\ UNCHANGED <<session, linked, record, hold, start, closer, tries, astray>>

GateAllows ==
  /\ gate = "place" /\ place["gate"] = "authorized" /\ gate' = "allowed"
  /\ UNCHANGED <<session, linked, row, payment, start, closer, tries, astray, faults>>

(* stopSessionForPayment: the active session is faulted, unless that fails,*)
(* and the station is asked to stop, which it may never hear.              *)
GateStops ==
  /\ gate = "place" /\ place["gate"] \in {"over", "refused"} /\ gate' = "stopped"
  /\ \/ session' = (IF session = "active" THEN "faulted" ELSE session) /\ UNCHANGED faults
     \/ Fault /\ UNCHANGED session
  /\ UNCHANGED <<linked, row, payment, start, closer, tries, astray>>

Settled == gate \in {"allowed", "stopped", "over"}

Updated ==
  /\ linked /\ Settled /\ station = "charging" /\ ~row /\ row' = TRUE
  /\ UNCHANGED <<session, linked, payment, start, gate, closer, tries, astray, faults>>

(* Ended and its settlement (SessionProjection, SessionPayment): an open   *)
(* record is captured or cancelled, or fails when its hold is gone.  An    *)
(* operator's capture is repeated, or another amount refused.              *)
Ended ==
  /\ station = "over" /\ Settled /\ station' = "done"
  /\ row' = (row \/ linked)
  /\ session' = IF linked /\ session = "active" THEN "ended" ELSE session
  /\ IF linked /\ record = "open"
       THEN /\ \/ hold \in {"held", "settled"} /\ record' = "settled" /\ hold' = "settled"
               \/ hold # "held" /\ record' = "failed" /\ UNCHANGED hold
       ELSE UNCHANGED <<record, hold>>
  /\ UNCHANGED <<linked, place, portal, reply, gate, closer, tries, astray, faults>>

-----------------------------------------------------------------------------
(* Crashes.  A hold that nobody recorded yet is lost with its process.     *)

Unplace(t) ==
  /\ At(t, IF t = "operator" THEN "refused" ELSE "idle")
  /\ astray' = astray
       \cup (IF Unrecorded THEN {"adrift"} ELSE {})
       \cup (IF t = "portal" /\ hold = "held" /\ closer["portal"] \in {"find", "cancel"}
               THEN {"uncancelled"} ELSE {})

(* The API process of the portal's request. *)
PortalDies ==
  /\ portal \in {"place", "wait"} \/ closer["portal"] \notin {"idle", "done"}
  /\ Fault
  /\ Unplace("portal") /\ portal' = "done" /\ Go("portal", "done")
  /\ UNCHANGED <<session, linked, row, record, hold, station, reply, gate, tries>>

OperatorDies ==
  /\ place["operator"] \notin {"idle"} \cup Verdict /\ Fault
  /\ Unplace("operator")
  /\ UNCHANGED <<NotPlacing, record, hold>>

(* The OCPP process, and the projection of Started with it. *)
GateDies ==
  /\ gate \in {"link", "row", "place"} /\ Fault
  /\ Unplace("gate") /\ gate' = "over"
  /\ UNCHANGED <<session, linked, row, record, hold, start, closer, tries>>

-----------------------------------------------------------------------------
Next ==
  \/ \E t \in Trigger :
       Place(t) \/ NoHold(t) \/ AnswerLost(t) \/ RecordThrows(t) \/ ReverseThrows(t)
  \/ \E c \in Taker : Closes(c) \/ CloserThrows(c) \/ ProviderGone(c)
  \/ PortalStarts \/ PortalRefuses \/ PortalSends \/ PortalAccepted \/ PortalGivesUp
  \/ OperatorPreAuthorizes \/ OperatorCaptures \/ CaptureHold \/ MarkCaptured
  \/ StaleCloses
  \/ StationAnswers \/ StationStarts \/ StationEnds
  \/ Link \/ InsertRow \/ GateAllows \/ GateStops \/ Updated \/ Ended
  \/ PortalDies \/ OperatorDies \/ GateDies

(* Requests, projections and jobs run on.  The stale cleanup comes to a    *)
(* session of which nothing is heard, so not while the station charges.    *)
(* Nothing is assumed of the station or of people.                         *)
Fairness ==
  /\ \A t \in Trigger : WF_vars(Place(t))
  /\ \A c \in Taker : WF_vars(Closes(c))
  /\ WF_vars(CaptureHold \/ MarkCaptured)
  /\ WF_vars(PortalRefuses \/ PortalSends \/ PortalGivesUp)
  /\ WF_vars(Link \/ InsertRow \/ GateAllows \/ GateStops \/ Ended)
  /\ WF_vars(StaleCloses /\ station # "charging")

Spec == Init /\ [][Next]_vars /\ Fairness

-----------------------------------------------------------------------------
(* While a transaction the gate allowed charges, its session is active and *)
(* the card is held for it or charged, although portal, delayed close,     *)
(* gate and operator acted on both at once.  A session may be given up     *)
(* only by the stale cleanup, or by a close between the link of its        *)
(* transaction and its event row; its hold may be gone for these two, by a *)
(* compensation, by the replayed key of one, or because an operator        *)
(* cancelled it: a capture by an operator takes the money.                 *)
AllowedIsPaid ==
  gate = "allowed" /\ station = "charging" =>
    /\ session = "active" \/ closer["stale"] # "idle" \/ "begun" \in astray
    /\ \/ hold \in {"held", "settled"}
       \/ closer["stale"] # "idle"
       \/ astray \cap {"begun", "reversed", "replayed", "released"} # {}

(* No hold is left behind: in the end it is released or settled, unless    *)
(* the station goes on charging.  Whatever closes a start closes its hold, *)
(* also when the first attempt failed or the process died.                 *)
HoldReleased ==
  (hold = "held") ~>
    \/ hold # "held"
    \/ station = "charging"
    \/ astray \cap {"adrift", "refused", "uncancelled", "late"} # {}
=============================================================================
