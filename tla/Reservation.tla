----------------------------- MODULE Reservation -----------------------------
(***************************************************************************)
(* One reservation of a driver, from its creation to its last fee.         *)
(*                                                                         *)
(*   reservation.service.ts      creation and dispatch to the station      *)
(*   reservation-activate.ts     the delayed activation job of the worker  *)
(*   reservation-projections.ts  answers of the station, sessions          *)
(*   reservation-cancel.ts       the guarded cancel of every actor         *)
(*   reservation-expiry.ts       expiry and the settlement of no-show fees *)
(*   reservation-fees.ts         the charge of a fee and its resume        *)
(*                                                                         *)
(* All of them work on one row by guarded UPDATEs, and most of them read   *)
(* it first and write later.  An answer to a read that filters the row in  *)
(* the way the later UPDATE does is folded into the UPDATE.                *)
(***************************************************************************)
EXTENDS Naturals, FiniteSets

CONSTANTS
  Settlers,    \* runs that settle no-show fees: crons that overlap because
               \* a lease was lost, and the station-reported expiry
  MaxFaults    \* bound: crashes, failed publishes, lost answers, edits,
               \* cancels that overlap another statement, removal of the card

(* The reconciliation and the run of a cancel are none of the settlers. *)
ASSUME SettlersAssumption == Settlers \cap {"recon", "canceller"} = {}
ASSUME FaultsAssumption == MaxFaults \in Nat

Kind   == {"noShow", "cancellation"}
Runner == Settlers \cup {"recon", "canceller"}
Live   == {"scheduled", "active"}

VARIABLES
  status,     \* reservation_status of the row
  by,         \* cancelled_by
  acked,      \* station_ack_at is set
  fee,        \* no_show_fee_state
  clock,      \* where now() is: before the start, open (held), over
  job,        \* the activation job
  inflight,   \* ReserveNow commands on their way to the station or back
  cancelling, \* who has a cancel under way that has read the row, or "none"
  overwrote,  \* history: a cancel wrote over a reservation that had left Live
  tx,         \* the session of the driver and the projections of its events
  linked,     \* session.reservation_id names the reservation
  record,     \* the payment record of each kind of fee
  terms,      \* a fee and a card to charge it, no card, or no fee at all
  provider,   \* what the provider knows of the key of each kind of fee
  run,        \* what each run that charges a fee is doing
  late,       \* history: the session was linked when the hold had ended
  missed,     \* history: the job gave the hold to a session whose Ended had
              \* come, or came before the link
  unsure,     \* history: a no-show fee failed although its charge may have
              \* taken the money
  faults

row      == <<status, by, acked, fee>>
cancel   == <<cancelling, overwrote>>
charging == <<terms, record, provider, run, unsure>>
session  == <<tx, linked, late, missed>>
vars     == <<row, clock, job, inflight, cancel, session, charging, faults>>

-----------------------------------------------------------------------------
Idle == [step |-> "idle", kind |-> "noShow", outcome |-> "none"]
Run  == [step : {"idle", "record", "charge", "mark", "read", "state"},
         kind : Kind, outcome : {"none", "charged", "failed"}]

(* The type invariant, with the columns that go together in a row: a       *)
(* reservation has a canceller exactly when it is cancelled, and owes or   *)
(* owed a no-show fee only when it expired and the station had accepted it.*)
TypeOK ==
  /\ status \in {"scheduled", "active", "in_use", "used", "cancelled", "expired"}
  /\ by \in {"none", "person", "system"}
  /\ by # "none" <=> status = "cancelled"
  /\ acked \in BOOLEAN
  /\ fee \in {"none", "waived", "due", "charged", "failed"}
  /\ fee \in {"due", "charged", "failed"} => acked /\ (status = "expired" \/ overwrote)
  /\ clock \in {"before", "open", "over"}
  /\ job \in {"waiting", "flip", "publish", "cancel", "expire", "useFlip",
              "useLink", "done"}
  /\ inflight \in 0 .. MaxFaults + 1
  /\ cancelling \in {"none", "person", "system"} /\ overwrote \in BOOLEAN
  /\ tx \in {"none", "read", "link", "move", "charging", "ended", "close", "done"}
  /\ linked \in BOOLEAN /\ late \in BOOLEAN /\ missed \in BOOLEAN
  /\ terms \in {"card", "noCard", "noFee"}
  /\ record \in [Kind -> {"none", "pending", "captured", "failed"}]
  /\ provider \in [Kind -> {"unseen", "taken", "declined"}]
  /\ run \in [Runner -> Run]
  /\ unsure \in BOOLEAN
  /\ faults \in 0 .. MaxFaults

(* A booking for later waits for its activation job; one for now is active *)
(* and its ReserveNow is sent.                                             *)
Init ==
  /\ \/ status = "scheduled" /\ clock = "before" /\ job = "waiting" /\ inflight = 0
     \/ status = "active" /\ clock = "open" /\ job = "done" /\ inflight = 1
  /\ by = "none" /\ acked = FALSE /\ fee = "none"
  /\ cancelling = "none" /\ overwrote = FALSE
  /\ tx = "none" /\ linked = FALSE /\ late = FALSE /\ missed = FALSE
  /\ terms \in {"card", "noCard", "noFee"}
  /\ record = [k \in Kind |-> "none"]
  /\ provider = [k \in Kind |-> "unseen"]
  /\ run = [r \in Runner |-> Idle]
  /\ unsure = FALSE /\ faults = 0

Fault == faults < MaxFaults /\ faults' = faults + 1

Tick ==
  /\ clock # "over"
  /\ clock' = IF clock = "before" THEN "open" ELSE "over"
  /\ UNCHANGED <<row, job, inflight, cancel, session, charging, faults>>

-----------------------------------------------------------------------------
(* The activation job: handleReservationActivate.                          *)

(* History: the link comes when the hold has ended. *)
LinksLate == ~linked /\ status \notin Live \cup {"in_use"}

SessionOpen == tx \in {"read", "link", "move", "charging"}

(* The row is read, then the station, its connectors and the sessions on   *)
(* the EVSE; what is decided here is written later.                        *)
JobReads ==
  /\ job = "waiting" /\ clock # "before"
  /\ job' \in CASE status # "scheduled" -> {"done"}
                [] status = "scheduled" /\ clock = "over" -> {"expire"}
                [] OTHER -> {"cancel", "flip"}
                              \cup (IF SessionOpen THEN {"useFlip"} ELSE {})
  /\ UNCHANGED <<row, clock, inflight, cancel, session, charging, faults>>

(* UPDATE .. SET status = to WHERE status = 'scheduled', then the job's     *)
(* next step; another writer was faster: the job is done.                  *)
JobFlips(step, to, next) ==
  /\ job = step
  /\ IF status = "scheduled" THEN status' = to /\ job' = next
                             ELSE UNCHANGED status /\ job' = "done"
  /\ UNCHANGED <<by, acked, fee, clock, inflight, cancel, tx, linked, late, charging, faults>>

JobActivates == JobFlips("flip", "active", "publish") /\ UNCHANGED missed
JobExpires   == JobFlips("expire", "expired", "done") /\ UNCHANGED missed

(* The driver charges on the EVSE already, or did when the job looked. *)
JobUses ==
  /\ JobFlips("useFlip", "in_use", "useLink")
  /\ missed' = (missed \/ (status = "scheduled" /\ ~SessionOpen))

JobPublishes ==
  /\ job = "publish" /\ job' = "done" /\ inflight' = inflight + 1
  /\ UNCHANGED <<row, clock, cancel, session, charging, faults>>

(* The publish throws, after it reached the station or before: the row is  *)
(* put back unless the station accepted or someone else moved it, and the  *)
(* job runs again.                                                         *)
JobPublishFails ==
  /\ job = "publish" /\ Fault /\ job' = "waiting"
  /\ inflight' \in {inflight, inflight + 1}
  /\ status' = IF status = "active" /\ ~acked THEN "scheduled" ELSE status
  /\ UNCHANGED <<by, acked, fee, clock, cancel, session, charging>>

(* The session is linked whatever became of it since it was read. *)
JobLinksSession ==
  /\ job = "useLink" /\ job' = "done"
  /\ linked' = TRUE /\ late' = (late \/ LinksLate)
  /\ UNCHANGED <<row, clock, inflight, cancel, tx, missed, charging, faults>>

(* The worker dies: the job is stalled and runs again. *)
JobDies ==
  /\ job \notin {"waiting", "done"} /\ Fault /\ job' = "waiting"
  /\ UNCHANGED <<row, clock, inflight, cancel, session, charging>>

-----------------------------------------------------------------------------
(* Cancellation: applyReservationCancellation.                             *)

(* Mutant: the cancel looks at the row it read, not at the row it writes. *)
CancelAnyRow(who) == status' = "cancelled" /\ by' = who /\ UNCHANGED <<acked, fee>>

Cancel(who) ==
  /\ status \in Live /\ status' = "cancelled" /\ by' = who
  /\ UNCHANGED <<acked, fee>>

(* The job found the station offline, faulted or its EVSE taken. *)
JobCancels ==
  /\ job = "cancel" /\ job' = "done"
  /\ IF status \in Live THEN Cancel("system") ELSE UNCHANGED row
  /\ UNCHANGED <<clock, inflight, cancel, session, charging, faults>>

(* An outage of the station, a hold it removed, or no answer to the        *)
(* dispatch of a reservation for now.                                      *)
CancelBySystem ==
  /\ Cancel("system")
  /\ UNCHANGED <<clock, job, inflight, cancel, session, charging, faults>>

ChargesCancellation ==
  \/ UNCHANGED run
  \/ /\ run["canceller"].step = "idle"
     /\ run' = [run EXCEPT !["canceller"] =
                  [Idle EXCEPT !.step = "record", !.kind = "cancellation"]]

(* The driver or an operator cancels; inside the cancellation window, and  *)
(* unless the terms have no fee, the fee is charged afterwards.            *)
CancelByPerson ==
  /\ Cancel("person") /\ ChargesCancellation
  /\ UNCHANGED <<clock, job, inflight, cancel, session, terms, record, provider, unsure, faults>>

(* The status is compared in the CTE of the statement, which does not lock *)
(* the row: what other statements commit between its snapshot and its      *)
(* write is written over.                                                  *)
CancelReads(who) ==
  /\ cancelling = "none" /\ status \in Live /\ Fault
  /\ cancelling' = who
  /\ UNCHANGED <<row, overwrote, clock, job, inflight, session, charging>>

CancelWrites ==
  /\ cancelling # "none" /\ cancelling' = "none"
  /\ status' = "cancelled" /\ by' = cancelling
  /\ overwrote' = (overwrote \/ status \notin Live)
  /\ IF cancelling = "person" THEN ChargesCancellation ELSE UNCHANGED run
  /\ UNCHANGED <<acked, fee, clock, job, inflight, session, terms, record, provider,
                 unsure, faults>>

-----------------------------------------------------------------------------
(* Answers of the station: projectReserveNowResult, dispatchReservation.   *)

Accepted ==
  /\ inflight > 0 /\ inflight' = inflight - 1
  /\ acked' = (acked \/ status = "active")
  /\ UNCHANGED <<status, by, fee, clock, job, cancel, session, charging, faults>>

Rejected ==
  /\ inflight > 0 /\ inflight' = inflight - 1
  /\ IF status \in Live /\ ~acked THEN Cancel("system") ELSE UNCHANGED row
  /\ UNCHANGED <<clock, job, cancel, session, charging, faults>>

(* updateReservation: the new values are written and an active hold is     *)
(* sent again; a later end makes a hold that was over an open one.         *)
Edit ==
  /\ status \in Live /\ Fault
  /\ clock' \in {clock} \cup (IF clock = "over" THEN {"open"} ELSE {})
  /\ inflight' = IF status = "active" THEN inflight + 1 ELSE inflight
  /\ UNCHANGED <<row, job, cancel, session, charging>>

(* reassignReservation: the other station accepted the hold before the     *)
(* guarded move.                                                           *)
Reassign ==
  /\ status = "active" /\ acked' = TRUE
  /\ UNCHANGED <<status, by, fee, clock, job, inflight, cancel, session, charging, faults>>

-----------------------------------------------------------------------------
(* The session of the driver: linkStartedReservation, markReservationUsed. *)

SessionStarts ==
  /\ tx = "none" /\ tx' = "read"
  /\ UNCHANGED <<row, clock, job, inflight, cancel, linked, late, missed, charging, faults>>

(* The candidates: the reservation the session is linked to, or the active *)
(* one the station names or that is open on the EVSE.                      *)
FindReservation ==
  /\ tx = "read"
  /\ tx' \in IF linked THEN {"link"}
             ELSE IF status # "active" THEN {"charging"}
             ELSE {"link"} \cup (IF clock = "open" THEN {} ELSE {"charging"})
  /\ UNCHANGED <<row, clock, job, inflight, cancel, linked, late, missed, charging, faults>>

LinkSession ==
  /\ tx = "link" /\ tx' = "move"
  /\ linked' = TRUE
  /\ late' = (late \/ LinksLate)
  /\ UNCHANGED <<row, clock, job, inflight, missed, cancel, charging, faults>>

MoveToInUse ==
  /\ tx = "move" /\ tx' = "charging"
  /\ status' = IF status = "active" THEN "in_use" ELSE status
  /\ UNCHANGED <<by, acked, fee, clock, job, inflight, cancel, linked, late, missed,
                 charging, faults>>

(* A lost connection runs the link again; any other failure, or the last   *)
(* run, goes on without it.                                                *)
LinkFails ==
  /\ tx \in {"read", "link", "move"} /\ Fault
  /\ tx' \in {"read", "charging"}
  /\ UNCHANGED <<row, clock, job, inflight, cancel, linked, late, missed, charging>>

SessionEnds ==
  /\ tx = "charging" /\ tx' = "ended"
  /\ UNCHANGED <<row, clock, job, inflight, cancel, linked, late, missed, charging, faults>>

(* sessionRow of the Ended: its reservation is marked later. *)
ReadEndedSession ==
  /\ tx = "ended"
  /\ tx' = IF linked THEN "close" ELSE "done"
  /\ missed' = (missed \/ ~linked)
  /\ UNCHANGED <<row, clock, job, inflight, cancel, linked, late, charging, faults>>

MarkUsed ==
  /\ tx = "close" /\ tx' = "done"
  /\ status' = IF status = "in_use" THEN "used" ELSE status
  /\ UNCHANGED <<by, acked, fee, clock, job, inflight, cancel, linked, late, missed,
                 charging, faults>>

(* Another driver starts on the reserved EVSE: markTakenByOther. *)
TakenByOther ==
  /\ status = "active" /\ fee = "none" /\ fee' = "waived"
  /\ UNCHANGED <<status, by, acked, clock, job, inflight, cancel, session, charging, faults>>

-----------------------------------------------------------------------------
(* Expiry: one statement for the status and the fee.                       *)

(* Mutant: the expiry does not look for a linked session. *)
OwesFeeWhenLinked == status = "active" /\ acked /\ fee = "none"

OwesFee == status = "active" /\ acked /\ fee = "none" /\ ~linked

Expire ==
  /\ status \in Live
  /\ status' = "expired"
  /\ fee' = IF OwesFee THEN "due" ELSE fee
  /\ UNCHANGED <<by, acked, clock, job, inflight, cancel, session, charging, faults>>

ExpireDue == clock = "over" /\ Expire      \* the cron of each minute
StationReportsExpired == status = "active" /\ Expire

-----------------------------------------------------------------------------
(* Charging a fee: chargeReservationFee and its callers.                   *)

Become(r, s) == run' = [run EXCEPT ![r] = s]

(* settleNoShowFee reads a fee that is due. *)
StartSettle(r) ==
  /\ run[r].step = "idle" /\ fee = "due"
  /\ Become(r, [Idle EXCEPT !.step = "record"])
  /\ UNCHANGED <<row, clock, job, inflight, cancel, session, terms, record, provider, unsure, faults>>

(* resumeStaleReservationFees finds a record that is pending for an hour:  *)
(* longer than a charge lasts.                                             *)
StartResume ==
  /\ run["recon"].step = "idle"
  /\ \E k \in Kind :
       /\ record[k] = "pending"
       /\ ~ \E r \in Runner : run[r].kind = k /\ run[r].step \in {"charge", "mark"}
       /\ Become("recon", [Idle EXCEPT !.step = "charge", !.kind = k])
  /\ UNCHANGED <<row, clock, job, inflight, cancel, session, terms, record, provider, unsure, faults>>

(* The charge is over for the run r with outcome o: only a settler of the  *)
(* no-show fee writes it to the reservation.                               *)
Outcome(r, o) ==
  Become(r, IF r \in Settlers THEN [Idle EXCEPT !.step = "state", !.outcome = o]
                              ELSE Idle)

(* recordPendingCharge: unique per reservation and kind. *)
RecordFee(r) ==
  LET k == run[r].kind
  IN /\ run[r].step = "record" /\ terms = "card"
     /\ IF record[k] = "none"
          THEN /\ record' = [record EXCEPT ![k] = "pending"]
               /\ Become(r, [run[r] EXCEPT !.step = "charge"])
          ELSE /\ UNCHANGED record
               /\ Become(r, [run[r] EXCEPT !.step = "read"])
     /\ UNCHANGED <<row, clock, job, inflight, cancel, session, terms, provider, unsure, faults>>

(* Without a card, or a provider for it, the no-show fee has failed,       *)
(* whatever an earlier run recorded; terms without a fee end in none.      *)
SkipFee(r) ==
  /\ run[r].step = "record" /\ terms # "card"
  /\ Outcome(r, IF terms = "noCard" THEN "failed" ELSE "none")
  /\ unsure' = (unsure \/ (run[r].kind = "noShow" /\ fee = "due"
                                              /\ record["noShow"] # "none"))
  /\ UNCHANGED <<row, clock, job, inflight, cancel, session, terms, record, provider, faults>>

RemoveCard ==
  /\ terms = "card" /\ terms' = "noCard" /\ Fault
  /\ UNCHANGED <<row, clock, job, inflight, cancel, session, record, provider, run, unsure>>

(* The provider decides on the first call with the key and repeats its     *)
(* answer on every other one.                                              *)
ChargeFee(r) ==
  LET k == run[r].kind
  IN /\ run[r].step = "charge"
     /\ provider' \in {[provider EXCEPT ![k] = d] :
                        d \in IF provider[k] = "unseen" THEN {"taken", "declined"}
                                                        ELSE {provider[k]}}
     /\ Become(r, [run[r] EXCEPT !.step = "mark",
                     !.outcome = IF provider'[k] = "taken" THEN "charged" ELSE "failed"])
     /\ UNCHANGED <<row, clock, job, inflight, cancel, session, terms, record, unsure, faults>>

(* The call throws although the key took the money, now or before: its     *)
(* answer is lost, or the payout account is not ready and nobody asks.     *)
ChargeThrows(r) ==
  LET k == run[r].kind
  IN /\ run[r].step = "charge" /\ Fault
     /\ provider' \in {provider} \cup
          (IF provider[k] = "unseen" THEN {[provider EXCEPT ![k] = "taken"]} ELSE {})
     /\ unsure' = (unsure \/ (k = "noShow" /\ provider'[k] = "taken"))
     /\ Become(r, [run[r] EXCEPT !.step = "mark", !.outcome = "failed"])
     /\ UNCHANGED <<row, clock, job, inflight, cancel, session, terms, record>>

(* markChargeCaptured, markChargeFailed: a record that is still pending.   *)
MarkRecord(r) ==
  LET k == run[r].kind
  IN /\ run[r].step = "mark"
     /\ record' = IF record[k] # "pending" THEN record
                  ELSE [record EXCEPT ![k] = IF run[r].outcome = "charged"
                                             THEN "captured" ELSE "failed"]
     /\ Outcome(r, run[r].outcome)
     /\ UNCHANGED <<row, clock, job, inflight, cancel, session, terms, provider, unsure, faults>>

(* Mutant: a record of an earlier charge settles only a failed fee. *)
ReadOnlyFailed(r) ==
  /\ run[r].step = "read"
  /\ IF record[run[r].kind] = "failed" THEN Outcome(r, "failed") ELSE Become(r, Idle)
  /\ UNCHANGED <<row, clock, job, inflight, cancel, session, terms, record, provider, unsure, faults>>

(* The fee was recorded before: its record tells the outcome, or none yet. *)
ReadRecord(r) ==
  LET state == record[run[r].kind]
  IN /\ run[r].step = "read"
     /\ \/ state = "captured" /\ Outcome(r, "charged")
        \/ state = "failed" /\ Outcome(r, "failed")
        \/ state \notin {"captured", "failed"} /\ Become(r, Idle)
     /\ UNCHANGED <<row, clock, job, inflight, cancel, session, terms, record, provider,
                    unsure, faults>>

(* setFeeState: only a fee that is still due. *)
SetFeeState(r) ==
  /\ run[r].step = "state"
  /\ fee' = IF fee = "due" THEN run[r].outcome ELSE fee
  /\ Become(r, Idle)
  /\ UNCHANGED <<status, by, acked, clock, job, inflight, cancel, session, terms, record, provider,
                 unsure, faults>>

(* A run dies or its statement fails: the fee stays as it is. *)
RunFails(r) ==
  /\ run[r].step # "idle" /\ Fault
  /\ Become(r, Idle)
  /\ UNCHANGED <<row, clock, job, inflight, cancel, session, terms, record, provider, unsure>>

(* settleDueNoShowFees: a fee that stayed due for 24 hours is given up.    *)
GiveUpFee ==
  /\ fee = "due" /\ \A r \in Settlers : run[r].step = "idle"
  /\ Fault
  /\ fee' = "failed" /\ unsure' = TRUE
  /\ UNCHANGED <<status, by, acked, clock, job, inflight, cancel, session, terms, record, provider, run>>

(* A record pending for 23 hours is not resumed any more. *)
GiveUpRecord ==
  /\ run["recon"].step = "idle"
  /\ \E k \in Kind :
       /\ record[k] = "pending"
       /\ ~ \E r \in Runner : run[r].kind = k /\ run[r].step \in {"charge", "mark"}
       /\ record' = [record EXCEPT ![k] = "failed"]
       /\ unsure' = (unsure \/ k = "noShow")
  /\ UNCHANGED <<row, clock, job, inflight, cancel, session, terms, provider, run, faults>>

-----------------------------------------------------------------------------
Job == \/ JobReads \/ JobActivates \/ JobExpires \/ JobUses \/ JobPublishes
       \/ JobLinksSession \/ JobCancels

Transaction == \/ FindReservation \/ LinkSession \/ MoveToInUse
               \/ ReadEndedSession \/ MarkUsed

Charge(r) == \/ RecordFee(r) \/ SkipFee(r) \/ ChargeFee(r) \/ MarkRecord(r)
             \/ ReadRecord(r) \/ SetFeeState(r)

Next == \/ Tick \/ Job \/ JobPublishFails \/ JobDies
        \/ CancelBySystem \/ CancelByPerson
        \/ \E who \in {"person", "system"} : CancelReads(who)
        \/ CancelWrites \/ Accepted \/ Rejected
        \/ Edit \/ Reassign
        \/ SessionStarts \/ Transaction \/ LinkFails \/ SessionEnds \/ TakenByOther
        \/ ExpireDue \/ StationReportsExpired
        \/ \E r \in Settlers : StartSettle(r)
        \/ StartResume
        \/ \E r \in Runner : Charge(r) \/ ChargeThrows(r) \/ RunFails(r)
        \/ RemoveCard
        \/ GiveUpFee \/ GiveUpRecord

(* Time passes, the crons and the reconciliation run again and again, the  *)
(* projections of a session go on.  Nothing is assumed of the station, of  *)
(* the activation job or of people.                                        *)
Fairness ==
  /\ WF_vars(Tick) /\ WF_vars(ExpireDue) /\ WF_vars(Transaction)
  /\ WF_vars(StartResume)
  /\ \A r \in Runner : WF_vars(Charge(r))
  /\ \A r \in Settlers : WF_vars(StartSettle(r))

Spec == Init /\ [][Next]_vars /\ Fairness

-----------------------------------------------------------------------------
(* The row, the fee states and the provider implement the promise to the   *)
(* driver.  A link written when the hold had already ended (between the    *)
(* read of the candidates and the link) is not one the expiry could see.   *)
(* A cancel may write over an end that was committed while it ran.         *)
Promise == INSTANCE HeldReservation
             WITH NoShow <- "noShow", Cancellation <- "cancellation",
                  linked <- linked /\ ~late, overwritten <- overwrote,
                  money <- {k \in Kind : provider[k] = "taken"}
ImplementsHold == Promise!Spec

(* What began comes to an end: a hold leaves the live states once its time *)
(* is over, a fee that is due is settled although runs die, and the hold   *)
(* of a session that ended is closed, unless its Ended came before the two   *)
(* writes by which the activation job gives a hold to a session.           *)
EverythingEnds ==
  /\ (status \in Live) ~> (status \notin Live)
  /\ (fee = "due") ~> (fee # "due")
  /\ (tx \in {"ended", "done"} /\ status = "in_use") ~> (status # "in_use" \/ missed)
=============================================================================
