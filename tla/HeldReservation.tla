--------------------------- MODULE HeldReservation ---------------------------
(***************************************************************************)
(* What a reservation promises its driver, whoever acts on it at once: the *)
(* activation job, the station's answers, operators, the expiry cron, the  *)
(* charging sessions and the jobs that charge fees.                        *)
(*                                                                         *)
(* A reservation ends once, and only a person's cancellation or an unused  *)
(* hold that ran out can cost money.  A hold the driver used, or that      *)
(* another driver took, is never charged, and a fee marked as charged or   *)
(* as failed tells what happened to the money.                             *)
(***************************************************************************)
CONSTANTS NoShow, Cancellation     \* the two kinds of fee

VARIABLES status,     \* scheduled, active, in_use, used, cancelled, expired
          by,         \* who cancelled: none, person, system
          linked,     \* a session of the driver was linked to the hold in time
          overwritten,  \* a cancel wrote over another end
          fee,        \* the no-show fee: none, waived, due, charged, failed
          money,      \* the fees the provider took from the driver
          unsure      \* the outcome of a charge was written off unknown

vars == <<status, by, linked, overwritten, fee, money, unsure>>

Live == status \in {"scheduled", "active"}

Init == /\ status \in {"scheduled", "active"} /\ by = "none" /\ linked = FALSE
        /\ overwritten = FALSE
        /\ fee = "none" /\ money = {} /\ unsure = FALSE

Activate ==
  /\ status = "scheduled" /\ status' = "active"
  /\ UNCHANGED <<overwritten, by, linked, fee, money, unsure>>

(* The station was not told of the hold: it waits for another activation. *)
Revert ==
  /\ status = "active" /\ status' = "scheduled"
  /\ UNCHANGED <<overwritten, by, linked, fee, money, unsure>>

Link ==
  /\ Live \/ status = "in_use"
  /\ linked' = TRUE
  /\ UNCHANGED <<overwritten, status, by, fee, money, unsure>>

Use ==
  /\ Live /\ status' = "in_use"
  /\ UNCHANGED <<overwritten, by, linked, fee, money, unsure>>

Finish ==
  /\ status = "in_use" /\ linked /\ status' = "used"
  /\ UNCHANGED <<overwritten, by, linked, fee, money, unsure>>

Cancel(who) ==
  /\ Live /\ status' = "cancelled" /\ by' = who
  /\ UNCHANGED <<overwritten, linked, fee, money, unsure>>

(* A cancel that began while the reservation was live is written when it   *)
(* has ended in another way: the one exception to "ends once".             *)
Overwrite(who) ==
  /\ ~Live /\ status' = "cancelled" /\ by' = who /\ overwritten' = TRUE
  /\ UNCHANGED <<linked, fee, money, unsure>>

(* Another driver took the EVSE: the hold stays, its fee is waived. *)
Waive ==
  /\ status = "active" /\ fee = "none" /\ fee' = "waived"
  /\ UNCHANGED <<overwritten, status, by, linked, money, unsure>>

(* The hold ran out.  Only an active one that nobody used owes a fee. *)
Expire ==
  /\ Live /\ status' = "expired"
  /\ \/ UNCHANGED fee
     \/ status = "active" /\ fee = "none" /\ ~linked /\ fee' = "due"
  /\ UNCHANGED <<overwritten, by, linked, money, unsure>>

(* The provider takes a fee: the no-show fee while it is due (or written   *)
(* off), the cancellation fee of a person's cancellation.  Its answer may  *)
(* be lost.                                                                *)
Take(kind) ==
  /\ \/ kind = NoShow /\ (fee = "due" \/ (fee = "failed" /\ unsure))
     \/ kind = Cancellation /\ (by = "person" \/ overwritten)
  /\ money' = money \cup {kind}
  /\ unsure' \in {unsure, TRUE}
  /\ UNCHANGED <<overwritten, status, by, linked, fee>>

(* The fee is settled: charged only when the money was taken, failed only  *)
(* when it was not or nobody knows, none when the terms have no fee.       *)
Settle ==
  /\ fee = "due"
  /\ \/ fee' = "charged" /\ NoShow \in money
     \/ fee' = "failed" /\ (NoShow \notin money \/ unsure)
     \/ fee' = "none" /\ NoShow \notin money
  /\ UNCHANGED <<overwritten, status, by, linked, money, unsure>>

(* Nobody waits for the outcome of a charge any longer. *)
WriteOff ==
  /\ fee = "due" /\ fee' \in {"due", "failed"}
  /\ unsure' = TRUE
  /\ UNCHANGED <<overwritten, status, by, linked, money>>

Next == \/ Activate \/ Revert \/ Link \/ Use \/ Finish \/ Waive \/ Expire
        \/ \E who \in {"person", "system"} : Cancel(who) \/ Overwrite(who)
        \/ \E kind \in {NoShow, Cancellation} : Take(kind)
        \/ Settle \/ WriteOff

Spec == Init /\ [][Next]_vars
=============================================================================
