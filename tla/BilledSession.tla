---------------------------- MODULE BilledSession ----------------------------
(***************************************************************************)
(* What the projections of a charging transaction promise about its money, *)
(* whatever the order in which the events of the transaction arrive and    *)
(* however often they are resent or projected again.                       *)
(*                                                                         *)
(* A session is opened once and leaves `active` once.  Exactly one of the  *)
(* ends that reach it decides its bill, the bill never changes afterwards  *)
(* (unless what marks the session as ended is lost), and the only amount   *)
(* its hold can be captured for is that bill.                              *)
(***************************************************************************)
CONSTANTS Ends,       \* the ends that can reach one session
          NoBill,     \* no final cost yet
          ZeroBill    \* the session is not billed (faulted)

VARIABLES status,     \* none, active, completed or faulted
          bill,       \* the end whose cost is the final cost
          hold,       \* none, open, released, or the bill it was captured for
          unmarked    \* nothing tells the next end that the session has ended

vars == <<status, bill, hold, unmarked>>

Init == status = "none" /\ bill = NoBill /\ hold = "none" /\ unmarked = FALSE

(* The transaction started. *)
Open ==
  /\ status = "none" /\ status' = "active"
  /\ UNCHANGED <<bill, hold, unmarked>>

(* The payment gate put a hold on the driver's card. *)
Authorize ==
  /\ status # "none" /\ hold = "none" /\ hold' = "open"
  /\ UNCHANGED <<status, bill, unmarked>>

Complete ==
  /\ status = "active" /\ status' = "completed"
  /\ UNCHANGED <<bill, hold, unmarked>>

(* The session is stopped unbilled, at the latest before its bill is       *)
(* decided; an open hold is released with it or left to the settlement.    *)
Fault ==
  /\ status = "active" \/ (status = "completed" /\ bill = NoBill)
  /\ status' = "faulted" /\ bill' = ZeroBill
  /\ \/ UNCHANGED hold
     \/ hold = "open" /\ hold' = "released"
  /\ UNCHANGED unmarked

(* The bill is decided once, for a completed session only. *)
Bill(e) ==
  /\ status = "completed" /\ bill = NoBill /\ bill' = e
  /\ UNCHANGED <<status, hold, unmarked>>

(* The hold is captured for the bill. *)
Charge ==
  /\ hold = "open" /\ bill \in Ends /\ hold' = bill
  /\ UNCHANGED <<status, bill, unmarked>>

(* A hold with nothing to bill is released. *)
Release ==
  /\ hold = "open" /\ bill \notin Ends /\ hold' = "released"
  /\ UNCHANGED <<status, bill, unmarked>>

(* The mark of the end was lost: the one exception to "never changes".  A  *)
(* later end may bill the session again, or leave it unbilled.             *)
LoseMark == unmarked' = TRUE /\ UNCHANGED <<status, bill, hold>>
BillAgain ==
  /\ unmarked /\ status = "completed"
  /\ \/ bill' \in Ends /\ UNCHANGED status
     \/ bill' = ZeroBill /\ status' = "faulted"
  /\ UNCHANGED <<hold, unmarked>>

Next == \/ Open \/ Authorize \/ Complete \/ Fault \/ Charge \/ Release
        \/ (\E e \in Ends : Bill(e)) \/ LoseMark \/ BillAgain

Spec == Init /\ [][Next]_vars
=============================================================================
