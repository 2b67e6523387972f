--------------------------- MODULE MCReservation ---------------------------
(* Instances of Reservation for TLC: the cron and the station's report of  *)
(* an expired hold both settle the fee.                                    *)
EXTENDS Reservation

TwoSettlers == {"cron", "station"}
=============================================================================
