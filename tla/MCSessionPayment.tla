-------------------------- MODULE MCSessionPayment --------------------------
(* A hold of two units; sessions that end free, below the hold and above   *)
(* it; an operator who captures one unit or cancels.                       *)
EXTENDS SessionPayment

FreeLessAndMore == {0, 1, 3}
NothingOrOne == {0, 1}
=============================================================================
