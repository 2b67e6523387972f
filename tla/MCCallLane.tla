----------------------------- MODULE MCCallLane -----------------------------
(* A small instance of CallLane.  Four CALLs: one out, one directly behind   *)
(* it and two deeper in the queue, so that a hand-over followed by a queue   *)
(* timeout, and a close with a non-empty queue, all happen.                  *)
EXTENDS CallLane

CONSTANTS c1, c2, c3, c4

FourCalls == {c1, c2, c3, c4}
=============================================================================
