-------------------------- MODULE MCStationPresence -------------------------
(* Two instances, so that a station moves between them, or one that it comes *)
(* back to; two connections, so that an old close meets a new connection, and *)
(* a third one, to the same instance as the first, after a replaced socket    *)
(* outlived its successor.  Where the station connects first does not matter, *)
(* so it is fixed.                                                            *)
EXTENDS StationPresence

CONSTANTS a, b

TwoInstances == {a, b}
=============================================================================
