-------------------------- MODULE MCProjectionQueue -------------------------
(* A lane with three pieces of work, two of them bounded with room for one,  *)
(* and a lane with one: predecessors, drops, and a caller that waits for     *)
(* either lane or for both.                                                  *)
EXTENDS ProjectionQueue

CONSTANTS w1, w2, w3, w4, station, transaction

FourWorks    == {w1, w2, w3, w4}
TwoLanes     == {station, transaction}
LaneOfEach   == [w \in Work |-> IF w = w4 THEN transaction ELSE station]
BoundedWorks == {w2, w3}
=============================================================================
