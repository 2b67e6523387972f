--------------------------- MODULE MCCommandRouting -------------------------
(* Two instances, so that a command can be handled by the one that does not  *)
(* hold the station; two connections, so that a queue is drained; a command  *)
(* that may be queued, and one that may not.                                 *)
EXTENDS CommandRouting

CONSTANTS a, b, reset

TwoInstances == {a, b}
=============================================================================
