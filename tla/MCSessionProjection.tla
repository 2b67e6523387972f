------------------------- MODULE MCSessionProjection -------------------------
(* Instances of SessionProjection for TLC. *)
EXTENDS SessionProjection

=============================================================================
