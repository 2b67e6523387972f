---------------------------- MODULE MCRemoteStart ----------------------------
(* One portal start with the hold triggers and the closers of its session.   *)
(* The delayed close has the three attempts of its queue; three faults let    *)
(* an interrupted insert, a failed compensation and a crash meet.            *)
EXTENDS RemoteStart
==============================================================================
