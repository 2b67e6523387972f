----------------------- MODULE MCConnectionAuthLimiter ----------------------
(* Six authentications for two slots and a queue of two: some run, some      *)
(* wait, some are refused at a full queue and some time out.                 *)
EXTENDS ConnectionAuthLimiter

CONSTANTS r1, r2, r3, r4, r5, r6

SixRequests == {r1, r2, r3, r4, r5, r6}
=============================================================================
