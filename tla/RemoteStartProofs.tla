--------------------------- MODULE RemoteStartProofs ---------------------------
(***************************************************************************)
(* Proofs about RemoteStart, for any number of faults and of runs of the   *)
(* delayed close: types, and that a transaction the payment gate allowed   *)
(* is paid for while the station charges.                                  *)
(*                                                                         *)
(* AllowedIsPaid alone is not inductive: it says nothing of the steps that *)
(* lead to the gate's verdict.  IInv follows the session, the record and   *)
(* the hold from the moment the transaction is linked to the session.      *)
(***************************************************************************)
EXTENDS RemoteStart, TLAPS

-----------------------------------------------------------------------------
(* The invariant.                                                          *)

(* The delayed close is scheduled once, when the portal has its answer,    *)
(* and queued again only while it has attempts left.                       *)
TriesInv ==
  /\ portal # "done" => tries = 0 /\ closer["job"] = "idle"
  /\ closer["job"] = "due" => tries < MaxTries

(* The station hears of a start only from a portal that sent it, so the    *)
(* refusal of the portal cannot meet a transaction.                        *)
OrderInv ==
  /\ portal = "idle" =>
       session = "none" /\ record = "none" /\ \A t \in Trigger : place[t] = "idle"
  /\ station # "idle" => portal \in {"wait", "done"}
  /\ gate # "idle" => station # "idle"

(* A closer looks for a hold only after the session was closed. *)
CloserInv ==
  \A c \in Closer : closer[c] \in {"find", "cancel", "mark"} => session \in Over

(* What AllowedIsPaid excepts: a session given up, and a hold that is gone. *)
GivenUp == closer["stale"] # "idle" \/ "begun" \in astray
Gone    == GivenUp \/ astray \cap {"reversed", "replayed", "released"} # {}

(* From its link to its end a transaction keeps its session active, unless *)
(* the gate stops it.                                                      *)
LinkedInv ==
  gate \in {"row", "place"} \/ (gate = "allowed" /\ station # "done") =>
    linked /\ (session = "active" \/ GivenUp)

(* The record of an active session: open or captured once a trigger was    *)
(* told it may go on, and the provider then has what it says.              *)
RecordInv ==
  /\ \A t \in Trigger :
       place[t] = "authorized" /\ session = "active" => record \in {"open", "settled"} \/ Gone
  /\ record = "open" /\ session = "active" => hold \in {"held", "settled"} \/ Gone
  /\ record = "settled" => hold = "settled"

(* An operator's capture or cancel is about a record that exists, and      *)
(* writes to it only what the provider has done.                           *)
OperatorInv ==
  /\ closer["operator"] \in {"cancel", "mark", "capture", "settle"} => record # "none"
  /\ closer["operator"] # "idle" => session # "none"
  /\ closer["operator"] = "mark" /\ record = "open" /\ session = "active" => Gone
  /\ closer["operator"] = "settle" => hold = "settled"

(* The gate allowed what its own placement of the hold was told. *)
VerdictInv == gate = "allowed" => place["gate"] = "authorized"

Rest == /\ OrderInv /\ CloserInv /\ LinkedInv /\ RecordInv /\ OperatorInv /\ VerdictInv
IInv == TypeOK /\ TriesInv /\ Rest
-----------------------------------------------------------------------------
(* The steps, by who takes them.                                           *)

PlaceStep(t) ==
  \/ Read(t) \/ NoHold(t) \/ Ask(t) \/ AnswerLost(t) \/ Record(t) \/ RecordThrows(t)
  \/ Reverse(t) \/ ReverseThrows(t) \/ RecordFailed(t)

CloseStep(c) ==
  \/ Close(c) \/ FindHold(c) \/ CancelHold(c) \/ MarkCancelled(c) \/ CancelRefused(c)
  \/ CloserThrows(c) \/ ProviderGone(c)

OperatorStep == OperatorCaptures \/ CaptureHold \/ MarkCaptured

OtherStep ==
  \/ PortalStarts \/ PortalRefuses \/ PortalSends \/ PortalAccepted \/ PortalGivesUp
  \/ OperatorPreAuthorizes \/ StaleCloses
  \/ StationAnswers \/ StationStarts \/ StationEnds
  \/ Link \/ InsertRow \/ GateAllows \/ GateStops \/ Updated \/ Ended
  \/ PortalDies \/ OperatorDies \/ GateDies

LEMMA Steps ==
  ASSUME Next
  PROVE  \/ \E t \in Trigger : PlaceStep(t)
         \/ \E c \in Taker : CloseStep(c)
         \/ OperatorStep
         \/ OtherStep
BY DEF Next, Place, Closes, PlaceStep, CloseStep, OperatorStep, OtherStep
-----------------------------------------------------------------------------
(* Types.                                                                  *)

LEMMA InsertTypes ==
  ASSUME astray \subseteq Astray, Inserts
  PROVE  record' = "open" /\ astray' \subseteq Astray /\ astray \subseteq astray'
BY DEF Inserts, Astray

LEMMA PlaceTypes ==
  ASSUME TypeOK, TriesInv, NEW t \in Trigger, PlaceStep(t)
  PROVE  TypeOK' /\ TriesInv'
<1> USE BoundsAssumption DEF TypeOK, TriesInv, Trigger, Taker, Closer, Verdict, Over, Astray, NotPlacing, start
<1>1. CASE Read(t)
  BY <1>1 DEF Read, At, OnHold
<1>2. CASE NoHold(t)
  BY <1>2 DEF NoHold, At, Fault
<1>3. CASE Ask(t)
  BY <1>3 DEF Ask, At, Fault
<1>4. CASE AnswerLost(t)
  BY <1>4 DEF AnswerLost, At, Fault
<1>5. CASE Record(t)
  <2>1. place' \in [Trigger -> {"idle", "read", "ask", "record", "fail", "reverse"} \cup Verdict]
    BY <1>5 DEF Record, At, OnHold
  <2>2. record' \in {"none", "open", "failed", "cancelled", "settled"} /\ astray' \subseteq Astray
    BY <1>5, InsertTypes DEF Record, Note
  <2> QED
    BY <1>5, <2>1, <2>2 DEF Record
<1>6. CASE RecordThrows(t)
  <2>1. record' \in {"none", "open", "failed", "cancelled", "settled"} /\ astray' \subseteq Astray
    BY <1>6, InsertTypes DEF RecordThrows
  <2> QED
    BY <1>6, <2>1 DEF RecordThrows, At, Fault
<1>7. CASE Reverse(t)
  BY <1>7 DEF Reverse, At, Note
<1>8. CASE ReverseThrows(t)
  BY <1>8 DEF ReverseThrows, At, Note, Fault
<1>9. CASE RecordFailed(t)
  BY <1>9 DEF RecordFailed, At, Note, Fault, Unrecorded
<1> QED
  BY <1>1, <1>2, <1>3, <1>4, <1>5, <1>6, <1>7, <1>8, <1>9 DEF PlaceStep

LEMMA CloseTypes ==
  ASSUME TypeOK, TriesInv, NEW c \in Taker, CloseStep(c)
  PROVE  TypeOK' /\ TriesInv'
<1> USE BoundsAssumption DEF TypeOK, TriesInv, Closer, Taker, Stage, Over, Astray, payment, start
<1>1. CASE Close(c)
  <2>1. closer' \in [Taker -> Stage]
    BY <1>1 DEF Close, Go
  <2>2. astray' \subseteq Astray /\ session' \in {"none", "active"} \cup Over
    BY <1>1 DEF Close, Note
  <2>3. tries' \in 0 .. MaxTries
    BY <1>1 DEF Close
  <2>4. TriesInv'
    BY <1>1, <2>3 DEF Close, Go
  <2> QED
    BY <1>1, <2>1, <2>2, <2>3, <2>4 DEF Close
<1>2. CASE FindHold(c)
  BY <1>2 DEF FindHold, Go
<1>3. CASE CancelHold(c)
  BY <1>3 DEF CancelHold, Go, Released
<1>4. CASE MarkCancelled(c)
  BY <1>4 DEF MarkCancelled, Go
<1>5. CASE CancelRefused(c)
  BY <1>5 DEF CancelRefused, Threw, Go, Released, MayRetry
<1>6. CASE CloserThrows(c)
  BY <1>6 DEF CloserThrows, Threw, Go, Released, Reached, MayRetry, Fault
<1>7. CASE ProviderGone(c)
  BY <1>7 DEF ProviderGone, Go, Note, Fault
<1> QED
  BY <1>1, <1>2, <1>3, <1>4, <1>5, <1>6, <1>7 DEF CloseStep

LEMMA OperatorTypes ==
  ASSUME TypeOK, TriesInv, OperatorStep
  PROVE  TypeOK' /\ TriesInv'
BY DEF OperatorStep, OperatorCaptures, CaptureHold, MarkCaptured, Go, TypeOK, TriesInv, Taker,
       Closer, Stage, Over, payment, start

LEMMA OtherTypes ==
  ASSUME TypeOK, TriesInv, OtherStep
  PROVE  TypeOK' /\ TriesInv'
<1> USE BoundsAssumption DEF TypeOK, TriesInv, Trigger, Closer, Taker, Stage, Verdict, Over, Astray,
        NotPlacing, payment, start
<1>1. CASE PortalStarts
  BY <1>1 DEF PortalStarts, At
<1>2. CASE PortalRefuses
  BY <1>2 DEF PortalRefuses, Note
<1>3. CASE PortalSends
  BY <1>3 DEF PortalSends
<1>4. CASE PortalAccepted
  BY <1>4 DEF PortalAccepted, Fault
<1>5. CASE PortalGivesUp
  BY <1>5 DEF PortalGivesUp
<1>6. CASE OperatorPreAuthorizes
  BY <1>6 DEF OperatorPreAuthorizes, At
<1>7. CASE StaleCloses
  BY <1>7 DEF StaleCloses, Go
<1>8. CASE StationAnswers
  BY <1>8 DEF StationAnswers
<1>9. CASE StationStarts
  BY <1>9 DEF StationStarts
<1>10. CASE StationEnds
  BY <1>10 DEF StationEnds
<1>11. CASE Link
  <2>1. linked' \in BOOLEAN /\ gate' \in {"row", "over"}
    BY <1>11 DEF Link
  <2> QED
    BY <1>11, <2>1 DEF Link
<1>12. CASE InsertRow
  <2>1. row' \in BOOLEAN
    BY <1>12 DEF InsertRow
  <2>2. faults' \in 0 .. MaxFaults
    BY <1>12 DEF InsertRow, Fault
  <2> QED
    BY <1>12, <2>1, <2>2 DEF InsertRow, At
<1>13. CASE GateAllows
  BY <1>13 DEF GateAllows
<1>14. CASE GateStops
  BY <1>14 DEF GateStops, Fault
<1>15. CASE Updated
  BY <1>15 DEF Updated
<1>16. CASE Ended
  BY <1>16 DEF Ended
<1>17. CASE PortalDies
  BY <1>17 DEF PortalDies, Unplace, At, Go, Fault
<1>18. CASE OperatorDies
  BY <1>18 DEF OperatorDies, Unplace, At, Fault
<1>19. CASE GateDies
  BY <1>19 DEF GateDies, Unplace, At, Fault
<1> QED
  BY <1>1, <1>2, <1>3, <1>4, <1>5, <1>6, <1>7, <1>8, <1>9, <1>10, <1>11, <1>12,
     <1>13, <1>14, <1>15, <1>16, <1>17, <1>18, <1>19 DEF OtherStep

LEMMA InitTypes == Init => TypeOK /\ TriesInv
<1> SUFFICES ASSUME Init
             PROVE  TypeOK /\ TriesInv
  OBVIOUS
<1>1. tries \in 0 .. MaxTries /\ faults \in 0 .. MaxFaults /\ TriesInv
  BY BoundsAssumption DEF Init, TriesInv, Closer, Taker
<1> QED
  BY <1>1 DEF Init, TypeOK, Stage

LEMMA NextTypes ==
  ASSUME TypeOK, TriesInv, [Next]_vars
  PROVE  TypeOK' /\ TriesInv'
<1>1. CASE Next
  BY <1>1, Steps, PlaceTypes, CloseTypes, OperatorTypes, OtherTypes
<1>2. CASE UNCHANGED vars
  BY <1>2 DEF vars, TypeOK, TriesInv
<1> QED
  BY <1>1, <1>2

(* The types of RemoteStart; above all, the delayed close never runs more  *)
(* often than its queue has attempts.                                      *)
THEOREM TypeCorrect == Spec => []TypeOK
<1>1. (TypeOK /\ TriesInv) /\ [Next]_vars => (TypeOK /\ TriesInv)'
  BY NextTypes
<1> QED
  BY InitTypes, <1>1, PTL DEF Spec
-----------------------------------------------------------------------------
(* The way to the gate's verdict.                                          *)

(* Placing a hold: only the compensation of another trigger cancels a hold *)
(* that an open record stands for, and only a replayed key records one     *)
(* that is gone.                                                           *)
LEMMA PlaceRest ==
  ASSUME TypeOK, Rest, NEW t \in Trigger, PlaceStep(t)
  PROVE  Rest'
<1> USE DEF TypeOK, Rest, OrderInv, CloserInv, LinkedInv, RecordInv, OperatorInv, VerdictInv,
        GivenUp, Gone, Trigger, Closer, Taker, Stage, Verdict, Over, NotPlacing, start
<1>1. CASE Read(t)
  BY <1>1 DEF Read, At, OnHold
<1>2. CASE NoHold(t)
  BY <1>2 DEF NoHold, At, Fault
<1>3. CASE Ask(t)
  BY <1>3 DEF Ask, At, Fault
<1>4. CASE AnswerLost(t)
  BY <1>4 DEF AnswerLost, At, Fault
<1>5. CASE Record(t)
  BY <1>5 DEF Record, At, OnHold, Inserts, Note, Unrecorded
<1>6. CASE RecordThrows(t)
  BY <1>6 DEF RecordThrows, At, Inserts, Fault
<1>7. CASE Reverse(t)
  BY <1>7 DEF Reverse, At, Note
<1>8. CASE ReverseThrows(t)
  BY <1>8 DEF ReverseThrows, At, Note, Fault
<1>9. CASE RecordFailed(t)
  BY <1>9 DEF RecordFailed, At, Note, Fault, Unrecorded
<1> QED
  BY <1>1, <1>2, <1>3, <1>4, <1>5, <1>6, <1>7, <1>8, <1>9 DEF PlaceStep

(* Closing a start: a session with a linked transaction is closed only      *)
(* before its event row, and a hold is cancelled only for a closed one, or *)
(* by an operator.                                                         *)
LEMMA CloseRest ==
  ASSUME TypeOK, Rest, NEW c \in Taker, CloseStep(c)
  PROVE  Rest'
<1> USE DEF TypeOK, Rest, OrderInv, CloserInv, LinkedInv, RecordInv, OperatorInv, VerdictInv,
        GivenUp, Gone, Trigger, Closer, Taker, Stage, Verdict, Over, payment, start
<1>1. CASE Close(c)
  BY <1>1 DEF Close, Go, Note
<1>2. CASE FindHold(c)
  BY <1>2 DEF FindHold, Go
<1>3. CASE CancelHold(c)
  BY <1>3 DEF CancelHold, Go, Released
<1>4. CASE MarkCancelled(c)
  BY <1>4 DEF MarkCancelled, Go
<1>5. CASE CancelRefused(c)
  BY <1>5 DEF CancelRefused, Threw, Go, Released, MayRetry
<1>6. CASE CloserThrows(c)
  BY <1>6 DEF CloserThrows, Threw, Go, Released, Reached, MayRetry, Fault
<1>7. CASE ProviderGone(c)
  BY <1>7 DEF ProviderGone, Go, Note, Fault
<1> QED
  BY <1>1, <1>2, <1>3, <1>4, <1>5, <1>6, <1>7 DEF CloseStep

(* An operator's capture takes the money the record stands for. *)
LEMMA OperatorRest ==
  ASSUME TypeOK, Rest, OperatorStep
  PROVE  Rest'
<1> USE DEF TypeOK, Rest, OrderInv, CloserInv, LinkedInv, RecordInv, OperatorInv, VerdictInv,
        GivenUp, Gone, Trigger, Closer, Taker, Stage, Over, payment, start
<1>1. CASE OperatorCaptures
  BY <1>1 DEF OperatorCaptures, Go
<1>2. CASE CaptureHold
  BY <1>2 DEF CaptureHold, Go
<1>3. CASE MarkCaptured
  BY <1>3 DEF MarkCaptured, Go
<1> QED
  BY <1>1, <1>2, <1>3 DEF OperatorStep

(* The portal, the station, the projections and the crashes. *)
LEMMA OtherRest ==
  ASSUME TypeOK, Rest, OtherStep
  PROVE  Rest'
<1> USE DEF TypeOK, Rest, OrderInv, CloserInv, LinkedInv, RecordInv, OperatorInv, VerdictInv,
        GivenUp, Gone, Trigger, Closer, Taker, Stage, Verdict, Over,
        NotPlacing, payment, start
<1>1. CASE PortalStarts
  BY <1>1 DEF PortalStarts, At
<1>2. CASE PortalRefuses
  BY <1>2 DEF PortalRefuses, Note
<1>3. CASE PortalSends
  BY <1>3 DEF PortalSends
<1>4. CASE PortalAccepted
  BY <1>4 DEF PortalAccepted, Fault
<1>5. CASE PortalGivesUp
  BY <1>5 DEF PortalGivesUp
<1>6. CASE OperatorPreAuthorizes
  BY <1>6 DEF OperatorPreAuthorizes, At
<1>7. CASE StaleCloses
  BY <1>7 DEF StaleCloses, Go
<1>8. CASE StationAnswers
  BY <1>8 DEF StationAnswers
<1>9. CASE StationStarts
  BY <1>9 DEF StationStarts
<1>10. CASE StationEnds
  BY <1>10 DEF StationEnds
<1>11. CASE Link
  BY <1>11 DEF Link
<1>12. CASE InsertRow
  BY <1>12 DEF InsertRow, At, Fault
<1>13. CASE GateAllows
  BY <1>13 DEF GateAllows
<1>14. CASE GateStops
  BY <1>14 DEF GateStops, Fault
<1>15. CASE Updated
  BY <1>15 DEF Updated
<1>16. CASE Ended
  BY <1>16 DEF Ended, Settled
<1>17. CASE PortalDies
  BY <1>17 DEF PortalDies, Unplace, At, Go, Fault
<1>18. CASE OperatorDies
  BY <1>18 DEF OperatorDies, Unplace, At, Fault
<1>19. CASE GateDies
  BY <1>19 DEF GateDies, Unplace, At, Fault
<1> QED
  BY <1>1, <1>2, <1>3, <1>4, <1>5, <1>6, <1>7, <1>8, <1>9, <1>10, <1>11, <1>12,
     <1>13, <1>14, <1>15, <1>16, <1>17, <1>18, <1>19 DEF OtherStep

LEMMA Inductive ==
  ASSUME IInv, [Next]_vars
  PROVE  IInv'
<1>1. CASE Next
  BY <1>1, Steps, NextTypes, PlaceRest, CloseRest, OperatorRest, OtherRest DEF IInv
<1>2. CASE UNCHANGED vars
  BY <1>2, NextTypes DEF vars, IInv, Rest, OrderInv, CloserInv, LinkedInv, RecordInv,
     OperatorInv, VerdictInv, GivenUp, Gone
<1> QED
  BY <1>1, <1>2

(* While the station charges on the word of the gate, the session of the   *)
(* start is active and the card is held for it or charged, although        *)
(* triggers, closers and an operator's capture interleave in every way and *)
(* fail at every call.  The session is given up only by the stale cleanup  *)
(* or by a close between link and event row; the hold is gone only after   *)
(* these, a compensation, a replayed key, or an operator's cancel.         *)
THEOREM AllowedPaid == Spec => []AllowedIsPaid
<1>1. Init => IInv
  BY InitTypes DEF Init, IInv, Rest, OrderInv, CloserInv, LinkedInv, RecordInv, OperatorInv,
     VerdictInv, Trigger, Closer, Taker
<1>2. IInv /\ [Next]_vars => IInv'
  BY Inductive
<1>3. IInv => AllowedIsPaid
  BY DEF IInv, Rest, LinkedInv, RecordInv, VerdictInv, GivenUp, Gone, AllowedIsPaid, Trigger
<1> QED
  BY <1>1, <1>2, <1>3, PTL DEF Spec
================================================================================
