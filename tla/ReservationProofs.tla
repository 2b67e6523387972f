--------------------------- MODULE ReservationProofs ---------------------------
(***************************************************************************)
(* Proofs about Reservation, for any set of settlers and any number of     *)
(* faults: types, and that the row, the fee states and the provider        *)
(* implement what HeldReservation promises.                                *)
(*                                                                         *)
(* The refinement is not inductive.  IInv says who can still charge a fee  *)
(* and what the record of a fee tells about the provider; without it a     *)
(* settler that read the fee long ago could charge it after it was settled.*)
(***************************************************************************)
EXTENDS Reservation, TLAPS

-----------------------------------------------------------------------------
(* The invariant.                                                          *)

(* Each ReserveNow beyond the first one costs a fault or the job's turn. *)
InflightInv == inflight <= faults + (IF job = "done" THEN 1 ELSE 0)

(* What the history variables say of the row. *)
HistoryInv ==
  /\ late => status \notin Live \cup {"in_use"}
  /\ overwrote => status = "cancelled"
  /\ tx = "close" => linked

(* Who charges what: settlers the no-show fee, the run of a cancel the     *)
(* cancellation fee, and only the reconciliation both.                     *)
KindInv ==
  /\ \A r \in Settlers : run[r].kind = "noShow"
  /\ run["canceller"].step # "idle" => run["canceller"].kind = "cancellation"
  /\ run["recon"].step \in {"idle", "charge", "mark"}
  /\ \A r \in Runner : run[r].step = "state" => r \in Settlers

Charging(r) == run[r].step \in {"charge", "mark"}

(* One run at a time charges a fee, and its record is pending meanwhile. *)
ChargerInv ==
  /\ \A r \in Runner : Charging(r) => record[run[r].kind] = "pending"
  /\ \A r, q \in Runner :
       Charging(r) /\ Charging(q) /\ run[r].kind = run[q].kind => r = q

(* What a run is about to write to the record is true, or written off. *)
MarkInv ==
  \A r \in Runner : run[r].step = "mark" =>
    \/ run[r].outcome = "charged" /\ provider[run[r].kind] = "taken"
    \/ /\ run[r].outcome = "failed"
       /\ run[r].kind = "noShow" => provider["noShow"] # "taken" \/ unsure

(* What the record of the no-show fee says of the provider. *)
RecordInv ==
  /\ record["noShow"] = "none"     => provider["noShow"] = "unseen"
  /\ record["noShow"] = "captured" => provider["noShow"] = "taken"
  /\ record["noShow"] = "failed"   => provider["noShow"] # "taken" \/ unsure
  /\ terms = "noFee" => record["noShow"] = "none"

(* A settler's verdict, as long as the fee waits for one. *)
Verdict(r) ==
  \/ run[r].outcome = "charged" /\ record["noShow"] = "captured"
  \/ run[r].outcome = "failed" /\ record["noShow"] = "failed"
  \/ run[r].outcome = "failed" /\ record["noShow"] # "none" /\ unsure
  \/ run[r].outcome = "failed" /\ record["noShow"] = "none" /\ terms = "noCard"
  \/ run[r].outcome = "none" /\ terms = "noFee"

(* No one charges a no-show fee before it is due or after it was settled.  *)
FeeInv ==
  /\ fee = "none" /\ status \in Live =>
       record["noShow"] = "none" /\ \A r \in Settlers : run[r].step = "idle"
  /\ record["noShow"] = "pending" => fee = "due" \/ (fee = "failed" /\ unsure)
  /\ \A r \in Settlers :
       run[r].step = "record" /\ record["noShow"] = "none" /\ terms = "card" => fee = "due"
  /\ \A r \in Settlers : run[r].step = "state" /\ fee = "due" => Verdict(r)

(* Only a person's cancel, or a cancel that wrote over another end, is     *)
(* followed by the charge of a cancellation fee.                           *)
CancelInv ==
  run["canceller"].step # "idle" \/ record["cancellation"] # "none"
    => by = "person" \/ overwrote

IInv == /\ TypeOK /\ InflightInv /\ HistoryInv /\ KindInv /\ ChargerInv
        /\ MarkInv /\ RecordInv /\ FeeInv /\ CancelInv
-----------------------------------------------------------------------------
(* Steps that charge nothing.                                              *)

RowStep ==
  \/ Tick \/ JobReads \/ JobActivates \/ JobExpires \/ JobUses \/ JobPublishes
  \/ JobPublishFails \/ JobLinksSession \/ JobDies \/ JobCancels
  \/ CancelBySystem \/ (\E who \in {"person", "system"} : CancelReads(who))
  \/ Accepted \/ Rejected \/ Edit \/ Reassign
  \/ SessionStarts \/ FindReservation \/ LinkSession \/ MoveToInUse \/ LinkFails
  \/ SessionEnds \/ ReadEndedSession \/ MarkUsed \/ TakenByOther
  \/ ExpireDue \/ StationReportsExpired

(* They keep the types. *)
LEMMA RowTypes ==
  ASSUME TypeOK, InflightInv, RowStep
  PROVE  TypeOK' /\ InflightInv'
<1> USE FaultsAssumption DEF TypeOK, InflightInv, Live, row, cancel, session, charging
<1>1. CASE Tick
  BY <1>1 DEF Tick
<1>2. CASE JobReads
  BY <1>2 DEF JobReads, SessionOpen
<1>3. CASE JobActivates
  BY <1>3 DEF JobActivates, JobFlips
<1>4. CASE JobExpires
  BY <1>4 DEF JobExpires, JobFlips
<1>5. CASE JobUses
  BY <1>5 DEF JobUses, JobFlips, SessionOpen
<1>6. CASE JobPublishes
  BY <1>6 DEF JobPublishes
<1>7. CASE JobPublishFails
  BY <1>7 DEF JobPublishFails, Fault
<1>8. CASE JobLinksSession
  BY <1>8 DEF JobLinksSession, LinksLate
<1>9. CASE JobDies
  BY <1>9 DEF JobDies, Fault
<1>10. CASE JobCancels
  BY <1>10 DEF JobCancels, Cancel
<1>11. CASE CancelBySystem
  BY <1>11 DEF CancelBySystem, Cancel
<1>12. CASE \E who \in {"person", "system"} : CancelReads(who)
  BY <1>12 DEF CancelReads, Fault
<1>13. CASE Accepted
  BY <1>13 DEF Accepted
<1>14. CASE Rejected
  BY <1>14 DEF Rejected, Cancel
<1>15. CASE Edit
  BY <1>15 DEF Edit, Fault
<1>16. CASE Reassign
  BY <1>16 DEF Reassign
<1>17. CASE SessionStarts
  BY <1>17 DEF SessionStarts
<1>18. CASE FindReservation
  BY <1>18 DEF FindReservation
<1>19. CASE LinkSession
  BY <1>19 DEF LinkSession, LinksLate
<1>20. CASE MoveToInUse
  BY <1>20 DEF MoveToInUse
<1>21. CASE LinkFails
  BY <1>21 DEF LinkFails, Fault
<1>22. CASE SessionEnds
  BY <1>22 DEF SessionEnds
<1>23. CASE ReadEndedSession
  BY <1>23 DEF ReadEndedSession
<1>24. CASE MarkUsed
  BY <1>24 DEF MarkUsed
<1>25. CASE TakenByOther
  BY <1>25 DEF TakenByOther
<1>26. CASE ExpireDue
  BY <1>26 DEF ExpireDue, Expire, OwesFee
<1>27. CASE StationReportsExpired
  BY <1>27 DEF StationReportsExpired, Expire, OwesFee
<1> QED
  BY <1>1, <1>2, <1>3, <1>4, <1>5, <1>6, <1>7, <1>8, <1>9, <1>10, <1>11, <1>12, <1>13,
     <1>14, <1>15, <1>16, <1>17, <1>18, <1>19, <1>20, <1>21, <1>22, <1>23, <1>24,
     <1>25, <1>26, <1>27 DEF RowStep

(* They charge nothing, make no ended reservation live, and change the fee *)
(* only of a live one that has none.                                       *)
LEMMA RowFrame ==
  ASSUME TypeOK, HistoryInv, RowStep
  PROVE  /\ UNCHANGED charging
         /\ status' \in Live => status \in Live
         /\ fee' = fee \/ (fee = "none" /\ status \in Live /\ fee' \in {"waived", "due"})
         /\ by = "person" => by' = "person"
         /\ overwrote' = overwrote
         /\ HistoryInv'
<1> USE DEF TypeOK, HistoryInv, Live, row, cancel, session
<1>1. CASE Tick
  BY <1>1 DEF Tick
<1>2. CASE JobReads
  BY <1>2 DEF JobReads, SessionOpen
<1>3. CASE JobActivates
  BY <1>3 DEF JobActivates, JobFlips
<1>4. CASE JobExpires
  BY <1>4 DEF JobExpires, JobFlips
<1>5. CASE JobUses
  BY <1>5 DEF JobUses, JobFlips, SessionOpen
<1>6. CASE JobPublishes
  BY <1>6 DEF JobPublishes
<1>7. CASE JobPublishFails
  BY <1>7 DEF JobPublishFails, Fault
<1>8. CASE JobLinksSession
  BY <1>8 DEF JobLinksSession, LinksLate
<1>9. CASE JobDies
  BY <1>9 DEF JobDies, Fault
<1>10. CASE JobCancels
  BY <1>10 DEF JobCancels, Cancel
<1>11. CASE CancelBySystem
  BY <1>11 DEF CancelBySystem, Cancel
<1>12. CASE \E who \in {"person", "system"} : CancelReads(who)
  BY <1>12 DEF CancelReads, Fault
<1>13. CASE Accepted
  BY <1>13 DEF Accepted
<1>14. CASE Rejected
  BY <1>14 DEF Rejected, Cancel
<1>15. CASE Edit
  BY <1>15 DEF Edit, Fault
<1>16. CASE Reassign
  BY <1>16 DEF Reassign
<1>17. CASE SessionStarts
  BY <1>17 DEF SessionStarts
<1>18. CASE FindReservation
  BY <1>18 DEF FindReservation
<1>19. CASE LinkSession
  BY <1>19 DEF LinkSession, LinksLate
<1>20. CASE MoveToInUse
  BY <1>20 DEF MoveToInUse
<1>21. CASE LinkFails
  BY <1>21 DEF LinkFails, Fault
<1>22. CASE SessionEnds
  BY <1>22 DEF SessionEnds
<1>23. CASE ReadEndedSession
  BY <1>23 DEF ReadEndedSession
<1>24. CASE MarkUsed
  BY <1>24 DEF MarkUsed
<1>25. CASE TakenByOther
  BY <1>25 DEF TakenByOther
<1>26. CASE ExpireDue
  BY <1>26 DEF ExpireDue, Expire, OwesFee
<1>27. CASE StationReportsExpired
  BY <1>27 DEF StationReportsExpired, Expire, OwesFee
<1> QED
  BY <1>1, <1>2, <1>3, <1>4, <1>5, <1>6, <1>7, <1>8, <1>9, <1>10, <1>11, <1>12, <1>13,
     <1>14, <1>15, <1>16, <1>17, <1>18, <1>19, <1>20, <1>21, <1>22, <1>23, <1>24,
     <1>25, <1>26, <1>27 DEF RowStep

LEMMA RowStepKeeps ==
  ASSUME IInv, RowStep
  PROVE  IInv'
<1>1. TypeOK' /\ InflightInv'
  BY RowTypes DEF IInv
<1>2. /\ UNCHANGED charging
      /\ status' \in Live => status \in Live
      /\ fee' = fee \/ (fee = "none" /\ status \in Live /\ fee' \in {"waived", "due"})
      /\ by = "person" => by' = "person"
      /\ overwrote' = overwrote
      /\ HistoryInv'
  BY RowFrame DEF IInv
<1>3. KindInv' /\ ChargerInv' /\ MarkInv' /\ RecordInv'
  BY <1>2 DEF IInv, charging, KindInv, ChargerInv, Charging, MarkInv, RecordInv
<1>4. FeeInv'
  BY <1>2 DEF IInv, charging, FeeInv, Verdict
<1>5. CancelInv'
  BY <1>2 DEF IInv, charging, CancelInv
<1> QED BY <1>1, <1>2, <1>3, <1>4, <1>5 DEF IInv

(* What the two ways to end a charge and to start one write to run. *)
LEMMA OutcomeIs ==
  ASSUME TypeOK, NEW r \in Runner, NEW o \in {"none", "charged", "failed"}, Outcome(r, o)
  PROVE  \E s \in Run :
           /\ run' = [run EXCEPT ![r] = s]
           /\ IF r \in Settlers
                THEN s.step = "state" /\ s.kind = "noShow" /\ s.outcome = o
                ELSE s = Idle
<1>1. CASE r \in Settlers
  <2>1. [Idle EXCEPT !.step = "state", !.outcome = o] \in Run
    BY DEF Kind, Run, Idle
  <2> QED BY <1>1, <2>1 DEF Outcome, Become, Idle
<1>2. CASE r \notin Settlers
  BY <1>2 DEF Outcome, Become, Idle, Run, Kind
<1> QED BY <1>1, <1>2

(* What a run marks in a record is a state of a record. *)
LEMMA MarkRecordType ==
  ASSUME NEW x \in Run, NEW o \in {"charged", "failed"}
  PROVE  [x EXCEPT !.step = "mark", !.outcome = o] \in Run
BY DEF Run

(* A cancel by a person leaves the runs in their type. *)
LEMMA CancellationRun ==
  ASSUME TypeOK, ChargesCancellation
  PROVE  \/ run' = run
         \/ /\ run["canceller"].step = "idle"
            /\ \E s \in Run :
                 /\ run' = [run EXCEPT !["canceller"] = s]
                 /\ s.step = "record" /\ s.kind = "cancellation" /\ s.outcome = "none"
<1>1. [Idle EXCEPT !.step = "record", !.kind = "cancellation"] \in Run
  BY DEF Idle, Run, Kind
<1> QED BY <1>1 DEF ChargesCancellation, Idle

-----------------------------------------------------------------------------
(* Steps that charge a fee, and the cancels that start one.                *)

LEMMA CancelByPersonKeeps ==
  ASSUME IInv, CancelByPerson
  PROVE  IInv'
<1> USE SettlersAssumption, FaultsAssumption
    DEF IInv, row, cancel, session, charging, Live, Runner, Kind, Run,
         CancelByPerson, Cancel
<1>0. \/ run' = run
      \/ /\ run["canceller"].step = "idle"
         /\ \E s \in Run :
              /\ run' = [run EXCEPT !["canceller"] = s]
              /\ s.step = "record" /\ s.kind = "cancellation" /\ s.outcome = "none"
  BY CancellationRun
<1>1. TypeOK' /\ InflightInv' /\ HistoryInv'
  BY <1>0 DEF TypeOK, InflightInv, HistoryInv
<1>2. KindInv'
  BY <1>0 DEF TypeOK, KindInv
<1>3. ChargerInv'
  BY <1>0 DEF TypeOK, KindInv, ChargerInv, Charging
<1>4. MarkInv'
  BY <1>0 DEF TypeOK, KindInv, ChargerInv, Charging, MarkInv
<1>5. RecordInv'
  BY <1>0 DEF TypeOK, KindInv, ChargerInv, Charging, MarkInv, RecordInv
<1>6. FeeInv'
  BY <1>0 DEF TypeOK, HistoryInv, KindInv, ChargerInv, Charging, MarkInv, RecordInv,
       FeeInv, Verdict
<1>7. CancelInv'
  BY <1>0 DEF TypeOK, KindInv, ChargerInv, Charging, CancelInv
<1> QED BY <1>1, <1>2, <1>3, <1>4, <1>5, <1>6, <1>7

(* The write of a cancel whose snapshot is older, the same. *)
LEMMA CancelWritesKeeps ==
  ASSUME IInv, CancelWrites
  PROVE  IInv'
<1> USE SettlersAssumption, FaultsAssumption
    DEF IInv, row, cancel, session, charging, Live, Runner, Kind, Run, CancelWrites
<1>0. \/ run' = run
      \/ /\ run["canceller"].step = "idle"
         /\ \E s \in Run :
              /\ run' = [run EXCEPT !["canceller"] = s]
              /\ s.step = "record" /\ s.kind = "cancellation" /\ s.outcome = "none"
  BY CancellationRun
<1>1. TypeOK' /\ InflightInv' /\ HistoryInv'
  BY <1>0 DEF TypeOK, InflightInv, HistoryInv
<1>2. KindInv'
  BY <1>0 DEF TypeOK, KindInv
<1>3. ChargerInv'
  BY <1>0 DEF TypeOK, KindInv, ChargerInv, Charging
<1>4. MarkInv'
  BY <1>0 DEF TypeOK, KindInv, ChargerInv, Charging, MarkInv
<1>5. RecordInv'
  BY <1>0 DEF TypeOK, KindInv, ChargerInv, Charging, MarkInv, RecordInv
<1>6. FeeInv'
  BY <1>0 DEF TypeOK, HistoryInv, KindInv, ChargerInv, Charging, MarkInv, RecordInv,
       FeeInv, Verdict
<1>7. CancelInv'
  BY <1>0 DEF TypeOK, KindInv, ChargerInv, Charging, CancelInv
<1> QED BY <1>1, <1>2, <1>3, <1>4, <1>5, <1>6, <1>7

(* A settler takes up a due fee. *)
LEMMA StartSettleKeeps ==
  ASSUME IInv, NEW r \in Settlers, StartSettle(r)
  PROVE  IInv'
<1> USE SettlersAssumption, FaultsAssumption
    DEF IInv, row, cancel, session, charging, Live, Runner, Kind, Run, Idle,
         StartSettle, Become
<1>1. TypeOK' /\ InflightInv' /\ HistoryInv'
  BY DEF TypeOK, InflightInv, HistoryInv
<1>2. KindInv'
  BY DEF TypeOK, KindInv
<1>3. ChargerInv'
  BY DEF TypeOK, KindInv, ChargerInv, Charging
<1>4. MarkInv'
  BY DEF TypeOK, KindInv, ChargerInv, Charging, MarkInv
<1>5. RecordInv'
  BY DEF TypeOK, KindInv, ChargerInv, Charging, MarkInv, RecordInv
<1>6. FeeInv'
  BY DEF TypeOK, HistoryInv, KindInv, ChargerInv, Charging, MarkInv, RecordInv,
       FeeInv, Verdict
<1>7. CancelInv'
  BY DEF TypeOK, KindInv, ChargerInv, Charging, CancelInv
<1> QED BY <1>1, <1>2, <1>3, <1>4, <1>5, <1>6, <1>7

(* The reconciliation resumes a pending record nobody charges. *)
LEMMA StartResumeKeeps ==
  ASSUME IInv, StartResume
  PROVE  IInv'
<1> USE SettlersAssumption, FaultsAssumption
    DEF IInv, row, cancel, session, charging, Live, Runner, Kind, Run, Idle,
         StartResume, Become
<1>0. run' \in [Runner -> Run]
  <2>1. PICK k \in Kind : Become("recon", [Idle EXCEPT !.step = "charge", !.kind = k])
    OBVIOUS
  <2>2. [Idle EXCEPT !.step = "charge", !.kind = k] \in Run
    OBVIOUS
  <2> QED BY <2>1, <2>2 DEF TypeOK
<1>1. TypeOK' /\ InflightInv' /\ HistoryInv'
  BY <1>0 DEF TypeOK, InflightInv, HistoryInv
<1>2. KindInv'
  BY DEF TypeOK, KindInv
<1>3. ChargerInv'
  BY DEF TypeOK, KindInv, ChargerInv, Charging
<1>4. MarkInv'
  BY DEF TypeOK, KindInv, ChargerInv, Charging, MarkInv
<1>5. RecordInv'
  BY DEF TypeOK, KindInv, ChargerInv, Charging, MarkInv, RecordInv
<1>6. FeeInv'
  BY DEF TypeOK, HistoryInv, KindInv, ChargerInv, Charging, MarkInv, RecordInv,
       FeeInv, Verdict
<1>7. CancelInv'
  BY DEF TypeOK, KindInv, ChargerInv, Charging, CancelInv
<1> QED BY <1>1, <1>2, <1>3, <1>4, <1>5, <1>6, <1>7

(* The insert of the record makes its run the only one that charges. *)
LEMMA RecordFeeKeeps ==
  ASSUME IInv, NEW r \in Runner, RecordFee(r)
  PROVE  IInv'
<1> USE SettlersAssumption, FaultsAssumption
    DEF IInv, row, cancel, session, charging, Live, Runner, Kind, Run, Idle,
         RecordFee, Become
<1>1. TypeOK' /\ InflightInv' /\ HistoryInv'
  BY DEF TypeOK, InflightInv, HistoryInv
<1>2. KindInv'
  BY DEF TypeOK, KindInv
<1>3. ChargerInv'
  BY DEF TypeOK, KindInv, ChargerInv, Charging
<1>4. MarkInv'
  BY DEF TypeOK, KindInv, ChargerInv, Charging, MarkInv
<1>5. RecordInv'
  BY DEF TypeOK, KindInv, ChargerInv, Charging, MarkInv, RecordInv
<1>6. FeeInv'
  BY DEF TypeOK, HistoryInv, KindInv, ChargerInv, Charging, MarkInv, RecordInv,
       FeeInv, Verdict
<1>7. CancelInv'
  BY DEF TypeOK, KindInv, ChargerInv, Charging, CancelInv
<1> QED BY <1>1, <1>2, <1>3, <1>4, <1>5, <1>6, <1>7

(* A run that cannot charge carries its verdict to the fee state. *)
LEMMA SkipFeeKeeps ==
  ASSUME IInv, NEW r \in Runner, SkipFee(r)
  PROVE  IInv'
<1> USE SettlersAssumption, FaultsAssumption
    DEF IInv, row, cancel, session, charging, Live, Runner, Kind, Run, Idle,
         SkipFee, Outcome, Become
<1>0. run' \in [Runner -> Run]
  BY OutcomeIs DEF TypeOK
<1>1. TypeOK' /\ InflightInv' /\ HistoryInv'
  BY <1>0 DEF TypeOK, InflightInv, HistoryInv
<1>2. KindInv'
  BY DEF TypeOK, KindInv
<1>3. ChargerInv'
  BY DEF TypeOK, KindInv, ChargerInv, Charging
<1>4. MarkInv'
  BY DEF TypeOK, KindInv, ChargerInv, Charging, MarkInv
<1>5. RecordInv'
  BY DEF TypeOK, KindInv, ChargerInv, Charging, MarkInv, RecordInv
<1>6. FeeInv'
  BY DEF TypeOK, HistoryInv, KindInv, ChargerInv, Charging, MarkInv, RecordInv,
       FeeInv, Verdict
<1>7. CancelInv'
  BY DEF TypeOK, KindInv, ChargerInv, Charging, CancelInv
<1> QED BY <1>1, <1>2, <1>3, <1>4, <1>5, <1>6, <1>7

(* A card removed changes the terms only. *)
LEMMA RemoveCardKeeps ==
  ASSUME IInv, RemoveCard
  PROVE  IInv'
<1> USE SettlersAssumption, FaultsAssumption
    DEF IInv, row, cancel, session, charging, Live, Runner, Kind, Run, Idle,
         RemoveCard, Fault
<1>1. TypeOK' /\ InflightInv' /\ HistoryInv'
  BY DEF TypeOK, InflightInv, HistoryInv
<1>2. KindInv'
  BY DEF TypeOK, KindInv
<1>3. ChargerInv'
  BY DEF TypeOK, KindInv, ChargerInv, Charging
<1>4. MarkInv'
  BY DEF TypeOK, KindInv, ChargerInv, Charging, MarkInv
<1>5. RecordInv'
  BY DEF TypeOK, KindInv, ChargerInv, Charging, MarkInv, RecordInv
<1>6. FeeInv'
  BY DEF TypeOK, HistoryInv, KindInv, ChargerInv, Charging, MarkInv, RecordInv,
       FeeInv, Verdict
<1>7. CancelInv'
  BY DEF TypeOK, KindInv, ChargerInv, Charging, CancelInv
<1> QED BY <1>1, <1>2, <1>3, <1>4, <1>5, <1>6, <1>7

(* The provider takes the fee of the one run that charges it. *)
LEMMA ChargeFeeKeeps ==
  ASSUME IInv, NEW r \in Runner, ChargeFee(r)
  PROVE  IInv'
<1> USE SettlersAssumption, FaultsAssumption
    DEF IInv, row, cancel, session, charging, Live, Runner, Kind, Run, Idle,
         ChargeFee, Become
<1>0. run' \in [Runner -> Run]
  <2>1. run[r] \in Run
    BY DEF TypeOK
  <2>2. \A o \in {"charged", "failed"} :
          [run[r] EXCEPT !.step = "mark", !.outcome = o] \in Run
    BY <2>1, MarkRecordType
  <2> QED BY <2>2 DEF TypeOK
<1>1. TypeOK' /\ InflightInv' /\ HistoryInv'
  BY <1>0 DEF TypeOK, InflightInv, HistoryInv
<1>2. KindInv'
  BY DEF TypeOK, KindInv
<1>3. ChargerInv'
  BY DEF TypeOK, KindInv, ChargerInv, Charging
<1>4. MarkInv'
  BY DEF TypeOK, KindInv, ChargerInv, Charging, MarkInv
<1>5. RecordInv'
  BY DEF TypeOK, KindInv, ChargerInv, Charging, MarkInv, RecordInv
<1>6. FeeInv'
  BY DEF TypeOK, HistoryInv, KindInv, ChargerInv, Charging, MarkInv, RecordInv,
       FeeInv, Verdict
<1>7. CancelInv'
  BY DEF TypeOK, KindInv, ChargerInv, Charging, CancelInv
<1> QED BY <1>1, <1>2, <1>3, <1>4, <1>5, <1>6, <1>7

(* A charge that throws is taken for failed, and unsure. *)
LEMMA ChargeThrowsKeeps ==
  ASSUME IInv, NEW r \in Runner, ChargeThrows(r)
  PROVE  IInv'
<1> USE SettlersAssumption, FaultsAssumption
    DEF IInv, row, cancel, session, charging, Live, Runner, Kind, Run, Idle,
         ChargeThrows, Become, Fault
<1>0. run' \in [Runner -> Run]
  <2>1. run[r] \in Run
    BY DEF TypeOK
  <2>2. \A o \in {"charged", "failed"} :
          [run[r] EXCEPT !.step = "mark", !.outcome = o] \in Run
    BY <2>1, MarkRecordType
  <2> QED BY <2>2 DEF TypeOK
<1>1. TypeOK' /\ InflightInv' /\ HistoryInv'
  BY <1>0 DEF TypeOK, InflightInv, HistoryInv
<1>2. KindInv'
  BY DEF TypeOK, KindInv
<1>3. ChargerInv'
  BY DEF TypeOK, KindInv, ChargerInv, Charging
<1>4. MarkInv'
  <2>1. /\ run' = [run EXCEPT ![r] = [run[r] EXCEPT !.step = "mark", !.outcome = "failed"]]
        /\ run'[r].kind = run[r].kind /\ run'[r].outcome = "failed"
        /\ \A q \in Runner : q # r => run'[q] = run[q]
    BY DEF TypeOK
  <2>2. \A q \in Runner : q # r /\ run[q].step = "mark" => run[q].kind # run[r].kind
    BY DEF ChargerInv, Charging
  <2>3. /\ unsure => unsure'
        /\ run[r].kind = "noShow" /\ provider'["noShow"] = "taken" => unsure'
        /\ \A k \in Kind : k # run[r].kind => provider'[k] = provider[k]
    BY DEF TypeOK
  <2>4. \A q \in Runner : run[q].kind \in Kind
    BY DEF TypeOK
  <2> HIDE DEF ChargeThrows, Become
  <2> QED BY <2>1, <2>2, <2>3, <2>4 DEF MarkInv
<1>5. RecordInv'
  BY DEF TypeOK, KindInv, ChargerInv, Charging, MarkInv, RecordInv
<1>6. FeeInv'
  BY DEF TypeOK, HistoryInv, KindInv, ChargerInv, Charging, MarkInv, RecordInv,
       FeeInv, Verdict
<1>7. CancelInv'
  BY DEF TypeOK, KindInv, ChargerInv, Charging, CancelInv
<1> QED BY <1>1, <1>2, <1>3, <1>4, <1>5, <1>6, <1>7

(* The record is marked with the outcome. *)
LEMMA MarkRecordKeeps ==
  ASSUME IInv, NEW r \in Runner, MarkRecord(r)
  PROVE  IInv'
<1> USE SettlersAssumption, FaultsAssumption
    DEF IInv, row, cancel, session, charging, Live, Runner, Kind, Run, Idle,
         MarkRecord, Outcome, Become
<1>0. run' \in [Runner -> Run]
  <2>1. run[r].outcome \in {"none", "charged", "failed"}
    BY DEF TypeOK
  <2>2. Idle \in Run /\ [Idle EXCEPT !.step = "state", !.outcome = run[r].outcome] \in Run
    BY <2>1
  <2> QED BY <2>2 DEF TypeOK
<1>1. TypeOK' /\ InflightInv' /\ HistoryInv'
  BY <1>0 DEF TypeOK, InflightInv, HistoryInv
<1>2. KindInv'
  BY DEF TypeOK, KindInv
<1>3. ChargerInv'
  BY DEF TypeOK, KindInv, ChargerInv, Charging
<1>4. MarkInv'
  BY DEF TypeOK, KindInv, ChargerInv, Charging, MarkInv
<1>5. RecordInv'
  BY DEF TypeOK, KindInv, ChargerInv, Charging, MarkInv, RecordInv
<1>6. FeeInv'
  BY DEF TypeOK, HistoryInv, KindInv, ChargerInv, Charging, MarkInv, RecordInv,
       FeeInv, Verdict
<1>7. CancelInv'
  BY DEF TypeOK, KindInv, ChargerInv, Charging, CancelInv
<1> QED BY <1>1, <1>2, <1>3, <1>4, <1>5, <1>6, <1>7

(* A run that lost the insert takes the verdict of the record. *)
LEMMA ReadRecordKeeps ==
  ASSUME IInv, NEW r \in Runner, ReadRecord(r)
  PROVE  IInv'
<1> USE SettlersAssumption, FaultsAssumption
    DEF IInv, row, cancel, session, charging, Live, Runner, Kind, Run, ReadRecord
<1>0. \E s \in Run :
        /\ run' = [run EXCEPT ![r] = s]
        /\ \/ s.step = "idle" /\ s.kind = "noShow"
           \/ /\ r \in Settlers /\ s.step = "state" /\ s.kind = "noShow"
              /\ \/ s.outcome = "charged" /\ record["noShow"] = "captured"
                 \/ s.outcome = "failed" /\ record["noShow"] = "failed"
  <2>1. Idle \in Run /\ Idle.step = "idle" /\ Idle.kind = "noShow"
    BY DEF Idle
  <2>2. CASE Outcome(r, "charged") /\ record[run[r].kind] = "captured"
    BY <2>1, <2>2, OutcomeIs DEF KindInv
  <2>3. CASE Outcome(r, "failed") /\ record[run[r].kind] = "failed"
    BY <2>1, <2>3, OutcomeIs DEF KindInv
  <2>4. CASE Become(r, Idle)
    BY <2>1, <2>4 DEF Become
  <2> QED BY <2>2, <2>3, <2>4
<1>1. TypeOK' /\ InflightInv' /\ HistoryInv'
  BY <1>0 DEF TypeOK, InflightInv, HistoryInv
<1>2. KindInv'
  BY <1>0 DEF TypeOK, KindInv
<1>3. ChargerInv'
  BY <1>0 DEF TypeOK, KindInv, ChargerInv, Charging
<1>4. MarkInv'
  BY <1>0 DEF TypeOK, KindInv, ChargerInv, Charging, MarkInv
<1>5. RecordInv'
  BY <1>0 DEF TypeOK, KindInv, ChargerInv, Charging, MarkInv, RecordInv
<1>6. FeeInv'
  BY <1>0 DEF TypeOK, HistoryInv, KindInv, ChargerInv, Charging, MarkInv, RecordInv,
       FeeInv, Verdict
<1>7. CancelInv'
  BY <1>0 DEF TypeOK, KindInv, ChargerInv, Charging, CancelInv
<1> QED BY <1>1, <1>2, <1>3, <1>4, <1>5, <1>6, <1>7

(* The fee state is written while the fee is due. *)
LEMMA SetFeeStateKeeps ==
  ASSUME IInv, NEW r \in Runner, SetFeeState(r)
  PROVE  IInv'
<1> USE SettlersAssumption, FaultsAssumption
    DEF IInv, row, cancel, session, charging, Live, Runner, Kind, Run, Idle,
         SetFeeState, Become
<1>1. TypeOK' /\ InflightInv' /\ HistoryInv'
  BY DEF TypeOK, InflightInv, HistoryInv
<1>2. KindInv'
  BY DEF TypeOK, KindInv
<1>3. ChargerInv'
  BY DEF TypeOK, KindInv, ChargerInv, Charging
<1>4. MarkInv'
  BY DEF TypeOK, KindInv, ChargerInv, Charging, MarkInv
<1>5. RecordInv'
  BY DEF TypeOK, KindInv, ChargerInv, Charging, MarkInv, RecordInv
<1>6. FeeInv'
  BY DEF TypeOK, HistoryInv, KindInv, ChargerInv, Charging, MarkInv, RecordInv,
       FeeInv, Verdict
<1>7. CancelInv'
  BY DEF TypeOK, KindInv, ChargerInv, Charging, CancelInv
<1> QED BY <1>1, <1>2, <1>3, <1>4, <1>5, <1>6, <1>7

(* A run that dies leaves its record pending. *)
LEMMA RunFailsKeeps ==
  ASSUME IInv, NEW r \in Runner, RunFails(r)
  PROVE  IInv'
<1> USE SettlersAssumption, FaultsAssumption
    DEF IInv, row, cancel, session, charging, Live, Runner, Kind, Run, Idle,
         RunFails, Become, Fault
<1>1. TypeOK' /\ InflightInv' /\ HistoryInv'
  BY DEF TypeOK, InflightInv, HistoryInv
<1>2. KindInv'
  BY DEF TypeOK, KindInv
<1>3. ChargerInv'
  BY DEF TypeOK, KindInv, ChargerInv, Charging
<1>4. MarkInv'
  BY DEF TypeOK, KindInv, ChargerInv, Charging, MarkInv
<1>5. RecordInv'
  BY DEF TypeOK, KindInv, ChargerInv, Charging, MarkInv, RecordInv
<1>6. FeeInv'
  BY DEF TypeOK, HistoryInv, KindInv, ChargerInv, Charging, MarkInv, RecordInv,
       FeeInv, Verdict
<1>7. CancelInv'
  BY DEF TypeOK, KindInv, ChargerInv, Charging, CancelInv
<1> QED BY <1>1, <1>2, <1>3, <1>4, <1>5, <1>6, <1>7

(* A fee given up is written off. *)
LEMMA GiveUpFeeKeeps ==
  ASSUME IInv, GiveUpFee
  PROVE  IInv'
<1> USE SettlersAssumption, FaultsAssumption
    DEF IInv, row, cancel, session, charging, Live, Runner, Kind, Run, Idle,
         GiveUpFee, Fault
<1>1. TypeOK' /\ InflightInv' /\ HistoryInv'
  BY DEF TypeOK, InflightInv, HistoryInv
<1>2. KindInv'
  BY DEF TypeOK, KindInv
<1>3. ChargerInv'
  BY DEF TypeOK, KindInv, ChargerInv, Charging
<1>4. MarkInv'
  BY DEF TypeOK, KindInv, ChargerInv, Charging, MarkInv
<1>5. RecordInv'
  BY DEF TypeOK, KindInv, ChargerInv, Charging, MarkInv, RecordInv
<1>6. FeeInv'
  BY DEF TypeOK, HistoryInv, KindInv, ChargerInv, Charging, MarkInv, RecordInv,
       FeeInv, Verdict
<1>7. CancelInv'
  BY DEF TypeOK, KindInv, ChargerInv, Charging, CancelInv
<1> QED BY <1>1, <1>2, <1>3, <1>4, <1>5, <1>6, <1>7

(* A record given up belongs to nobody that charges. *)
LEMMA GiveUpRecordKeeps ==
  ASSUME IInv, GiveUpRecord
  PROVE  IInv'
<1> USE SettlersAssumption, FaultsAssumption
    DEF IInv, row, cancel, session, charging, Live, Runner, Kind, Run, Idle,
         GiveUpRecord
<1>1. TypeOK' /\ InflightInv' /\ HistoryInv'
  BY DEF TypeOK, InflightInv, HistoryInv
<1>2. KindInv'
  BY DEF TypeOK, KindInv
<1>3. ChargerInv'
  BY DEF TypeOK, KindInv, ChargerInv, Charging
<1>4. MarkInv'
  BY DEF TypeOK, KindInv, ChargerInv, Charging, MarkInv
<1>5. RecordInv'
  BY DEF TypeOK, KindInv, ChargerInv, Charging, MarkInv, RecordInv
<1>6. FeeInv'
  BY DEF TypeOK, HistoryInv, KindInv, ChargerInv, Charging, MarkInv, RecordInv,
       FeeInv, Verdict
<1>7. CancelInv'
  BY DEF TypeOK, KindInv, ChargerInv, Charging, CancelInv
<1> QED BY <1>1, <1>2, <1>3, <1>4, <1>5, <1>6, <1>7

-----------------------------------------------------------------------------
(* The invariant holds.                                                    *)

LEMMA InitInv == Init => IInv
<1> SUFFICES ASSUME Init PROVE IInv
  OBVIOUS
<1> USE SettlersAssumption, FaultsAssumption DEF Init, Idle, Run, Runner, Kind
<1>1. TypeOK
  <2>1. run \in [Runner -> Run] /\ record \in [Kind -> {"none", "pending", "captured", "failed"}]
        /\ provider \in [Kind -> {"unseen", "taken", "declined"}]
    OBVIOUS
  <2>2. inflight \in 0 .. MaxFaults + 1 /\ faults \in 0 .. MaxFaults
    OBVIOUS
  <2>3. /\ status \in {"scheduled", "active"} /\ job \in {"waiting", "done"}
        /\ clock \in {"before", "open"} /\ terms \in {"card", "noCard", "noFee"}
    OBVIOUS
  <2>4. /\ by = "none" /\ acked = FALSE /\ fee = "none" /\ cancelling = "none"
        /\ overwrote = FALSE /\ tx = "none" /\ linked = FALSE /\ late = FALSE
        /\ missed = FALSE /\ unsure = FALSE
    OBVIOUS
  <2> HIDE DEF Init
  <2> QED BY <2>1, <2>2, <2>3, <2>4 DEF TypeOK
<1>2. InflightInv /\ HistoryInv /\ KindInv
  BY DEF InflightInv, HistoryInv, KindInv
<1>3. ChargerInv /\ MarkInv /\ RecordInv
  BY DEF ChargerInv, Charging, MarkInv, RecordInv
<1>4. FeeInv /\ CancelInv
  BY DEF FeeInv, CancelInv
<1> QED BY <1>1, <1>2, <1>3, <1>4 DEF IInv

(* A stuttering step keeps it. *)
LEMMA StutterKeeps ==
  ASSUME IInv, UNCHANGED vars
  PROVE  IInv'
BY DEF vars, row, cancel, session, charging, IInv, TypeOK, InflightInv, HistoryInv,
     KindInv,
       ChargerInv, Charging, MarkInv, RecordInv, FeeInv, Verdict, CancelInv

(* Every step keeps it. *)
LEMMA NextKeeps == IInv /\ [Next]_vars => IInv'
<1> SUFFICES ASSUME IInv, [Next]_vars PROVE IInv'
  OBVIOUS
<1>1. CASE RowStep
  BY <1>1, RowStepKeeps
<1>2. CASE CancelByPerson \/ CancelWrites
  BY <1>2, CancelByPersonKeeps, CancelWritesKeeps
<1>3. CASE (\E r \in Settlers : StartSettle(r)) \/ StartResume
  BY <1>3, StartSettleKeeps, StartResumeKeeps
<1>4. ASSUME NEW r \in Runner, Charge(r) \/ ChargeThrows(r) \/ RunFails(r)
      PROVE  IInv'
  BY <1>4, RecordFeeKeeps, SkipFeeKeeps, ChargeFeeKeeps, MarkRecordKeeps,
       ReadRecordKeeps,
     SetFeeStateKeeps, ChargeThrowsKeeps, RunFailsKeeps DEF Charge
<1>5. CASE RemoveCard \/ GiveUpFee \/ GiveUpRecord
  BY <1>5, RemoveCardKeeps, GiveUpFeeKeeps, GiveUpRecordKeeps
<1>6. CASE UNCHANGED vars
  BY <1>6, StutterKeeps
<1> QED BY <1>1, <1>2, <1>3, <1>4, <1>5, <1>6 DEF Next, Job, Transaction, RowStep

(* So it holds in every reachable state. *)
LEMMA Invariant == Spec => []IInv
<1>1. Init => IInv
  BY InitInv
<1>2. IInv /\ [Next]_vars => IInv'
  BY NextKeeps
<1> QED BY <1>1, <1>2, PTL DEF Spec

(* The columns of a reservation fit together whatever order its writers    *)
(* come in: it has a canceller exactly when it is cancelled, and owes a    *)
(* no-show fee only after it ran out and the station had accepted it       *)
(* (guarded UPDATEs of reservation-cancel.ts and reservation-expiry.ts).   *)
THEOREM TypeCorrect == Spec => []TypeOK
<1>1. IInv => TypeOK
  BY DEF IInv
<1> QED BY <1>1, Invariant, PTL

-----------------------------------------------------------------------------
(* The refinement.                                                         *)

money == {k \in Kind : provider[k] = "taken"}

(* A step of the row is one step of the promise or none. *)
LEMMA RowRefines ==
  ASSUME IInv, RowStep
  PROVE  [Promise!Next]_(Promise!vars)
<1>0. UNCHANGED charging
  BY RowFrame DEF IInv
<1> USE <1>0 DEF IInv, TypeOK, HistoryInv, Live, row, cancel, session, charging
<1>1. CASE UNCHANGED <<status, by, fee, overwrote, linked, late>>
  BY <1>1 DEF Promise!vars
<1>2. CASE \/ Tick \/ JobReads \/ JobPublishes \/ JobDies \/ Accepted \/ Edit
           \/ Reassign \/ SessionStarts \/ FindReservation \/ LinkFails
           \/ SessionEnds \/ ReadEndedSession
           \/ \E who \in {"person", "system"} : CancelReads(who)
  BY <1>1, <1>2 DEF Tick, JobReads, JobPublishes, JobDies, Accepted, Edit, Reassign,
       SessionStarts, FindReservation, LinkFails, SessionEnds, ReadEndedSession,
       CancelReads, Fault
<1>3. CASE JobActivates
  BY <1>1, <1>3 DEF JobActivates, JobFlips, Promise!vars, Promise!Next,
       Promise!Activate, Promise!Live
<1>4. CASE JobExpires
  BY <1>1, <1>4 DEF JobExpires, JobFlips, Promise!vars, Promise!Next, Promise!Expire,
       Promise!Live
<1>5. CASE JobUses
  BY <1>1, <1>5 DEF JobUses, JobFlips, SessionOpen, Promise!vars, Promise!Next,
       Promise!Use, Promise!Live
<1>6. CASE JobPublishFails
  BY <1>1, <1>6 DEF JobPublishFails, Fault, Promise!vars, Promise!Next,
       Promise!Revert, Promise!Live
<1>7. CASE JobLinksSession
  BY <1>1, <1>7 DEF JobLinksSession, LinksLate, Promise!vars, Promise!Next,
       Promise!Link, Promise!Live
<1>8. CASE JobCancels
  BY <1>1, <1>8 DEF JobCancels, Cancel, Promise!vars, Promise!Next, Promise!Cancel,
       Promise!Live
<1>9. CASE CancelBySystem
  BY <1>1, <1>9 DEF CancelBySystem, Cancel, Promise!vars, Promise!Next,
       Promise!Cancel, Promise!Live
<1>10. CASE Rejected
  BY <1>1, <1>10 DEF Rejected, Cancel, Promise!vars, Promise!Next, Promise!Cancel,
       Promise!Live
<1>11. CASE LinkSession
  BY <1>1, <1>11 DEF LinkSession, LinksLate, Promise!vars, Promise!Next, Promise!Link,
       Promise!Live
<1>12. CASE MoveToInUse
  BY <1>1, <1>12 DEF MoveToInUse, Promise!vars, Promise!Next, Promise!Use, Promise!Live
<1>13. CASE MarkUsed
  BY <1>1, <1>13 DEF MarkUsed, Promise!vars, Promise!Next, Promise!Finish, Promise!Live
<1>14. CASE TakenByOther
  BY <1>1, <1>14 DEF TakenByOther, Promise!vars, Promise!Next, Promise!Waive,
       Promise!Live
<1>15. CASE ExpireDue
  BY <1>1, <1>15 DEF ExpireDue, Expire, OwesFee, Promise!vars, Promise!Next,
       Promise!Expire, Promise!Live
<1>16. CASE StationReportsExpired
  BY <1>1, <1>16 DEF StationReportsExpired, Expire, OwesFee, Promise!vars,
       Promise!Next, Promise!Expire, Promise!Live
<1> QED
  BY <1>2, <1>3, <1>4, <1>5, <1>6, <1>7, <1>8, <1>9, <1>10, <1>11, <1>12, <1>13,
     <1>14, <1>15, <1>16 DEF RowStep

(* A step of a run that charges is one step of the promise or none. *)
LEMMA ChargeRefines ==
  ASSUME IInv,
         \/ CancelByPerson \/ CancelWrites
         \/ (\E r \in Settlers : StartSettle(r)) \/ StartResume
         \/ (\E r \in Runner : Charge(r) \/ ChargeThrows(r) \/ RunFails(r))
         \/ RemoveCard \/ GiveUpFee \/ GiveUpRecord
  PROVE  [Promise!Next]_(Promise!vars)
<1> USE DEF IInv, Live, row, cancel, session, charging
<1>1. CASE UNCHANGED <<status, by, fee, overwrote, linked, late, provider, unsure>>
  BY <1>1 DEF Promise!vars
<1>2. CASE CancelByPerson
  BY <1>1, <1>2 DEF CancelByPerson, Cancel, ChargesCancellation, TypeOK, HistoryInv,
       KindInv, ChargerInv, Charging, MarkInv, RecordInv, FeeInv, Verdict, CancelInv,
       Runner, Kind, Promise!vars, Promise!Next, Promise!Live, Promise!Cancel
<1>3. CASE CancelWrites
  BY <1>1, <1>3 DEF CancelWrites, ChargesCancellation, TypeOK, HistoryInv, KindInv,
       ChargerInv, Charging, MarkInv, RecordInv, FeeInv, Verdict, CancelInv, Runner,
       Kind, Promise!vars, Promise!Next, Promise!Live, Promise!Cancel,
       Promise!Overwrite
<1>4. ASSUME NEW r \in Settlers, StartSettle(r) PROVE [Promise!Next]_(Promise!vars)
  BY <1>1, <1>4 DEF StartSettle, Become
<1>5. CASE StartResume
  BY <1>1, <1>5 DEF StartResume, Become
<1>6. ASSUME NEW r \in Runner, RecordFee(r) PROVE [Promise!Next]_(Promise!vars)
  BY <1>1, <1>6 DEF RecordFee, Become
<1>7. ASSUME NEW r \in Runner, SkipFee(r) PROVE [Promise!Next]_(Promise!vars)
  BY <1>1, <1>7 DEF SkipFee, Outcome, Become, TypeOK, HistoryInv, KindInv, ChargerInv,
       Charging, MarkInv, RecordInv, FeeInv, Verdict, CancelInv, Runner, Kind,
       Promise!vars, Promise!Next, Promise!Live, Promise!WriteOff
<1>8. CASE RemoveCard
  BY <1>1, <1>8 DEF RemoveCard, Fault
<1>9. ASSUME NEW r \in Runner, ChargeFee(r) PROVE [Promise!Next]_(Promise!vars)
  BY <1>1, <1>9 DEF ChargeFee, Become, TypeOK, HistoryInv, KindInv, ChargerInv,
       Charging, MarkInv, RecordInv, FeeInv, Verdict, CancelInv, Runner, Kind,
       Promise!vars, Promise!Next, Promise!Live, Promise!Take
<1>10. ASSUME NEW r \in Runner, ChargeThrows(r) PROVE [Promise!Next]_(Promise!vars)
  <2>1. /\ run[r].kind \in Kind /\ record[run[r].kind] = "pending"
        /\ run[r].kind = "cancellation" => by = "person" \/ overwrote
        /\ run[r].kind = "noShow" => fee = "due" \/ (fee = "failed" /\ unsure)
    BY <1>10 DEF ChargeThrows, TypeOK, Run, ChargerInv, Charging, FeeInv, CancelInv,
         Kind
  <2>2. UNCHANGED <<status, by, fee, overwrote, linked, late>>
    BY <1>10 DEF ChargeThrows
  <2>3. unsure' \in {unsure, TRUE}
    BY <1>10 DEF ChargeThrows, TypeOK
  <2>4. CASE provider' = provider
    <3>1. money' = money
      BY <2>4 DEF money
    <3>2. unsure' = unsure \/ (run[r].kind = "noShow" /\ unsure' = TRUE /\ "noShow" \in money)
      BY <1>10, <2>4 DEF ChargeThrows, TypeOK, money, Kind
    <3> QED
      BY <2>1, <2>2, <3>1, <3>2
         DEF money, Kind, Promise!vars, Promise!Next, Promise!Take
  <2>5. CASE provider' = [provider EXCEPT ![run[r].kind] = "taken"]
    <3>1. money' = money \cup {run[r].kind}
      BY <2>1, <2>5 DEF money, TypeOK
    <3> QED
      BY <2>1, <2>2, <2>3, <3>1 DEF money, Kind, Promise!Next, Promise!Take
  <2> QED BY <1>10, <2>4, <2>5 DEF ChargeThrows
<1>11. ASSUME NEW r \in Runner, MarkRecord(r) PROVE [Promise!Next]_(Promise!vars)
  BY <1>1, <1>11 DEF MarkRecord, Outcome, Become
<1>12. ASSUME NEW r \in Runner, ReadRecord(r) PROVE [Promise!Next]_(Promise!vars)
  BY <1>1, <1>12 DEF ReadRecord, Outcome, Become
<1>13. ASSUME NEW r \in Runner, SetFeeState(r) PROVE [Promise!Next]_(Promise!vars)
  BY <1>1, <1>13 DEF SetFeeState, Become, TypeOK, HistoryInv, KindInv, ChargerInv,
       Charging, MarkInv, RecordInv, FeeInv, Verdict, CancelInv, Runner, Kind,
       Promise!vars, Promise!Next, Promise!Live, Promise!Settle
<1>14. ASSUME NEW r \in Runner, RunFails(r) PROVE [Promise!Next]_(Promise!vars)
  BY <1>1, <1>14 DEF RunFails, Become, Fault
<1>15. CASE GiveUpFee
  BY <1>1, <1>15 DEF GiveUpFee, Fault, TypeOK, HistoryInv, KindInv, ChargerInv,
       Charging, MarkInv, RecordInv, FeeInv, Verdict, CancelInv, Runner, Kind,
       Promise!vars, Promise!Next, Promise!Live, Promise!WriteOff
<1>16. CASE GiveUpRecord
  BY <1>1, <1>16 DEF GiveUpRecord, TypeOK, HistoryInv, KindInv, ChargerInv, Charging,
       MarkInv, RecordInv, FeeInv, Verdict, CancelInv, Runner, Kind, Promise!vars,
       Promise!Next, Promise!Live, Promise!WriteOff
<1> QED
  BY <1>2, <1>3, <1>4, <1>5, <1>6, <1>7, <1>8, <1>9, <1>10, <1>11, <1>12, <1>13,
     <1>14, <1>15, <1>16 DEF Charge

(* So is every step. *)
LEMMA StepRefines == IInv /\ [Next]_vars => [Promise!Next]_(Promise!vars)
<1> SUFFICES ASSUME IInv, [Next]_vars PROVE [Promise!Next]_(Promise!vars)
  OBVIOUS
<1>1. CASE RowStep
  BY <1>1, RowRefines
<1>2. CASE UNCHANGED vars
  BY <1>2 DEF vars, row, cancel, session, charging, Promise!vars
<1> QED BY <1>1, <1>2, ChargeRefines DEF Next, Job, Transaction, RowStep

(* The initial states are initial states of the promise. *)
LEMMA InitRefines == Init => Promise!Init
BY DEF Init, Promise!Init, Kind

(* Whatever the activation job, the station, people, sessions, both        *)
(* expiries and any number of settlers and faults do to a reservation: it  *)
(* keeps what HeldReservation promises, so it ends once (but for a cancel  *)
(* that writes over its end), only a person's cancel or an unused hold that*)
(* ran out is charged, and a fee state tells what became of the money.     *)
THEOREM Refinement == Spec => ImplementsHold
<1> QED
  BY Invariant, InitRefines, StepRefines, PTL DEF Spec, ImplementsHold, Promise!Spec
=============================================================================
