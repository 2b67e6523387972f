------------------------ MODULE SessionProjectionProofs ------------------------
(***************************************************************************)
(* Proofs about SessionProjection, for any bounds: types for any set of    *)
(* processes, and, for a transaction whose events reach one process, that  *)
(* the charge of a session is final, that an active session keeps its      *)
(* hold, that the buffer waits only for a Started, and that the            *)
(* projections implement what BilledSession promises about the money.      *)
(* With two processes TLC finds each of the last four violated (the run    *)
(* session_two_ends keeps the first), so OneProcess is a hypothesis the    *)
(* code needs and not a convenience of the proof.                          *)
(***************************************************************************)
EXTENDS SessionProjection, SequenceTheorems, TLAPS

(* The connection of the station stays where it is. *)
OneProcess == \A p, q \in Pods : p = q
-----------------------------------------------------------------------------
(* Types.                                                                  *)

(* Which event a run at each of its steps projects. *)
Fits(r) ==
  /\ r.step \in {"insert", "context", "gate", "drain"} => r.event = "Started"
  /\ r.step = "find" => r.event = "Updated"
  /\ r.step = "row" => r.event \in {"Updated", "Ended", "CsmsEnd"}
  /\ r.step \in {"check", "end", "price", "settle"} => r.event \in End

StepInv == \A p \in Pods : Fits(run[p])

Typed == TypeOK /\ StepInv

LEMMA IdleFits == Idle \in Run /\ Fits(Idle)
BY BoundsAssumption DEF Idle, Event, StationEvent, End, Run, Step, Memo, Fits

(* A fresh run begins at the first step of its event. *)
LEMMA TakeFits ==
  ASSUME NEW e \in Event
  PROVE  /\ [Idle EXCEPT !.event = e, !.step = FirstStep(e)] \in Run
         /\ Fits([Idle EXCEPT !.event = e, !.step = FirstStep(e)])
<1>1. FirstStep(e) \in Step
  BY DEF FirstStep, Step
<1> QED
  BY <1>1, IdleFits DEF Run, Fits, FirstStep, Event, StationEvent, End

(* What follows the projection of an event. *)
LEMMA AfterFits ==
  ASSUME NEW r \in Run
  PROVE  AfterProject(r) \in Run /\ Fits(AfterProject(r))
<1> USE BoundsAssumption DEF BoundsAssumption, Idle, Event, StationEvent, End, Run, Step, Memo, Fits
<1>1. CASE r.event = "Ended"
  <2>1. AfterProject(r) = [event |-> "Ended", step |-> "settle", try |-> 1, memo |-> {},
                           failed |-> "no"]
    BY <1>1 DEF AfterProject
  <2> QED
    BY <2>1
<1>2. CASE r.event = "CsmsEnd"
  BY <1>2 DEF AfterProject
<1>3. CASE r.event \in {"Started", "Updated"}
  BY <1>3 DEF AfterProject
<1> QED
  BY <1>1, <1>2, <1>3

(* The run of p becomes r, a run that fits. *)
LEMMA RunSet ==
  ASSUME run \in [Pods -> Run], StepInv, NEW p \in Pods,
         NEW r \in Run, Fits(r), run' = [run EXCEPT ![p] = r]
  PROVE  run' \in [Pods -> Run] /\ StepInv'
BY DEF StepInv

LEMMA ProjectedFits ==
  ASSUME run \in [Pods -> Run], StepInv, NEW p \in Pods, Projected(p)
  PROVE  run' \in [Pods -> Run] /\ StepInv'
<1>1. run' = [run EXCEPT ![p] = AfterProject(run[p])]
  BY DEF Projected
<1> QED
  BY <1>1, AfterFits, RunSet

LEMMA GoOnFits ==
  ASSUME run \in [Pods -> Run], StepInv, NEW p \in Pods,
         NEW s \in Step, NEW m \in SUBSET Memo, GoOn(p, s, m),
         Fits([run[p] EXCEPT !.step = s])
  PROVE  run' \in [Pods -> Run] /\ StepInv'
<1> DEFINE r == [run[p] EXCEPT !.step = s, !.memo = @ \cup m]
<1>1. r \in Run
  BY DEF Run
<1>2. Fits(r)
  BY DEF Run, Fits
<1>3. run' = [run EXCEPT ![p] = r]
  BY DEF GoOn
<1> QED
  BY <1>1, <1>2, <1>3, RunSet

LEMMA RestartFits ==
  ASSUME run \in [Pods -> Run], StepInv, NEW p \in Pods, Restart(p),
         run[p].try < MaxTries, run[p].step # "idle"
  PROVE  run' \in [Pods -> Run] /\ StepInv'
<1> DEFINE s == IF run[p].step = "settle" /\ run[p].event = "Ended"
                  THEN "settle" ELSE FirstStep(run[p].event)
           r == [run[p] EXCEPT !.try = @ + 1, !.failed = "no", !.step = s]
<1>1. s \in Step
  BY DEF FirstStep, Step
<1>2. r \in Run
  <2>1. run[p].try + 1 \in 1 .. MaxTries
    BY BoundsAssumption DEF Run
  <2> QED
    BY <1>1, <2>1 DEF Run
<1>3. Fits(r)
  BY DEF Run, Fits, FirstStep, Event, StationEvent, End
<1>4. run' = [run EXCEPT ![p] = r]
  BY DEF Restart
<1> QED
  BY <1>2, <1>3, <1>4, RunSet

LEMMA GiveUpFits ==
  ASSUME run \in [Pods -> Run], StepInv, NEW p \in Pods, GiveUp(p),
         gaveUp \subseteq {"Started", "Ended"}
  PROVE  run' \in [Pods -> Run] /\ StepInv' /\ gaveUp' \subseteq {"Started", "Ended"}
<1>1. CASE run' = [run EXCEPT ![p] = Idle]
  BY <1>1, IdleFits, RunSet DEF GiveUp
<1>2. CASE run' = [run EXCEPT ![p] = AfterProject(run[p])]
  BY <1>2, AfterFits, RunSet DEF GiveUp
<1> QED
  BY <1>1, <1>2 DEF GiveUp

(* A failure of the gate is kept until the buffer is drained. *)
FailGate(p, how) ==
  run' = [run EXCEPT ![p].step = "drain", ![p].failed = how] /\ UNCHANGED gaveUp

LEMMA FailGateFits ==
  ASSUME run \in [Pods -> Run], StepInv, NEW p \in Pods, run[p].step = "gate",
         NEW how \in {"lost", "error"}, FailGate(p, how)
  PROVE  run' \in [Pods -> Run] /\ StepInv'
<1> DEFINE r == [run[p] EXCEPT !.step = "drain", !.failed = how]
<1>1. r \in Run /\ Fits(r)
  BY DEF Run, Step, Fits, StepInv
<1>2. run' = [run EXCEPT ![p] = r]
  BY DEF FailGate
<1> QED
  BY <1>1, <1>2, RunSet

(* An event is appended to the lane of a process, or taken from it. *)
LEMMA LaneTypes ==
  ASSUME lane \in [Pods -> Seq(Event)], NEW p \in Pods, NEW e \in Event
  PROVE  /\ [lane EXCEPT ![p] = Append(@, e)] \in [Pods -> Seq(Event)]
         /\ [lane EXCEPT ![p] = <<>>] \in [Pods -> Seq(Event)]
         /\ lane[p] # <<>> => /\ Head(lane[p]) \in Event
                              /\ [lane EXCEPT ![p] = Tail(@)] \in [Pods -> Seq(Event)]
<1>1. lane[p] \in Seq(Event) /\ <<>> \in Seq(Event)
  BY EmptySeq
<1>2. Append(lane[p], e) \in Seq(Event)
  BY <1>1, AppendProperties
<1>3. lane[p] # <<>> => Head(lane[p]) \in Event /\ Tail(lane[p]) \in Seq(Event)
  BY <1>1, HeadTailProperties
<1> QED
  BY <1>1, <1>2, <1>3

(* The counters of events per process. *)
LEMMA CountTypes ==
  ASSUME NEW f \in [Pods -> [Event -> Nat]], NEW p \in Pods, NEW e \in Event
  PROVE  /\ [f EXCEPT ![p][e] = @ + 1] \in [Pods -> [Event -> Nat]]
         /\ f[p][e] > 0 => [f EXCEPT ![p][e] = @ - 1] \in [Pods -> [Event -> Nat]]
         /\ [f EXCEPT ![p] = NoEvents] \in [Pods -> [Event -> Nat]]
BY DEF NoEvents

LEMMA BufferTypes ==
  ASSUME Typed, NEW p \in Pods, Buffer(p)
  PROVE  buffer' \in [Pods -> [Event -> Nat]] /\ dropped' \in BOOLEAN
<1>1. run[p].event \in Event
  BY DEF Typed, TypeOK, Run
<1>2. [buffer EXCEPT ![p][run[p].event] = @ + 1] \in [Pods -> [Event -> Nat]]
  BY <1>1, CountTypes DEF Typed, TypeOK
<1> QED
  BY <1>2 DEF Typed, TypeOK, Buffer

(* The steps of a projection keep the types, for any set of processes. *)
LEMMA ProjectTypes ==
  ASSUME Typed, NEW p \in Pods, Project(p)
  PROVE  Typed'
<1> USE DEF Typed, TypeOK
<1>0. /\ run[p] \in Run /\ Fits(run[p]) /\ session \in Session
      /\ run[p].event \in Event /\ StationEvent \subseteq Event /\ End \subseteq Event
  BY DEF StepInv, Run, Event, StationEvent, End
<1>1. CASE Take(p)
  <2> DEFINE e == Head(lane[p])
             r == [Idle EXCEPT !.event = e, !.step = FirstStep(e)]
  <2>1. e \in Event /\ lane' \in [Pods -> Seq(Event)]
    BY <1>1, LaneTypes DEF Take, Event, StationEvent
  <2>2. r \in Run /\ Fits(r)
    BY <2>1, TakeFits
  <2>3. run' = [run EXCEPT ![p] = r]
    BY <1>1 DEF Take
  <2>4. run' \in [Pods -> Run] /\ StepInv'
    <3> HIDE DEF r
    <3> QED BY <2>2, <2>3, RunSet
  <2> QED
    BY <1>1, <2>1, <2>4 DEF Take
<1>2. CASE InsertSession(p)
  <2>1. session' \in Session
    BY <1>0, <1>2 DEF InsertSession, Session
  <2>2. Projected(p) \/ GoOn(p, "context", {"checked"})
    BY <1>2 DEF InsertSession
  <2>3. Fits([run[p] EXCEPT !.step = "context"])
    BY <1>0, <1>2 DEF InsertSession, Fits, Run
  <2>4. run' \in [Pods -> Run] /\ StepInv'
    BY <2>2, <2>3, ProjectedFits, GoOnFits DEF Step, Memo
  <2> QED
    BY <1>2, <2>1, <2>4 DEF InsertSession
<1>3. CASE Resolve(p)
  <2>1. Fits([run[p] EXCEPT !.step = "gate"])
    BY <1>0, <1>3 DEF Resolve, Fits, Run
  <2>2. run' \in [Pods -> Run] /\ StepInv'
    BY <1>3, <2>1, GoOnFits DEF Resolve, Step, Memo
  <2>3. rows' \subseteq Event
    BY <1>3 DEF Resolve, Event, StationEvent
  <2> QED
    BY <1>3, <2>2, <2>3 DEF Resolve
<1>4. CASE Gate(p)
  <2>1. Fits([run[p] EXCEPT !.step = "drain"])
    BY <1>0, <1>4 DEF Gate, Fits, Run
  <2>2. run' \in [Pods -> Run] /\ StepInv'
    BY <1>4, <2>1, GoOnFits DEF Gate, Step, Memo
  <2>3. session' \in Session /\ hold' \in {"none", "open", "released"} \cup End
    BY <1>0, <1>4 DEF Gate, Session
  <2> QED
    BY <1>4, <2>2, <2>3 DEF Gate
<1>5. CASE Drain(p)
  <2>1. publishing' \in [Pods -> [Event -> Nat]] /\ buffer' \in [Pods -> [Event -> Nat]]
    BY <1>5, CountTypes DEF Drain, NoEvents
  <2>2. \/ Projected(p) /\ UNCHANGED gaveUp
        \/ run[p].try < MaxTries /\ Restart(p)
        \/ GiveUp(p)
    BY <1>5 DEF Drain
  <2>3. run' \in [Pods -> Run] /\ StepInv' /\ gaveUp' \subseteq {"Started", "Ended"}
    BY <1>5, <2>2, ProjectedFits, RestartFits, GiveUpFits DEF Drain, Restart
  <2> QED
    BY <1>5, <2>1, <2>3 DEF Drain
<1>6. CASE Find(p)
  <2>1. buffer' \in [Pods -> [Event -> Nat]] /\ dropped' \in BOOLEAN
    BY <1>6, BufferTypes DEF Find
  <2>2. Projected(p) \/ GoOn(p, "row", {"checked"})
    BY <1>6 DEF Find
  <2>3. Fits([run[p] EXCEPT !.step = "row"])
    BY <1>0, <1>6 DEF Find, Fits, Run
  <2>4. run' \in [Pods -> Run] /\ StepInv'
    BY <2>2, <2>3, ProjectedFits, GoOnFits DEF Step, Memo
  <2> QED
    BY <1>6, <2>1, <2>4 DEF Find
<1>7. CASE CheckEnd(p)
  <2>1. rows' \subseteq Event
    BY <1>0, <1>7 DEF CheckEnd
  <2>2. run' = [run EXCEPT ![p] = Idle] \/ Projected(p) \/ GoOn(p, "end", {"checked"})
    BY <1>7 DEF CheckEnd
  <2>3. Fits([run[p] EXCEPT !.step = "end"])
    BY <1>0, <1>7 DEF CheckEnd, Fits, Run
  <2>4. run' \in [Pods -> Run] /\ StepInv'
    BY <2>2, <2>3, IdleFits, RunSet, ProjectedFits, GoOnFits DEF Step, Memo
  <2> QED
    BY <1>7, <2>1, <2>4 DEF CheckEnd
<1>8. CASE EndSession(p)
  <2>1. buffer' \in [Pods -> [Event -> Nat]] /\ dropped' \in BOOLEAN
    BY <1>8, BufferTypes DEF EndSession
  <2>2. session' \in Session
    BY <1>0, <1>8 DEF EndSession, Session
  <2>3. Projected(p) \/ GoOn(p, "row", {})
    BY <1>8 DEF EndSession
  <2>4. Fits([run[p] EXCEPT !.step = "row"])
    BY <1>0, <1>8 DEF EndSession, Fits, Run, End
  <2>5. run' \in [Pods -> Run] /\ StepInv'
    BY <2>3, <2>4, ProjectedFits, GoOnFits DEF Step, Memo
  <2> QED
    BY <1>8, <2>1, <2>2, <2>5 DEF EndSession
<1>9. CASE InsertRow(p)
  <2>1. rows' \subseteq Event
    BY <1>0, <1>9 DEF InsertRow
  <2>2. Projected(p) \/ (run[p].event # "Updated" /\ GoOn(p, "price", {}))
    BY <1>9 DEF InsertRow
  <2>3. run[p].event # "Updated" => Fits([run[p] EXCEPT !.step = "price"])
    BY <1>0, <1>9 DEF InsertRow, Fits, Run, End
  <2>4. run' \in [Pods -> Run] /\ StepInv'
    BY <2>2, <2>3, ProjectedFits, GoOnFits DEF Step, Memo
  <2> QED
    BY <1>9, <2>1, <2>4 DEF InsertRow
<1>10. CASE PriceEnd(p)
  <2>1. run[p].event \in End
    BY <1>0, <1>10 DEF PriceEnd, Fits
  <2>2. session' \in Session
    BY <1>0, <1>10, <2>1 DEF PriceEnd, Session
  <2>3. run' \in [Pods -> Run] /\ StepInv'
    BY <1>10, ProjectedFits DEF PriceEnd
  <2> QED
    BY <1>10, <2>2, <2>3 DEF PriceEnd
<1>11. CASE Settle(p)
  <2>1. run' \in [Pods -> Run] /\ StepInv'
    BY <1>11, IdleFits, RunSet DEF Settle
  <2>2. hold' \in {"none", "open", "released"} \cup End
    BY <1>11 DEF Settle, SettledHold
  <2> QED
    BY <1>11, <2>1, <2>2 DEF Settle
<1> QED
  BY <1>1, <1>2, <1>3, <1>4, <1>5, <1>6, <1>7, <1>8, <1>9, <1>10, <1>11 DEF Project

(* So do the deliveries, the failures and the ends of the CSMS. *)
LEMMA OtherTypes ==
  ASSUME Typed, [Next]_vars, ~(\E p \in Pods : Project(p))
  PROVE  Typed'
<1> USE BoundsAssumption DEF Typed, TypeOK
<1>0. /\ StationEvent \subseteq Event /\ "CsmsEnd" \in Event /\ session \in Session
      /\ \A p \in Pods : run[p] \in Run /\ Fits(run[p])
  BY DEF Event, StationEvent, StepInv
<1>1. ASSUME NEW p \in Pods, NEW e \in StationEvent, Deliver(p, e)
      PROVE  Typed'
  <2>1. lane' \in [Pods -> Seq(Event)]
    BY <1>0, <1>1, LaneTypes DEF Deliver
  <2> QED
    BY <1>0, <1>1, <2>1 DEF Deliver, StepInv
<1>2. ASSUME NEW p \in Pods, NEW e \in StationEvent, Expire(p, e)
      PROVE  Typed'
  <2>1. buffer' \in [Pods -> [Event -> Nat]]
    BY <1>0, <1>2, CountTypes DEF Expire
  <2> QED
    BY <1>0, <1>2, <2>1 DEF Expire, StepInv
<1>3. ASSUME NEW p \in Pods, NEW e \in Event, Dispatch(p, e)
      PROVE  Typed'
  <2>1. publishing' \in [Pods -> [Event -> Nat]] /\ lane' \in [Pods -> Seq(Event)]
    BY <1>3, CountTypes, LaneTypes DEF Dispatch
  <2> QED
    BY <1>3, <2>1 DEF Dispatch, StepInv
<1>4. ASSUME NEW p \in Pods, LoseConnection(p)
      PROVE  Typed'
  <2>1. \/ run[p].step = "gate" /\ FailGate(p, "lost")
        \/ run[p].step # "idle" /\ run[p].try < MaxTries /\ Restart(p)
        \/ GiveUp(p)
    BY <1>4 DEF LoseConnection, FailGate
  <2>2. run' \in [Pods -> Run] /\ StepInv' /\ gaveUp' \subseteq {"Started", "Ended"}
    BY <2>1, FailGateFits, RestartFits, GiveUpFits DEF FailGate, Restart
  <2> QED
    BY <1>4, <2>2 DEF LoseConnection
<1>5. ASSUME NEW p \in Pods, FailStatement(p)
      PROVE  Typed'
  <2>1. (run[p].step = "gate" /\ FailGate(p, "error")) \/ GiveUp(p)
    BY <1>5 DEF FailStatement, FailGate
  <2>2. run' \in [Pods -> Run] /\ StepInv' /\ gaveUp' \subseteq {"Started", "Ended"}
    BY <2>1, FailGateFits, GiveUpFits DEF FailGate
  <2> QED
    BY <1>5, <2>2 DEF FailStatement
<1>6. ASSUME NEW p \in Pods, LoseRow(p)
      PROVE  Typed'
  <2>1. Fits([run[p] EXCEPT !.step = "price"])
    BY <1>0, <1>6 DEF LoseRow, Fits, Run
  <2>2. run' \in [Pods -> Run] /\ StepInv'
    BY <1>6, <2>1, GoOnFits DEF LoseRow, Step, Memo
  <2> QED
    BY <1>6, <2>2 DEF LoseRow
<1>7. ASSUME NEW p \in Pods, Crash(p)
      PROVE  Typed'
  <2>1. run' \in [Pods -> Run] /\ StepInv'
    BY <1>7, IdleFits, RunSet DEF Crash
  <2>2. /\ publishing' \in [Pods -> [Event -> Nat]] /\ buffer' \in [Pods -> [Event -> Nat]]
        /\ lane' \in [Pods -> Seq(Event)]
    BY <1>0, <1>7, CountTypes, LaneTypes DEF Crash
  <2> QED
    BY <1>7, <2>1, <2>2 DEF Crash
<1>8. ASSUME NEW p \in Pods, Claim(p)
      PROVE  Typed'
  <2>0. session.attempts + 1 \in 0 .. MaxEndAttempts
    BY <1>0, <1>8 DEF Claim, Session
  <2>1. session' \in Session
    BY <1>0, <1>8, <2>0 DEF Claim, Session
  <2>2. publishing' \in [Pods -> [Event -> Nat]]
    BY <1>0, <1>8, CountTypes DEF Claim
  <2> QED
    BY <1>8, <2>1, <2>2 DEF Claim, StepInv
<1>9. CASE RequestEnd \/ LeaseEnds
  BY <1>0, <1>9 DEF RequestEnd, LeaseEnds, Session, StepInv
<1>10. CASE GiveUpEnd \/ FaultStale
  <2>1. FaultUnbilled
    BY <1>10 DEF GiveUpEnd, FaultStale
  <2>2. session' \in Session
    BY <1>0, <2>1 DEF FaultUnbilled, Session
  <2> QED
    BY <2>1, <2>2 DEF FaultUnbilled, StepInv
<1>11. CASE UNCHANGED vars
  BY <1>11 DEF vars, StepInv
<1> QED
  BY <1>1, <1>2, <1>3, <1>4, <1>5, <1>6, <1>7, <1>8, <1>9, <1>10, <1>11
  DEF Next, AnswerRequest, Supersede

LEMMA InitTypes == Init => Typed
<1> SUFFICES ASSUME Init
             PROVE  Typed
  OBVIOUS
<1>1. NoEvents \in [Event -> Nat] /\ <<>> \in Seq(Event)
  BY EmptySeq DEF NoEvents
<1>2. session \in Session
  BY BoundsAssumption DEF Init, NoSession, Session
<1>3. run \in [Pods -> Run] /\ StepInv
  BY IdleFits DEF Init, StepInv
<1>4. /\ publishing \in [Pods -> [Event -> Nat]] /\ buffer \in [Pods -> [Event -> Nat]]
      /\ lane \in [Pods -> Seq(Event)]
  BY <1>1 DEF Init
<1>5. faults \in 0 .. MaxFaults /\ crashes \in 0 .. MaxCrashes
  BY BoundsAssumption DEF Init
<1>6. /\ sent \in [StationEvent -> Nat] /\ rows \subseteq Event
      /\ hold \in {"none", "open", "released"} \cup End
      /\ dropped \in BOOLEAN /\ unmarked \in BOOLEAN
      /\ gaveUp \subseteq {"Started", "Ended"}
  BY DEF Init
<1> QED
  BY <1>2, <1>3, <1>4, <1>5, <1>6 DEF Typed, TypeOK

LEMMA NextTypes ==
  ASSUME Typed, [Next]_vars
  PROVE  Typed'
BY ProjectTypes, OtherTypes

(* The row, the lanes and the buffers of every process keep their types:   *)
(* counters never go below zero, no run exceeds its tries, no session its  *)
(* claims, and only an end is ever priced.                                 *)
THEOREM TypeCorrect == Spec => []TypeOK
<1>1. Typed /\ [Next]_vars => Typed'
  BY NextTypes
<1>2. Typed => TypeOK
  BY DEF Typed
<1> QED
  BY InitTypes, <1>1, <1>2, PTL DEF Spec
-----------------------------------------------------------------------------
(* One process: the invariant.                                             *)

HasEnded == session.status \in {"completed", "faulted"}

(* The row of the session against its events, its hold and its bill.       *)
SessionInv ==
  /\ session.status = "none" => hold = "none" /\ rows = {} /\ session.final = "None"
  /\ session.final = "Zero" <=> session.status = "faulted"
  /\ session.final \in End => session.status = "completed"
  /\ rows \cap End # {} => HasEnded

(* What the run at the head of the lane knows of the session.  A settlement *)
(* finds an active session only when its projection was given up.           *)
KnowsInv ==
  \A p \in Pods :
    /\ run[p].step \in {"context", "gate", "drain"} => session.status # "none"
    /\ run[p].step = "row" /\ run[p].event = "Updated" => session.status # "none"
    /\ run[p].step = "row" /\ run[p].event \in End => HasEnded
    /\ run[p].step = "price" => HasEnded /\ (rows \cap End # {} \/ unmarked)
    /\ run[p].step = "settle" => session.status # "active" \/ "Ended" \in gaveUp

(* The run of an end that passed its checks, so will bill the session. *)
Ending(r) ==
  \/ r.step = "end"
  \/ r.step = "price"
  \/ r.step = "row" /\ r.event \in End
  \/ r.step = "check" /\ "checked" \in r.memo

(* A session that has its bill shows it to the checks of any other end; of *)
(* the ends that passed them before, only a rerun of the one that made the *)
(* bill is left.                                                           *)
DecidedInv ==
  session.final \in End /\ ~unmarked =>
    /\ rows \cap End # {}
    /\ \A p \in Pods :
         /\ Ending(run[p]) => run[p].event = session.final /\ run[p].try > 1
         /\ run[p].step = "settle" /\ run[p].event = "CsmsEnd" => session.final = "CsmsEnd"

(* What waits in the buffer of an active session is drained by the run     *)
(* that opened it.                                                         *)
WaitInv ==
  \A p \in Pods :
    buffer[p] # NoEvents /\ session.status = "active" =>
      \/ /\ run[p].event = "Started" /\ "checked" \in run[p].memo
         /\ run[p].step \in {"insert", "context", "gate", "drain"}
      \/ "Started" \in gaveUp

Rest == /\ SessionInv /\ KnowsInv /\ DecidedInv /\ WaitInv
        /\ ActiveKeepsHold /\ ChargeIsFinal
IInv == Typed /\ Rest
-----------------------------------------------------------------------------
(* What the ways a run can move leave in it.                               *)

LEMMA AfterIs ==
  ASSUME NEW r \in Run
  PROVE  /\ AfterProject(r).step \in {"idle", "settle"}
         /\ AfterProject(r).step = "settle" =>
              r.event \in End /\ AfterProject(r).event = r.event
<1>1. CASE r.event = "Ended"
  <2>1. AfterProject(r) = [event |-> "Ended", step |-> "settle", try |-> 1, memo |-> {},
                           failed |-> "no"]
    BY <1>1 DEF AfterProject, Idle
  <2> QED
    BY <1>1, <2>1 DEF End
<1>2. CASE r.event = "CsmsEnd"
  BY <1>2 DEF AfterProject, End, Run
<1>3. CASE r.event \notin End
  BY <1>3 DEF AfterProject, Idle, End
<1> QED
  BY <1>1, <1>2, <1>3 DEF End

LEMMA ProjectedIs ==
  ASSUME Typed, NEW p \in Pods, Projected(p)
  PROVE  /\ run'[p].step \in {"idle", "settle"}
         /\ run'[p].step = "settle" =>
              run[p].event \in End /\ run'[p].event = run[p].event
<1>1. run'[p] = AfterProject(run[p]) /\ run[p] \in Run
  BY DEF Projected, Typed, TypeOK
<1> QED
  BY <1>1, AfterIs

LEMMA GoOnIs ==
  ASSUME Typed, NEW p \in Pods, NEW s, NEW m, GoOn(p, s, m)
  PROVE  /\ run'[p].step = s /\ run'[p].memo = run[p].memo \cup m
         /\ run'[p].event = run[p].event /\ run'[p].try = run[p].try
BY DEF GoOn, Typed, TypeOK, Run

LEMMA RestartIs ==
  ASSUME Typed, NEW p \in Pods, Restart(p)
  PROVE  /\ run'[p].event = run[p].event /\ run'[p].memo = run[p].memo
         /\ run'[p].try = run[p].try + 1 /\ run'[p].try > 1
         /\ run'[p].step = IF run[p].step = "settle" /\ run[p].event = "Ended"
                             THEN "settle" ELSE FirstStep(run[p].event)
         /\ gaveUp' = gaveUp
<1>1. run[p] \in Run
  BY DEF Typed, TypeOK
<1>2. /\ run'[p].event = run[p].event /\ run'[p].memo = run[p].memo
      /\ run'[p].try = run[p].try + 1
      /\ run'[p].step = IF run[p].step = "settle" /\ run[p].event = "Ended"
                          THEN "settle" ELSE FirstStep(run[p].event)
  BY <1>1 DEF Restart, Typed, TypeOK, Run
<1> QED
  BY <1>1, <1>2, BoundsAssumption DEF Restart, Run

LEMMA GiveUpIs ==
  ASSUME Typed, NEW p \in Pods, GiveUp(p)
  PROVE  /\ run'[p].step \in {"idle", "settle"}
         /\ run'[p].step = "settle" =>
              run'[p].event = "Ended" /\ "Ended" \in gaveUp' /\ run[p].event = "Ended"
         /\ gaveUp \subseteq gaveUp'
         /\ run[p].event = "Started" => "Started" \in gaveUp' \/ run[p].step = "settle"
<1>1. run[p] \in Run
  BY DEF Typed, TypeOK
<1>2. CASE run[p].step = "settle"
  BY <1>2 DEF GiveUp, Idle, Typed, TypeOK
<1>3. CASE run[p].step # "settle" /\ run[p].event = "CsmsEnd"
  BY <1>3 DEF GiveUp, Idle, Typed, TypeOK
<1>4. CASE run[p].step # "settle" /\ run[p].event # "CsmsEnd"
  <2>1. run'[p] = AfterProject(run[p])
    BY <1>4 DEF GiveUp, Typed, TypeOK
  <2>2. gaveUp' = gaveUp \cup ({"Started", "Ended"} \cap {run[p].event})
    BY <1>4 DEF GiveUp
  <2> QED
    BY <1>1, <1>4, <2>1, <2>2, AfterIs DEF End
<1> QED
  BY <1>2, <1>3, <1>4

LEMMA FailGateIs ==
  ASSUME Typed, NEW p \in Pods, NEW how, FailGate(p, how)
  PROVE  /\ run'[p].step = "drain" /\ run'[p].event = run[p].event
         /\ run'[p].memo = run[p].memo /\ run'[p].try = run[p].try
         /\ gaveUp' = gaveUp
BY DEF FailGate, Typed, TypeOK, Run
-----------------------------------------------------------------------------
(* One process: every step of a projection preserves the invariant.        *)

LEMMA ProjectRest ==
  ASSUME OneProcess, Typed, Rest, NEW p \in Pods, Project(p)
  PROVE  Rest'
<1> USE DEF Rest, SessionInv, KnowsInv, DecidedInv, WaitInv, ActiveKeepsHold,
            ChargeIsFinal, HasEnded, Ending
<1>0. /\ run[p] \in Run /\ Fits(run[p]) /\ session \in Session
      /\ Pods = {p}
  BY DEF Typed, TypeOK, StepInv, OneProcess
<1>1. CASE Take(p)
  <2>1. /\ run'[p].step \in {"insert", "find", "check"} /\ run'[p].memo = {}
    BY <1>1 DEF Take, FirstStep, Idle, Typed, TypeOK
  <2> QED
    BY <1>0, <1>1, <2>1 DEF Take
<1>2. CASE InsertSession(p)
  <2> USE ProjectedIs, GoOnIs
  <2> QED
    BY <1>0, <1>2 DEF InsertSession, Fits, Session
<1>3. CASE Resolve(p)
  BY <1>0, <1>3, GoOnIs DEF Resolve, Fits, End
<1>4. CASE Gate(p)
  <2>1. /\ run'[p].step = "drain" /\ run'[p].memo = run[p].memo \cup {"gate"}
        /\ run'[p].event = run[p].event /\ run[p].event = "Started"
    BY <1>0, <1>4, GoOnIs DEF Gate, Fits
  <2>2. CASE UNCHANGED session /\ hold' \in {hold, "open"} /\ (hold' # hold => hold = "none")
    BY <1>0, <1>4, <2>1, <2>2 DEF Gate, End
  <2>3. CASE /\ session.status = "active" /\ hold = "none" /\ hold' = hold
             /\ session' = [session EXCEPT !.status = "faulted", !.final = "Zero"]
    <3>1. session'.status = "faulted" /\ session'.final = "Zero"
      BY <1>0, <2>3 DEF Session
    <3> QED
      BY <1>0, <1>4, <2>1, <2>3, <3>1 DEF Gate, End
  <2> QED
    BY <1>4, <2>2, <2>3 DEF Gate
<1>5. CASE Drain(p)
  <2>1. /\ UNCHANGED <<session, rows, hold, unmarked>> /\ buffer'[p] = NoEvents
        /\ run[p].event = "Started" /\ session.status # "none"
    BY <1>0, <1>5 DEF Drain, Fits, Typed, TypeOK
  <2>2. CASE Projected(p) /\ UNCHANGED gaveUp
    BY <1>0, <2>1, <2>2, ProjectedIs DEF End
  <2>3. CASE Restart(p)
    <3>1. run'[p].step = "insert" /\ gaveUp' = gaveUp
      BY <1>5, <2>1, <2>3, RestartIs DEF FirstStep, Drain
    <3> QED
      BY <1>0, <2>1, <3>1
  <2>4. CASE GiveUp(p)
    BY <1>0, <2>1, <2>4, GiveUpIs
  <2> QED
    BY <1>5, <2>2, <2>3, <2>4 DEF Drain
<1>6. CASE Find(p)
  BY <1>0, <1>6, ProjectedIs, GoOnIs DEF Find, Fits, Buffer, End
<1>7. CASE CheckEnd(p)
  <2>0. /\ UNCHANGED <<session, hold, buffer, gaveUp, unmarked>> /\ run[p].event \in End
    BY <1>0, <1>7 DEF CheckEnd, Fits
  <2>1. CASE run' = [run EXCEPT ![p] = Idle] /\ rows' = rows
    <3>1. run'[p].step = "idle"
      BY <2>1, <1>0 DEF Idle, Typed, TypeOK
    <3> QED
      BY <1>0, <2>0, <2>1, <3>1 DEF End
  <2>2. CASE /\ Projected(p) /\ rows' = rows \cup {run[p].event}
             /\ run[p].event \in rows \/ IsLate
             /\ run[p].event = "CsmsEnd" => session.status = "active"
    <3>1. HasEnded /\ rows \cap End # {} /\ rows' \cap End # {}
      BY <2>0, <2>2 DEF IsLate
    <3>2. run[p].event = "CsmsEnd" => session.final \notin End
      BY <2>2 DEF End
    <3> QED
      BY <1>0, <2>0, <2>2, <3>1, <3>2, ProjectedIs DEF End
  <2>3. CASE /\ GoOn(p, "end", {"checked"}) /\ rows' = rows
             /\ "checked" \in run[p].memo \/ (run[p].event \notin rows /\ ~IsLate)
    <3>1. run'[p].step = "end" /\ run'[p].event = run[p].event /\ run'[p].try = run[p].try
      BY <2>3, GoOnIs
    <3>2. session.final \in End /\ ~unmarked =>
            run[p].event = session.final /\ run[p].try > 1
      BY <1>0, <1>7, <2>3 DEF IsLate, CheckEnd
    <3> QED
      BY <1>0, <2>0, <2>3, <3>1, <3>2 DEF End
  <2> QED
    BY <1>7, <2>1, <2>2, <2>3 DEF CheckEnd
<1>8. CASE EndSession(p)
  <2>0. /\ UNCHANGED <<rows, hold, gaveUp, unmarked>> /\ run[p].event \in End
        /\ run[p].step = "end"
    BY <1>0, <1>8 DEF EndSession, Fits
  <2>1. CASE session.status = "none" /\ Projected(p) /\ UNCHANGED session
    BY <1>0, <2>0, <2>1, ProjectedIs DEF End
  <2>2. CASE /\ session.status # "none" /\ GoOn(p, "row", {}) /\ UNCHANGED buffer
             /\ \/ session' = session /\ session.status = "faulted"
                \/ session' = [session EXCEPT !.status = "completed"]
    <3>1. session'.status \in {"completed", "faulted"} /\ session'.final = session.final
      BY <1>0, <2>2 DEF Session
    <3>2. session'.status = "faulted" <=> session'.final = "Zero"
      BY <1>0, <1>8, <2>2, <3>1 DEF Session, EndSession
    <3> QED
      BY <1>0, <2>0, <2>2, <3>1, <3>2, GoOnIs DEF End
  <2>3. CASE /\ GoOn(p, "row", {}) /\ UNCHANGED buffer
             /\ session' = [session EXCEPT !.status = "faulted", !.final = "Zero"]
             /\ session.status = "active" \/ (session.status = "completed" /\ run[p].try = 1)
    <3>1. session'.status = "faulted" /\ session'.final = "Zero"
      BY <1>0, <2>3 DEF Session
    <3>2. session.final \notin End \/ unmarked
      BY <1>0, <1>8, <2>3 DEF EndSession, Run
    <3>3. hold \in End => unmarked
      BY <3>2
    <3>4. run'[p].step = "row" /\ run'[p].event \in End
      BY <2>0, <2>3, GoOnIs
    <3>5. SessionInv' /\ KnowsInv'
      BY <1>0, <2>0, <2>3, <3>1, <3>4 DEF End
    <3>6. DecidedInv' /\ WaitInv' /\ ActiveKeepsHold' /\ ChargeIsFinal'
      BY <2>0, <3>1, <3>3 DEF End
    <3> QED
      BY <3>5, <3>6
  <2> QED
    BY <1>8, <2>1, <2>2, <2>3 DEF EndSession
<1>9. CASE InsertRow(p)
  BY <1>0, <1>9, ProjectedIs, GoOnIs DEF InsertRow, Fits, End
<1>10. CASE PriceEnd(p)
  BY <1>0, <1>10, ProjectedIs DEF PriceEnd, Fits, Session, End
<1>11. CASE Settle(p)
  BY <1>0, <1>11 DEF Settle, SettledHold, Idle, End
<1> QED
  BY <1>1, <1>2, <1>3, <1>4, <1>5, <1>6, <1>7, <1>8, <1>9, <1>10, <1>11 DEF Project

(* One process: so do the deliveries, the failures and the ends the CSMS   *)
(* makes.                                                                  *)
LEMMA OtherRest ==
  ASSUME OneProcess, Typed, Rest, [Next]_vars, ~(\E p \in Pods : Project(p))
  PROVE  Rest'
<1> USE DEF Rest, SessionInv, KnowsInv, DecidedInv, WaitInv, ActiveKeepsHold,
            ChargeIsFinal, HasEnded, Ending
<1>0. /\ session \in Session
      /\ \A p \in Pods : run[p] \in Run /\ Fits(run[p]) /\ Pods = {p}
  BY DEF Typed, TypeOK, StepInv, OneProcess
<1>1. ASSUME NEW p \in Pods, NEW e \in StationEvent, Deliver(p, e)
      PROVE  Rest'
  BY <1>1 DEF Deliver
<1>2. ASSUME NEW p \in Pods, NEW e \in StationEvent, Expire(p, e)
      PROVE  Rest'
  <2>1. buffer[p] # NoEvents
    BY <1>2 DEF Expire, NoEvents, Event
  <2> QED
    BY <1>0, <1>2, <2>1 DEF Expire
<1>3. ASSUME NEW p \in Pods, NEW e \in Event, Dispatch(p, e)
      PROVE  Rest'
  BY <1>3 DEF Dispatch
<1>4. ASSUME NEW p \in Pods, LoseConnection(p) \/ FailStatement(p)
      PROVE  Rest'
  <2>0. /\ UNCHANGED <<session, rows, hold, buffer, unmarked>>
        /\ run[p].step # "idle" /\ Pods = {p} /\ run[p] \in Run /\ Fits(run[p])
    BY <1>0, <1>4 DEF LoseConnection, FailStatement
  <2>1. CASE run[p].step = "gate" /\ \E how \in {"lost", "error"} : FailGate(p, how)
    BY <2>0, <2>1, FailGateIs DEF Fits
  <2>2. CASE Restart(p)
    <3>1. CASE run[p].event = "Started"
      <4>1. run'[p].step = "insert"
        BY <2>0, <2>2, <3>1, RestartIs DEF FirstStep
      <4> QED
        BY <2>0, <2>2, <3>1, <4>1, RestartIs DEF Fits, End
    <3>2. CASE run[p].event = "Updated"
      <4>1. run'[p].step = "find"
        BY <2>0, <2>2, <3>2, RestartIs DEF FirstStep
      <4> QED
        BY <2>0, <2>2, <3>2, <4>1, RestartIs DEF End
    <3>3. CASE run[p].event \in End /\ run'[p].step = "settle"
      BY <2>0, <2>2, <3>3, RestartIs DEF Fits, FirstStep, End
    <3>4. CASE run[p].event \in End /\ run'[p].step # "settle"
      <4>1. run'[p].step = "check" /\ ~(run[p].step = "settle" /\ run[p].event = "Ended")
        BY <2>0, <2>2, <3>4, RestartIs DEF FirstStep, End
      <4>2. Ending(run'[p]) => Ending(run[p]) \/ (run[p].step = "settle" /\ run[p].event = "CsmsEnd")
        BY <2>0, <2>2, <3>4, <4>1, RestartIs DEF Fits, End, Run, Step
      <4> QED
        BY <2>0, <2>2, <4>1, <4>2, RestartIs
    <3> QED
      BY <2>0, <3>1, <3>2, <3>3, <3>4 DEF Run, Event, StationEvent, End
  <2>3. CASE GiveUp(p)
    BY <2>0, <2>3, GiveUpIs DEF Fits, End
  <2> QED
    BY <1>4, <2>1, <2>2, <2>3 DEF LoseConnection, FailStatement, FailGate
<1>5. ASSUME NEW p \in Pods, LoseRow(p)
      PROVE  Rest'
  <2>1. /\ run'[p].step = "price" /\ run'[p].event = run[p].event
        /\ run'[p].try = run[p].try
    BY <1>5, GoOnIs DEF LoseRow
  <2>2. /\ UNCHANGED <<session, rows, hold, buffer, gaveUp>>
        /\ run[p].step = "row" /\ run[p].event \in End /\ Pods = {p}
        /\ unmarked' = (unmarked \/ rows \cap End = {})
    BY <1>0, <1>5 DEF LoseRow
  <2>3. ~unmarked' => ~unmarked
    BY <2>2
  <2>4. SessionInv' /\ KnowsInv'
    BY <2>1, <2>2
  <2>5. DecidedInv' /\ ChargeIsFinal'
    BY <2>1, <2>2, <2>3
  <2>6. WaitInv' /\ ActiveKeepsHold'
    BY <2>1, <2>2
  <2> QED
    BY <2>4, <2>5, <2>6
<1>6. ASSUME NEW p \in Pods, Crash(p)
      PROVE  Rest'
  <2>1. run'[p].step = "idle" /\ buffer'[p] = NoEvents
    BY <1>6 DEF Crash, Idle, Typed, TypeOK
  <2> QED
    BY <1>0, <1>6, <2>1 DEF Crash
<1>7. ASSUME NEW p \in Pods, Claim(p)
      PROVE  Rest'
  <2>1. session'.status = session.status /\ session'.final = session.final
    BY <1>0, <1>7 DEF Claim, Session
  <2> QED
    BY <1>7, <2>1 DEF Claim
<1>8. CASE RequestEnd \/ LeaseEnds
  <2>1. session'.status = session.status /\ session'.final = session.final
    BY <1>0, <1>8 DEF RequestEnd, LeaseEnds, Session
  <2> QED
    BY <1>8, <2>1 DEF RequestEnd, LeaseEnds
<1>9. CASE GiveUpEnd \/ FaultStale
  <2>1. FaultUnbilled /\ session.status = "active"
    BY <1>9 DEF GiveUpEnd, FaultStale
  <2>2. session'.status = "faulted" /\ session'.final = "Zero"
    BY <1>0, <2>1 DEF FaultUnbilled, Session
  <2> QED
    BY <1>0, <2>1, <2>2 DEF FaultUnbilled, End
<1>10. CASE UNCHANGED vars
  BY <1>10 DEF vars
<1> QED
  BY <1>1, <1>2, <1>3, <1>4, <1>5, <1>6, <1>7, <1>8, <1>9, <1>10
  DEF Next, AnswerRequest, Supersede

LEMMA InitRest == Init => Rest
BY DEF Init, Rest, SessionInv, KnowsInv, DecidedInv, WaitInv, ActiveKeepsHold,
       ChargeIsFinal, HasEnded, Ending, NoSession, Idle, End

LEMMA Inductive ==
  ASSUME OneProcess, IInv, [Next]_vars
  PROVE  IInv'
BY NextTypes, ProjectRest, OtherRest DEF IInv

(* Everything the events of one process keep true of the session, its      *)
(* buffer and its runs; the four theorems at the end follow from it.       *)
THEOREM OneProcessInvariant == OneProcess => (Spec => []IInv)
<1> SUFFICES ASSUME OneProcess
             PROVE  Spec => []IInv
  OBVIOUS
<1>1. Init => IInv
  BY InitTypes, InitRest DEF IInv
<1>2. IInv /\ [Next]_vars => IInv'
  BY Inductive
<1> QED
  BY <1>1, <1>2, PTL DEF Spec
-----------------------------------------------------------------------------
(* The promise about the money, step by step.                              *)

(* A step that leaves status, bill and hold alone stutters, or loses the   *)
(* mark of the end.                                                        *)
LEMMA Stutters ==
  ASSUME session'.status = session.status, session'.final = session.final,
         hold' = hold, unmarked' \in {unmarked, TRUE}
  PROVE  [Promise!Next]_(Promise!vars)
BY DEF Promise!Next, Promise!vars, Promise!LoseMark

(* An active session is faulted without a bill. *)
LEMMA Faults ==
  ASSUME session.status = "active", session'.status = "faulted", session'.final = "Zero",
         hold' = hold \/ (hold = "open" /\ hold' = "released"), unmarked' = unmarked
  PROVE  Promise!Next
BY DEF Promise!Next, Promise!Fault

(* The six steps of a projection that reach the money: the insert of the   *)
(* session opens it, the gate authorises a hold or faults the session, its *)
(* end completes or faults it, the price bills it, and the settlement      *)
(* charges the bill or releases the hold.                                  *)
LEMMA ProjectRefines ==
  ASSUME OneProcess, IInv, NEW p \in Pods, Project(p)
  PROVE  [Promise!Next]_(Promise!vars)
<1>0. /\ run[p] \in Run /\ Fits(run[p]) /\ session \in Session
      /\ Pods = {p} /\ Rest
  BY DEF IInv, Typed, TypeOK, StepInv, OneProcess
<1>1. CASE Take(p) \/ Resolve(p) \/ Drain(p) \/ Find(p) \/ CheckEnd(p) \/ InsertRow(p)
  BY <1>1, Stutters DEF Take, Resolve, Drain, Find, CheckEnd, InsertRow
<1>2. CASE InsertSession(p)
  <2>1. CASE UNCHANGED session
    BY <1>2, <2>1, Stutters DEF InsertSession
  <2>2. CASE session.status = "none" /\ session' = [session EXCEPT !.status = "active"]
    <3>1. session'.status = "active" /\ session'.final = session.final
      BY <1>0, <2>2 DEF Session
    <3>2. Promise!Open
      BY <1>2, <2>2, <3>1 DEF InsertSession, Promise!Open
    <3> QED
      BY <3>2 DEF Promise!Next
  <2> QED
    BY <1>2, <2>1, <2>2 DEF InsertSession
<1>3. CASE Gate(p)
  <2>1. CASE UNCHANGED session /\ hold' = hold
    BY <1>3, <2>1, Stutters DEF Gate
  <2>2. CASE UNCHANGED session /\ hold = "none" /\ hold' = "open"
    <3>1. session.status # "none"
      BY <1>0, <1>3 DEF Gate, Rest, KnowsInv
    <3>2. Promise!Authorize
      BY <1>3, <2>2, <3>1 DEF Gate, Promise!Authorize
    <3> QED
      BY <3>2 DEF Promise!Next
  <2>3. CASE /\ session.status = "active" /\ hold' = hold
             /\ session' = [session EXCEPT !.status = "faulted", !.final = "Zero"]
    <3>1. session'.status = "faulted" /\ session'.final = "Zero"
      BY <1>0, <2>3 DEF Session
    <3> QED
      BY <1>3, <2>3, <3>1, Faults DEF Gate
  <2> QED
    BY <1>3, <2>1, <2>2, <2>3 DEF Gate
<1>4. CASE EndSession(p)
  <2>0. run[p].step = "end" /\ UNCHANGED <<hold, unmarked>>
    BY <1>4 DEF EndSession
  <2>1. CASE UNCHANGED session
    BY <2>0, <2>1, Stutters
  <2>2. CASE /\ session.status \in {"active", "completed"}
             /\ session' = [session EXCEPT !.status = "completed"]
    <3>1. session'.status = "completed" /\ session'.final = session.final
      BY <1>0, <2>2 DEF Session
    <3>2. CASE session.status = "active"
      BY <2>0, <3>1, <3>2 DEF Promise!Complete, Promise!Next
    <3>3. CASE session.status = "completed"
      BY <2>0, <3>1, <3>3, Stutters
    <3> QED
      BY <2>2, <3>2, <3>3
  <2>3. CASE /\ session' = [session EXCEPT !.status = "faulted", !.final = "Zero"]
             /\ session.status = "active" \/ (session.status = "completed" /\ run[p].try = 1)
    <3>1. session'.status = "faulted" /\ session'.final = "Zero"
      BY <1>0, <2>3 DEF Session
    <3>2. session.final \notin End \/ unmarked
      BY <1>0, <2>0, <2>3 DEF Run, Rest, SessionInv, DecidedInv, Ending
    <3>3. CASE session.status = "active"
      BY <2>0, <3>1, <3>3, Faults
    <3>4. CASE session.status = "completed" /\ session.final \notin End
      <4>1. session.final = "None"
        BY <1>0, <3>4 DEF Session, Rest, SessionInv
      <4> QED
        BY <2>0, <3>1, <3>4, <4>1 DEF Promise!Fault, Promise!Next
    <3>5. CASE session.status = "completed" /\ unmarked
      BY <2>0, <3>1, <3>5 DEF Promise!BillAgain, Promise!Next
    <3> QED
      BY <2>3, <3>2, <3>3, <3>4, <3>5
  <2> QED
    BY <1>0, <1>4, <2>1, <2>2, <2>3 DEF EndSession, Session
<1>5. CASE PriceEnd(p)
  <2>0. /\ run[p].step = "price" /\ run[p].event \in End /\ UNCHANGED <<hold, unmarked>>
        /\ session.status \in {"completed", "faulted"}
    BY <1>0, <1>5 DEF PriceEnd, Fits, Rest, KnowsInv, HasEnded
  <2>1. CASE session.status = "faulted"
    BY <1>5, <2>0, <2>1, Stutters DEF PriceEnd
  <2>2. CASE session.status = "completed"
    <3>1. session'.status = "completed" /\ session'.final = run[p].event
      BY <1>0, <1>5, <2>2 DEF PriceEnd, Session
    <3>2. CASE session.final \notin End
      <4>1. session.final = "None"
        BY <1>0, <2>2, <3>2 DEF Session, Rest, SessionInv
      <4>2. Promise!Bill(run[p].event)
        BY <2>0, <2>2, <3>1, <4>1 DEF Promise!Bill
      <4> QED
        BY <2>0, <4>2 DEF Promise!Next
    <3>3. CASE unmarked
      BY <2>0, <2>2, <3>1, <3>3 DEF Promise!BillAgain, Promise!Next
    <3>4. CASE session.final \in End /\ ~unmarked
      <4>1. run[p].event = session.final
        BY <1>0, <2>0, <3>4 DEF Rest, DecidedInv, Ending
      <4> QED
        BY <2>0, <2>2, <3>1, <4>1, Stutters
    <3> QED
      BY <3>2, <3>3, <3>4
  <2> QED
    BY <2>0, <2>1, <2>2
<1>6. CASE Settle(p)
  <2>1. CASE hold # "open"
    BY <1>6, <2>1, Stutters DEF Settle, SettledHold
  <2>2. CASE hold = "open" /\ session.final \in End
    BY <1>6, <2>2 DEF Settle, SettledHold, Promise!Charge, Promise!Next
  <2>3. CASE hold = "open" /\ session.final \notin End
    BY <1>6, <2>3 DEF Settle, SettledHold, Promise!Release, Promise!Next
  <2> QED
    BY <2>1, <2>2, <2>3
<1> QED
  BY <1>1, <1>2, <1>3, <1>4, <1>5, <1>6 DEF Project

(* Of the other steps only a lost row and the two ends without a           *)
(* projection reach the money.                                             *)
LEMMA OtherRefines ==
  ASSUME IInv, [Next]_vars, ~(\E p \in Pods : Project(p))
  PROVE  [Promise!Next]_(Promise!vars)
<1>0. session \in Session
  BY DEF IInv, Typed, TypeOK
<1>1. ASSUME NEW p \in Pods,
             \/ \E e \in StationEvent : Deliver(p, e) \/ Expire(p, e)
             \/ \E e \in Event : Dispatch(p, e)
             \/ LoseConnection(p) \/ FailStatement(p) \/ LoseRow(p) \/ Crash(p)
      PROVE  [Promise!Next]_(Promise!vars)
  <2>1. /\ UNCHANGED <<session, hold>> /\ unmarked' \in {unmarked, TRUE}
    BY <1>1 DEF IInv, Typed, TypeOK, Deliver, Expire, Dispatch, LoseConnection, FailStatement,
                LoseRow, Crash
  <2> QED
    BY <2>1, Stutters
<1>2. ASSUME NEW p \in Pods, Claim(p)
      PROVE  [Promise!Next]_(Promise!vars)
  <2>1. session'.status = session.status /\ session'.final = session.final
    BY <1>0, <1>2 DEF Claim, Session
  <2> QED
    BY <1>2, <2>1, Stutters DEF Claim
<1>3. CASE RequestEnd \/ LeaseEnds
  <2>1. session'.status = session.status /\ session'.final = session.final
    BY <1>0, <1>3 DEF RequestEnd, LeaseEnds, Session
  <2> QED
    BY <1>3, <2>1, Stutters DEF RequestEnd, LeaseEnds
<1>4. CASE GiveUpEnd \/ FaultStale
  <2>1. FaultUnbilled /\ session.status = "active"
    BY <1>4 DEF GiveUpEnd, FaultStale
  <2>2. session'.status = "faulted" /\ session'.final = "Zero"
    BY <1>0, <2>1 DEF FaultUnbilled, Session
  <2> QED
    BY <2>1, <2>2, Faults DEF FaultUnbilled
<1>5. CASE UNCHANGED vars
  BY <1>5, Stutters DEF vars
<1> QED
  BY <1>1, <1>2, <1>3, <1>4, <1>5 DEF Next, AnswerRequest, Supersede
-----------------------------------------------------------------------------
(* What follows.                                                           *)

(* The promise of BilledSession: a session leaves `active` once, one end   *)
(* decides its bill, the bill never changes (unless the row that marks the *)
(* end was lost), and its hold is captured for nothing but that bill.      *)
THEOREM Implementation == OneProcess => (Spec => ImplementsBilledSession)
<1> SUFFICES ASSUME OneProcess
             PROVE  Spec => ImplementsBilledSession
  OBVIOUS
<1>1. Init => Promise!Init
  BY DEF Init, NoSession, Promise!Init
<1>2. IInv /\ [Next]_vars => [Promise!Next]_(Promise!vars)
  BY ProjectRefines, OtherRefines
<1> QED
  BY <1>1, <1>2, OneProcessInvariant, PTL DEF Spec, ImplementsBilledSession, Promise!Spec

(* A captured hold was captured for the final cost of the session, however *)
(* the events were ordered, resent, buffered, rerun or lost in a crash.    *)
THEOREM FinalCharge == OneProcess => (Spec => []ChargeIsFinal)
<1>1. IInv => ChargeIsFinal
  BY DEF IInv, Rest
<1> QED
  BY <1>1, OneProcessInvariant, PTL

(* The hold of a session that still charges is settled only after its      *)
(* Ended was given up.                                                     *)
THEOREM ActiveHold == OneProcess => (Spec => []ActiveKeepsHold)
<1>1. IInv => ActiveKeepsHold
  BY DEF IInv, Rest
<1> QED
  BY <1>1, OneProcessInvariant, PTL

(* An event waits in the buffer of an active session only while the run    *)
(* that opened the session has yet to drain it, or was given up.           *)
THEOREM BufferWaits == OneProcess => (Spec => []BufferedWaitForStarted)
<1>1. IInv => BufferedWaitForStarted
  BY DEF IInv, Rest, WaitInv, BufferedWaitForStarted
<1> QED
  BY <1>1, OneProcessInvariant, PTL
================================================================================
