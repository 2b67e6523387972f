-------------------------- MODULE SessionProjection --------------------------
(***************************************************************************)
(* One charging transaction in the event projections of the OCPP server:   *)
(* its TransactionEvents (Started, Updated, Ended) and the ends the CSMS   *)
(* makes itself, from publish to settlement.                               *)
(*                                                                         *)
(*   events.ts            publish archives an event, then queues it        *)
(*   projection-queue.ts  the lane of the transaction, one per process     *)
(*   projection-retry.ts  a run that lost its database connection is       *)
(*                        repeated; once/memo steps keep their result      *)
(*   transaction-buffer.ts  events that came before their Started          *)
(*   transaction-projector.ts, settlement.ts, csms-session-end.ts          *)
(*                                                                         *)
(* Every step that awaits the database is an action of its own, so other   *)
(* processes, the sweeps and a crash come in between.  The cost of an end  *)
(* is represented by the end it was computed from: the station's own Ended *)
(* and the end of the CSMS carry different times and energies.             *)
(***************************************************************************)
EXTENDS Naturals, Sequences, FiniteSets

CONSTANTS
  Pods,            \* OCPP server processes the transaction may reach
  MaxResends,      \* bound: deliveries beyond the first one of each event
  MaxTries,        \* runs of a projection (PROJECTION_RETRY_DEFAULTS: 3)
  MaxEndAttempts,  \* SESSION_END_MAX_ATTEMPTS
  MaxFaults,       \* bound: lost connections and failed statements
  MaxCrashes       \* bound: crashes of a process

ASSUME BoundsAssumption ==
  /\ MaxResends \in Nat /\ MaxFaults \in Nat /\ MaxCrashes \in Nat
  /\ MaxTries \in Nat \ {0} /\ MaxEndAttempts \in Nat \ {0}

StationEvent == {"Started", "Updated", "Ended"}
End          == {"Ended", "CsmsEnd"}
Event        == StationEvent \cup {"CsmsEnd"}
Memo         == {"checked", "context", "gate"}
Step         == {"idle", "insert", "context", "gate", "drain", "find",
                 "check", "end", "row", "price", "settle"}

VARIABLES
  session,     \* the charging_sessions row of the transaction
  rows,        \* its transaction_events rows, by the event they record
  hold,        \* the payment record: none, open, released, or captured for an end
  sent,        \* how often the station has delivered each event
  publishing,  \* per process: events being archived, not yet dispatched
  lane,        \* per process: the queued events of the transaction
  run,         \* per process: the projection at the head of its lane
  buffer,      \* per process: events that came before the Started
  dropped,     \* history: the buffer dropped the Ended (too old, or full)
  gaveUp,      \* history: of Started and Ended, those whose projection was given up
  unmarked,    \* history: the row of an end was lost, and nothing else marks it
  faults, crashes

vars == <<session, rows, hold, sent, publishing, lane, run, buffer, dropped,
          gaveUp, unmarked, faults, crashes>>

-----------------------------------------------------------------------------
NoSession == [status |-> "none", final |-> "None", endRequested |-> FALSE,
              lease |-> FALSE, attempts |-> 0]
Idle      == [event |-> "Started", step |-> "idle", try |-> 1, memo |-> {},
              failed |-> "no"]
NoEvents  == [e \in Event |-> 0]

Session == [status : {"none", "active", "completed", "faulted"},
            final : {"None", "Zero"} \cup End,
            endRequested : BOOLEAN, lease : BOOLEAN, attempts : 0 .. MaxEndAttempts]
Run     == [event : Event, step : Step, try : 1 .. MaxTries,
            memo : SUBSET Memo, failed : {"no", "lost", "error"}]

(* One type invariant: the row, the lanes and the buffers of every process. *)
TypeOK ==
  /\ session \in Session
  /\ rows \subseteq Event
  /\ hold \in {"none", "open", "released"} \cup End
  /\ sent \in [StationEvent -> Nat]
  /\ publishing \in [Pods -> [Event -> Nat]]
  /\ lane \in [Pods -> Seq(Event)]
  /\ run \in [Pods -> Run]
  /\ buffer \in [Pods -> [Event -> Nat]]
  /\ dropped \in BOOLEAN
  /\ gaveUp \subseteq {"Started", "Ended"} /\ unmarked \in BOOLEAN
  /\ faults \in 0 .. MaxFaults /\ crashes \in 0 .. MaxCrashes

Init ==
  /\ session = NoSession /\ rows = {} /\ hold = "none"
  /\ sent = [e \in StationEvent |-> 0]
  /\ publishing = [p \in Pods |-> NoEvents]
  /\ lane = [p \in Pods |-> <<>>]
  /\ run = [p \in Pods |-> Idle]
  /\ buffer = [p \in Pods |-> NoEvents]
  /\ dropped = FALSE /\ gaveUp = {} /\ unmarked = FALSE /\ faults = 0 /\ crashes = 0

-----------------------------------------------------------------------------
(* Publishing and the lane.                                                *)

Resends == sent["Started"] + sent["Updated"] + sent["Ended"]
             - Cardinality({e \in StationEvent : sent[e] > 0})

(* The station delivers an event, or delivers it again after a lost        *)
(* response.  Handlers of one connection overlap and each archive insert   *)
(* has its own connection, so any order is possible: the delivery, the     *)
(* handler and the archive are one step, as late as the lane sees it.      *)
Deliver(p, e) ==
  /\ sent[e] > 0 => Resends < MaxResends
  /\ sent' = [sent EXCEPT ![e] = @ + 1]
  /\ lane' = [lane EXCEPT ![p] = Append(@, e)]
  /\ UNCHANGED <<session, rows, hold, publishing, run, buffer, dropped, gaveUp,
                 unmarked, faults, crashes>>

(* The archive insert of an event this process published itself (drained   *)
(* from the buffer, or an end of the CSMS) has ended: it is queued.        *)
Dispatch(p, e) ==
  /\ publishing[p][e] > 0
  /\ publishing' = [publishing EXCEPT ![p][e] = @ - 1]
  /\ lane' = [lane EXCEPT ![p] = Append(@, e)]
  /\ UNCHANGED <<session, rows, hold, sent, run, buffer, dropped, gaveUp,
                 unmarked, faults, crashes>>

(* Mutant: the settlement of an Ended is queued before its projection. *)
SettleFirst(e) == CASE e = "Started" -> "insert"
                    [] e = "Updated" -> "find"
                    [] e = "Ended"   -> "settle"
                    [] OTHER         -> "check"

FirstStep(e) == CASE e = "Started" -> "insert"
                  [] e = "Updated" -> "find"
                  [] OTHER         -> "check"

Take(p) ==
  /\ run[p].step = "idle" /\ lane[p] # <<>>
  /\ run' = [run EXCEPT ![p] = [Idle EXCEPT !.event = Head(lane[p]),
                                            !.step = FirstStep(Head(lane[p]))]]
  /\ lane' = [lane EXCEPT ![p] = Tail(@)]
  /\ UNCHANGED <<session, rows, hold, sent, publishing, buffer, dropped,
                 gaveUp, unmarked, faults, crashes>>

(* The projection of process p goes on at step s, remembering m. *)
GoOn(p, s, m) ==
  run' = [run EXCEPT ![p].step = s, ![p].memo = @ \cup m]

(* The event is projected.  An Ended of the station then runs its second   *)
(* subscriber, the settlement, as a work and with runs of its own; an end  *)
(* of the CSMS settles in the same run.                                    *)
AfterProject(r) ==
  CASE r.event = "Ended"   -> [Idle EXCEPT !.event = "Ended", !.step = "settle"]
    [] r.event = "CsmsEnd" -> [r EXCEPT !.step = "settle"]
    [] OTHER               -> Idle

Projected(p) == run' = [run EXCEPT ![p] = AfterProject(@)]

-----------------------------------------------------------------------------
(* Started: projectStarted.                                                *)

(* INSERT .. ON CONFLICT: the session is opened, or the one that holds the *)
(* transaction is read.  A resent Started and a Started that finds an      *)
(* ended session change nothing and do not drain the buffer.               *)
InsertSession(p) ==
  LET resent  == "checked" \notin run[p].memo /\ "Started" \in rows
      ended   == session.status \notin {"none", "active"}
  IN /\ run[p].step = "insert"
     /\ IF session.status = "none"
          THEN session' = [session EXCEPT !.status = "active"]
          ELSE UNCHANGED session
     /\ IF resent \/ ended THEN Projected(p) ELSE GoOn(p, "context", {"checked"})
     /\ UNCHANGED <<rows, hold, sent, publishing, lane, buffer, dropped,
                    gaveUp, unmarked, faults, crashes>>

(* resolveStartedSession: the event row and the tariff snapshot.  An       *)
(* interrupted row insert is warned about and may have left no row.        *)
Resolve(p) ==
  /\ run[p].step = "context"
  /\ IF "context" \in run[p].memo THEN UNCHANGED rows
                                  ELSE rows' \in {rows, rows \cup {"Started"}}
  /\ GoOn(p, "gate", {"context"})
  /\ UNCHANGED <<session, hold, sent, publishing, lane, buffer, dropped,
                 gaveUp, unmarked, faults, crashes>>

(* runPaymentGate: the start is allowed, with a hold (one key per session) *)
(* or without one, or the session is stopped: faulted and not billed while *)
(* it is active.                                                           *)
Gate(p) ==
  /\ run[p].step = "gate"
  /\ IF "gate" \in run[p].memo
       THEN UNCHANGED <<session, hold>>
       ELSE \/ /\ hold' \in {hold, IF hold = "none" THEN "open" ELSE hold}
               /\ UNCHANGED session
            \/ /\ session.status = "active" /\ hold = "none"
               /\ session' = [session EXCEPT !.status = "faulted", !.final = "Zero"]
               /\ UNCHANGED hold
  /\ GoOn(p, "drain", {"gate"})
  /\ UNCHANGED <<rows, sent, publishing, lane, buffer, dropped, gaveUp,
                 unmarked, faults, crashes>>

(* The run of process p failed: it starts again from its first step, with  *)
(* what once and memo kept, or it is given up.                             *)
Restart(p) ==
  /\ run' = [run EXCEPT ![p].try = @ + 1, ![p].failed = "no",
       ![p].step = IF run[p].step = "settle" /\ run[p].event = "Ended"
                     THEN "settle" ELSE FirstStep(run[p].event)]
  /\ UNCHANGED gaveUp

GiveUp(p) ==
  IF run[p].step = "settle"
    THEN run' = [run EXCEPT ![p] = Idle] /\ UNCHANGED gaveUp
    ELSE /\ gaveUp' = gaveUp \cup ({"Started", "Ended"} \cap {run[p].event})
         /\ run' = [run EXCEPT ![p] = IF @.event = "CsmsEnd" THEN Idle
                                      ELSE AfterProject(@)]

(* Mutant: what the drain takes from the buffer is not published again. *)
DrainToNowhere(p) ==
  /\ run[p].step = "drain"
  /\ buffer' = [buffer EXCEPT ![p] = NoEvents]
  /\ CASE run[p].failed = "no" -> Projected(p) /\ UNCHANGED gaveUp
       [] run[p].failed = "lost" /\ run[p].try < MaxTries -> Restart(p)
       [] OTHER -> GiveUp(p)
  /\ UNCHANGED <<session, rows, hold, sent, publishing, lane, dropped,
                 unmarked, faults, crashes>>

(* The end of the Started step: the buffered events of the transaction are *)
(* published again.  A gate failure, kept until here, is thrown now.       *)
Drain(p) ==
  /\ run[p].step = "drain"
  /\ publishing' = [publishing EXCEPT ![p] = [e \in Event |-> @[e] + buffer[p][e]]]
  /\ buffer' = [buffer EXCEPT ![p] = NoEvents]
  /\ CASE run[p].failed = "no" -> Projected(p) /\ UNCHANGED gaveUp
       [] run[p].failed = "lost" /\ run[p].try < MaxTries -> Restart(p)
       [] OTHER -> GiveUp(p)
  /\ UNCHANGED <<session, rows, hold, sent, lane, dropped, unmarked, faults,
                 crashes>>

-----------------------------------------------------------------------------
(* TransactionBuffer.                                                      *)

(* add: the event waits for its Started; or the buffer, shared by all      *)
(* transactions, is full and the event is dropped.                         *)
Buffer(p) ==
  LET e == run[p].event
  IN \/ /\ buffer' = [buffer EXCEPT ![p][e] = @ + 1]
        /\ UNCHANGED dropped
     \/ dropped' = (dropped \/ e = "Ended") /\ UNCHANGED buffer

(* The time to live of a buffered event is over: the cleanup timer, or the *)
(* drain if it comes first, drops it.                                      *)
Expire(p, e) ==
  /\ buffer[p][e] > 0
  /\ buffer' = [buffer EXCEPT ![p][e] = @ - 1]
  /\ dropped' = (dropped \/ e = "Ended")
  /\ UNCHANGED <<session, rows, hold, sent, publishing, lane, run, gaveUp,
                 unmarked, faults, crashes>>

-----------------------------------------------------------------------------
(* Updated: projectUpdated.                                                *)

(* Mutant: an Updated is buffered until the Started has its event row. *)
FindByRow(p) ==
  /\ run[p].step = "find"
  /\ IF "Started" \notin rows
       THEN Buffer(p) /\ Projected(p)
       ELSE /\ UNCHANGED <<buffer, dropped>>
            /\ IF "checked" \notin run[p].memo /\ "Updated" \in rows
                 THEN Projected(p) ELSE GoOn(p, "row", {"checked"})
  /\ UNCHANGED <<session, rows, hold, sent, publishing, lane, gaveUp, unmarked,
                 faults, crashes>>

Find(p) ==
  /\ run[p].step = "find"
  /\ IF session.status = "none"
       THEN Buffer(p) /\ Projected(p)
       ELSE /\ UNCHANGED <<buffer, dropped>>
            /\ IF "checked" \notin run[p].memo /\ "Updated" \in rows
                 THEN Projected(p) ELSE GoOn(p, "row", {"checked"})
  /\ UNCHANGED <<session, rows, hold, sent, publishing, lane, gaveUp, unmarked,
                 faults, crashes>>

-----------------------------------------------------------------------------
(* Ended, and the end the CSMS makes: projectEnded, endByCsms.             *)

(* Mutant: an end is late only when it is the same end. *)
LateIsResent == FALSE

(* recordLateEnded: the session already ended through another end. *)
IsLate == session.status \in {"completed", "faulted"} /\ rows \cap End # {}

(* The checks before an end, kept for a rerun: an end of the CSMS needs an *)
(* active session; a resent end is skipped; of a late end only the row is  *)
(* written.                                                                *)
CheckEnd(p) ==
  LET e     == run[p].event
      first == "checked" \notin run[p].memo
      stop  == first /\ e = "CsmsEnd" /\ session.status # "active"
      past  == first /\ ~stop /\ (e \in rows \/ IsLate)
  IN /\ run[p].step = "check"
     /\ \/ stop /\ run' = [run EXCEPT ![p] = Idle]
        \/ past /\ Projected(p)
        \/ ~stop /\ ~past /\ GoOn(p, "end", {"checked"})
     /\ rows' = IF past THEN rows \cup {e} ELSE rows
     /\ UNCHANGED <<session, hold, sent, publishing, lane, buffer, dropped,
                    gaveUp, unmarked, faults, crashes>>

(* Mutant: the end of a faulted session completes it. *)
EndOverwrites(p) ==
  /\ run[p].step = "end"
  /\ IF session.status = "none"
       THEN Buffer(p) /\ Projected(p) /\ UNCHANGED session
       ELSE /\ session' = [session EXCEPT !.status = "completed"]
            /\ GoOn(p, "row", {})
            /\ UNCHANGED <<buffer, dropped>>
  /\ UNCHANGED <<rows, hold, sent, publishing, lane, gaveUp, unmarked, faults,
                 crashes>>

(* The UPDATE of the end keeps a faulted status.  It has no other guard.   *)
(* An end on a timeout without energy, or after a failed payment, makes    *)
(* the session faulted and unbilled, also one that another end completed   *)
(* (a rerun decides as its first run did).  Without a session the event is *)
(* buffered until its Started.                                             *)
EndSession(p) ==
  /\ run[p].step = "end"
  /\ IF session.status = "none"
       THEN Buffer(p) /\ Projected(p) /\ UNCHANGED session
       ELSE /\ \/ session' = IF session.status = "faulted" THEN session
                             ELSE [session EXCEPT !.status = "completed"]
               \/ /\ \/ session.status = "active"
                     \/ session.status = "completed" /\ run[p].try = 1
                  /\ session' = [session EXCEPT !.status = "faulted", !.final = "Zero"]
            /\ GoOn(p, "row", {})
            /\ UNCHANGED <<buffer, dropped>>
  /\ UNCHANGED <<rows, hold, sent, publishing, lane, gaveUp, unmarked, faults,
                 crashes>>

(* The transaction_events row of an Updated or an end, inserted once.  The *)
(* insert of an Updated may be interrupted, which is only warned about.    *)
InsertRow(p) ==
  LET e == run[p].event
  IN /\ run[p].step = "row"
     /\ \/ rows' = rows \cup {e}
        \/ e = "Updated" /\ UNCHANGED rows
     /\ IF e = "Updated" THEN Projected(p) ELSE GoOn(p, "price", {})
     /\ UNCHANGED <<session, hold, sent, publishing, lane, buffer, dropped,
                    gaveUp, unmarked, faults, crashes>>

(* storeFinalCost: the cost of this end becomes the final cost, unless the *)
(* session was stopped unbilled.                                           *)
PriceEnd(p) ==
  /\ run[p].step = "price"
  /\ session' = IF session.status = "faulted" THEN session
                ELSE [session EXCEPT !.final = run[p].event]
  /\ Projected(p)
  /\ UNCHANGED <<rows, hold, sent, publishing, lane, buffer, dropped, gaveUp,
                 unmarked, faults, crashes>>

(* The hold after a settlement that found it as it is now: captured for    *)
(* the final cost, released when there is none.                            *)
SettledHold == IF hold # "open" THEN hold
               ELSE IF session.final \in End THEN session.final ELSE "released"

(* settleTransactionEnded: an unknown session has nothing to settle; the   *)
(* status of the session is not looked at.                                 *)
Settle(p) ==
  /\ run[p].step = "settle"
  /\ hold' = SettledHold
  /\ run' = [run EXCEPT ![p] = Idle]
  /\ UNCHANGED <<session, rows, sent, publishing, lane, buffer, dropped,
                 gaveUp, unmarked, faults, crashes>>

-----------------------------------------------------------------------------
(* Failures.                                                               *)

(* A statement of the run loses its connection: the run starts again, or   *)
(* was the last one.  A gate failure is kept until the buffer is drained.  *)
LoseConnection(p) ==
  /\ run[p].step \notin {"idle", "drain"} /\ faults < MaxFaults
  /\ faults' = faults + 1
  /\ CASE run[p].step = "gate" ->
            run' = [run EXCEPT ![p].step = "drain", ![p].failed = "lost"]
            /\ UNCHANGED gaveUp
       [] run[p].step # "gate" /\ run[p].try < MaxTries -> Restart(p)
       [] OTHER -> GiveUp(p)
  /\ UNCHANGED <<session, rows, hold, sent, publishing, lane, buffer, dropped,
                 unmarked, crashes>>

(* A statement fails for another reason: the work is given up at once, and *)
(* the lane goes on with the next one.                                     *)
FailStatement(p) ==
  /\ run[p].step \notin {"idle", "drain"} /\ faults < MaxFaults
  /\ faults' = faults + 1
  /\ IF run[p].step = "gate"
       THEN /\ run' = [run EXCEPT ![p].step = "drain", ![p].failed = "error"]
            /\ UNCHANGED gaveUp
       ELSE GiveUp(p)
  /\ UNCHANGED <<session, rows, hold, sent, publishing, lane, buffer, dropped,
                 unmarked, crashes>>

(* The insert of the row of an end is interrupted and did not commit.  It  *)
(* is only warned about, and the projection goes on.                       *)
LoseRow(p) ==
  /\ run[p].step = "row" /\ run[p].event \in End /\ faults < MaxFaults
  /\ faults' = faults + 1
  /\ unmarked' = (unmarked \/ rows \cap End = {})
  /\ GoOn(p, "price", {})
  /\ UNCHANGED <<session, rows, hold, sent, publishing, lane, buffer, dropped,
                 gaveUp, crashes>>

(* The process dies: its lane, its buffer and its run are gone. *)
Crash(p) ==
  /\ crashes < MaxCrashes /\ crashes' = crashes + 1
  /\ publishing' = [publishing EXCEPT ![p] = NoEvents]
  /\ lane' = [lane EXCEPT ![p] = <<>>]
  /\ run' = [run EXCEPT ![p] = Idle]
  /\ buffer' = [buffer EXCEPT ![p] = NoEvents]
  /\ UNCHANGED <<session, rows, hold, sent, dropped, gaveUp, unmarked, faults>>

-----------------------------------------------------------------------------
(* Ends the CSMS makes.                                                    *)

(* recordSessionEndRequest: an operator, or a stop answered TxNotFound. *)
RequestEnd ==
  /\ session.status = "active" /\ ~session.endRequested
  /\ session' = [session EXCEPT !.endRequested = TRUE]
  /\ UNCHANGED <<rows, hold, sent, publishing, lane, run, buffer, dropped,
                 gaveUp, unmarked, faults, crashes>>

(* Mutant: a claim does not look at the number of claims. *)
ClaimForEver(p) ==
  /\ session.status = "active" /\ ~session.lease
  /\ session' = [session EXCEPT !.endRequested = TRUE, !.lease = TRUE,
                                !.attempts = @ + 1]
  /\ publishing' = [publishing EXCEPT ![p]["CsmsEnd"] = @ + 1]
  /\ UNCHANGED <<rows, hold, sent, lane, run, buffer, dropped, gaveUp,
                 unmarked, faults, crashes>>

(* requestCsmsSessionEnd: whichever process gets there first claims the    *)
(* end with a lease and publishes it on its own lane of the transaction.   *)
Claim(p) ==
  /\ session.status = "active" /\ ~session.lease
  /\ session.attempts < MaxEndAttempts
  /\ session' = [session EXCEPT !.endRequested = TRUE, !.lease = TRUE,
                                !.attempts = @ + 1]
  /\ publishing' = [publishing EXCEPT ![p]["CsmsEnd"] = @ + 1]
  /\ UNCHANGED <<rows, hold, sent, lane, run, buffer, dropped, gaveUp,
                 unmarked, faults, crashes>>

(* The subscriber or the sweep of p answers a recorded request. *)
AnswerRequest(p) == session.endRequested /\ Claim(p)

(* The Started of another transaction on the EVSE supersedes the session.  *)
Supersede(p) == ~session.endRequested /\ Claim(p)

(* Mutant: a claim holds for ever. *)
LeaseStays == FALSE

LeaseEnds ==
  /\ session.lease
  /\ session' = [session EXCEPT !.lease = FALSE]
  /\ UNCHANGED <<rows, hold, sent, publishing, lane, run, buffer, dropped,
                 gaveUp, unmarked, faults, crashes>>

(* faultUnbilledSession and the cancel of the open hold, which may fail. *)
FaultUnbilled ==
  /\ session' = [session EXCEPT !.status = "faulted", !.final = "Zero"]
  /\ hold' \in {hold, IF hold = "open" THEN "released" ELSE hold}
  /\ UNCHANGED <<rows, sent, publishing, lane, run, buffer, dropped, gaveUp,
                 unmarked, faults, crashes>>

(* giveUpSessionEnd: the sweep stops retrying an end that never completes. *)
GiveUpEnd ==
  /\ session.status = "active" /\ session.endRequested /\ ~session.lease
  /\ session.attempts >= MaxEndAttempts
  /\ FaultUnbilled

(* stale-session-cleanup: nothing was heard of the session for hours and   *)
(* nobody asked for its end.                                               *)
FaultStale ==
  /\ session.status = "active" /\ ~session.endRequested
  /\ \A p \in Pods : run[p].step = "idle" /\ lane[p] = <<>> /\ publishing[p] = NoEvents
  /\ FaultUnbilled

-----------------------------------------------------------------------------
Project(p) ==
  \/ Take(p) \/ InsertSession(p) \/ Resolve(p) \/ Gate(p) \/ Drain(p)
  \/ Find(p) \/ CheckEnd(p) \/ EndSession(p) \/ InsertRow(p) \/ PriceEnd(p)
  \/ Settle(p)

Next ==
  \/ \E p \in Pods :
       \/ \E e \in StationEvent : Deliver(p, e) \/ Expire(p, e)
       \/ \E e \in Event : Dispatch(p, e)
       \/ Project(p)
       \/ LoseConnection(p) \/ FailStatement(p) \/ LoseRow(p) \/ Crash(p)
       \/ AnswerRequest(p) \/ Supersede(p)
  \/ RequestEnd \/ LeaseEnds \/ GiveUpEnd \/ FaultStale

(* A process runs its queue and its sweep, archive inserts end, leases run *)
(* out.  Nothing is assumed of stations, of operators or of failures.      *)
Fairness ==
  /\ \A p \in Pods : /\ WF_vars(Project(p))
                     /\ \A e \in Event : WF_vars(Dispatch(p, e))
                     /\ WF_vars(AnswerRequest(p))
  /\ WF_vars(LeaseEnds) /\ WF_vars(GiveUpEnd)

Spec == Init /\ [][Next]_vars /\ Fairness

-----------------------------------------------------------------------------
(* A captured hold was captured for the final cost of the session: no end  *)
(* that is projected after the settlement prices the session again         *)
(* (recordLateEnded), unless the row that tells of the end was lost.       *)
ChargeIsFinal == hold \in End /\ ~unmarked => session.final = hold

(* The hold of a session that still charges is not settled, unless the     *)
(* projection of its Ended was given up: its settlement runs all the same  *)
(* and releases the hold for want of a final cost.                         *)
ActiveKeepsHold ==
  session.status = "active" /\ hold \notin {"none", "open"} => "Ended" \in gaveUp

(* Events wait in the buffer only for a Started that has yet to come: once *)
(* the session is active they are drained, unless the projection of the    *)
(* Started was given up before its drain.                                  *)
BufferedWaitForStarted ==
  \A p \in Pods :
    buffer[p] # NoEvents /\ session.status = "active" =>
      \/ run[p].event = "Started" /\ run[p].step # "idle"
      \/ "Started" \in gaveUp

(* An end that was requested ends the session: by its projection, or       *)
(* unbilled when that keeps failing.                                       *)
RequestedEndEnds ==
  (session.endRequested /\ session.status = "active") ~> (session.status # "active")

(* A transaction whose Started and Ended were both delivered, in whatever  *)
(* order, ends, unless its Ended was dropped from the buffer or one of the *)
(* two projections was given up or lost in a crash.                        *)
DeliveredEndEnds ==
  (sent["Started"] > 0 /\ sent["Ended"] > 0)
    ~> \/ session.status \in {"completed", "faulted"}
       \/ dropped \/ gaveUp \cap {"Started", "Ended"} # {}
       \/ crashes > 0

(* The projections implement the promise about the money of a session. *)
Promise == INSTANCE BilledSession
             WITH Ends <- End, NoBill <- "None", ZeroBill <- "Zero",
                  status <- session.status, bill <- session.final, hold <- hold,
                  unmarked <- unmarked
ImplementsBilledSession == Promise!Spec
=============================================================================
