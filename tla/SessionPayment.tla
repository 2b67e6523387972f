--------------------------- MODULE SessionPayment ---------------------------
(***************************************************************************)
(* The payment of one charging session, from its placed hold to its last   *)
(* refund (packages/payments: session-payments.ts, webhooks.ts,            *)
(* refunds.ts, payment-records.ts).                                        *)
(*                                                                         *)
(* Four parties act on the record and on the hold at the provider, with    *)
(* no lock between them: the settlement of the ended session, an operator  *)
(* who captures or cancels the hold, the retries of a shortfall (daily and *)
(* by an operator), and the provider's webhooks.  Each reads the record,   *)
(* asks the provider, and writes the record afterwards, in steps of its    *)
(* own; what keeps them apart are the idempotency keys at the provider and *)
(* the status guards of the writes.  Only a refund holds the record's row  *)
(* lock from its read to its write.                                        *)
(*                                                                         *)
(* The provider answers at once ("sync", as Stripe), or accepts a capture, *)
(* a cancel or a refund and reports the outcome by webhook ("async", as    *)
(* Adyen).  A raise of the hold (adjust_hold) is not modelled: a shortfall *)
(* is charged as a top-up.                                                 *)
(***************************************************************************)
EXTENDS Integers, FiniteSets, FiniteSetsExt, Functions

CONSTANTS
    Hold,             \* what the driver's hold covers
    Costs,            \* final costs a session may end with
    OperatorAmounts,  \* amounts an operator may capture (0 cancels)
    MaxRequests,      \* bound: refunds asked for and retries, together
    MaxFaults         \* bound: lost answers, failed writes, applies that died

ASSUME HoldAssumption == Hold \in Nat \ {0}
ASSUME CostsAssumption == Costs \subseteq Nat /\ \E most \in Costs : \A c \in Costs : c <= most
ASSUME AmountsAssumption == OperatorAmounts \subseteq 0..Hold
ASSUME BoundsAssumption == {MaxRequests, MaxFaults} \subseteq Nat

VARIABLES
    mode,      \* "sync" or "async": how the provider answers
    cost,      \* the session's final cost
    record,    \* the row of payment_records
    pay,       \* the provider's side: the hold, the charges, the refunds
    task,      \* the settlement and the operator's capture, step by step
    retry,     \* the two retries of a shortfall
    events,    \* webhooks under way; any of them may arrive next
    applying,  \* a webhook that found nothing to confirm, before its write
    told,      \* what the logs say went apart; "stray" is said by no log
    spent      \* requests and faults so far

vars == <<mode, cost, record, pay, task, retry, events, applying, told, spent>>

Tasks == {"settle", "operator"}
Retries == {"cron", "by hand"}

MaxCost == Max(Costs)

(* The charges of the session: the hold, the settlement's top-up (its key  *)
(* is topup_<payment>), and a retry for each captured total it may start   *)
(* from (topup_retry_<payment>_<captured>).                                *)
HoldCharge == 0
TopUp == 1
RetryOf(captured) == 2 + captured
TopUps == TopUp..RetryOf(MaxCost)
Charges == {HoldCharge} \cup TopUps

Total(f, S) == SumFunctionOnSet(f, S)

Idle == [pc |-> "idle", op |-> "none", amount |-> 0, top |-> FALSE, declined |-> FALSE]
RetryIdle == [pc |-> "idle", captured |-> 0]

Init ==
    /\ mode \in {"sync", "async"}
    /\ cost \in Costs
    /\ record = [status |-> "pre_authorized", captured |-> 0, refunded |-> 0,
                 pending |-> "none", ref |-> "none", declined |-> FALSE,
                 tops |-> [c \in TopUps |-> 0], topRefunded |-> [c \in TopUps |-> 0],
                 refunds |-> {}]
    /\ pay = [hold |-> "held", asked |-> [capture |-> -1, cancel |-> -1],
              taken |-> [c \in Charges |-> 0], refunds |-> {}, reported |-> {}]
    /\ task = [t \in Tasks |-> Idle]
    /\ retry = [r \in Retries |-> RetryIdle]
    /\ events = {}
    /\ applying = {}
    /\ told = {}
    /\ spent = [requests |-> 0, faults |-> 0]

Faulty == spent.faults < MaxFaults
Fault == spent' = [spent EXCEPT !.faults = @ + 1]

-----------------------------------------------------------------------------
(* The writes of payment-records.ts.  Each is one UPDATE with a guard on   *)
(* the status; its caller learns whether a row matched.                    *)

IsHold == record.status = "pre_authorized"
Refundable == record.status \in {"captured", "partially_refunded"}

Listed(tops, c, amount) == IF tops[c] = 0 THEN [tops EXCEPT ![c] = amount] ELSE tops

(* pre_authorized -> captured; ref names an operation still to be confirmed *)
Captured(amount, declined, top, ref) ==
    [record EXCEPT !.status = "captured", !.captured = amount, !.declined = declined,
                   !.tops = IF top > 0 THEN Listed(@, TopUp, top) ELSE @,
                   !.pending = ref, !.ref = ref]

(* pre_authorized -> cancelled *)
Cancelled(ref) ==
    [record EXCEPT !.status = "cancelled", !.captured = 0, !.pending = ref, !.ref = ref]

(* pre_authorized -> failed *)
HoldFailed == [record EXCEPT !.status = "failed", !.pending = "none", !.ref = "none"]

(* captured -> failed, for the capture with this reference, nothing refunded *)
CanFailCapture ==
    /\ record.status = "captured"
    /\ record.ref = "capture"
    /\ record.pending \in {"none", "capture"}
    /\ record.refunded = 0
CaptureFailed == [record EXCEPT !.status = "failed", !.pending = "none"]

(* A webhook's confirmation keeps the reference *)
CanConfirm(op) == record.pending = op /\ record.ref = op
Confirmed == [record EXCEPT !.pending = "none"]

AfterRefund(total) ==
    IF total >= record.captured THEN "refunded" ELSE "partially_refunded"

-----------------------------------------------------------------------------
(* The provider.  A key is answered once: the same request again gets the  *)
(* first answer, whatever amount it names.                                 *)

Refs(op) == IF mode = "async" THEN op ELSE "none"

(* A capture or cancel that takes effect at once *)
Done(op, amount) ==
    /\ mode = "sync"
    /\ IF pay.asked[op] >= 0
       THEN UNCHANGED pay
       ELSE /\ pay.hold = "held"
            /\ pay' = [pay EXCEPT !.asked[op] = amount,
                                  !.hold = IF op = "capture" THEN "captured" ELSE "cancelled",
                                  !.taken[HoldCharge] = IF op = "capture" THEN amount ELSE 0]

(* One that is accepted, to be carried out later *)
Accepted(op, amount) ==
    /\ mode = "async"
    /\ pay' = [pay EXCEPT !.asked[op] = IF @ >= 0 THEN @ ELSE amount]

ProviderTakes(op, amount) == Done(op, amount) \/ Accepted(op, amount)

(* The accepted operation is carried out, or is found impossible, and its  *)
(* webhook is on the way.                                                  *)
Resolve(op) ==
    /\ mode = "async"
    /\ pay.asked[op] >= 0
    /\ op \notin pay.reported
    /\ \E ok \in BOOLEAN :
          /\ ok => pay.hold = "held"
          /\ pay' = [pay EXCEPT
                !.reported = @ \cup {op},
                !.hold = IF ~ok THEN @ ELSE IF op = "capture" THEN "captured" ELSE "cancelled",
                !.taken[HoldCharge] = IF ok /\ op = "capture" THEN pay.asked[op] ELSE @]
          /\ events' = events \cup {[op |-> op, ok |-> ok]}
    /\ UNCHANGED <<mode, cost, record, task, retry, applying, told, spent>>

(* A capture that was carried out is reported failed after all. *)
CaptureReturned ==
    /\ mode = "async"
    /\ pay.hold = "captured"
    /\ pay.refunds = {}
    /\ Faulty /\ Fault
    /\ pay' = [pay EXCEPT !.hold = "returned", !.taken[HoldCharge] = 0]
    /\ events' = events \cup {[op |-> "capture", ok |-> FALSE]}
    /\ UNCHANGED <<mode, cost, record, task, retry, applying, told>>

(* The authorisation lapses at the provider. *)
Expire ==
    /\ pay.hold = "held"
    /\ Faulty /\ Fault
    /\ pay' = [pay EXCEPT !.hold = "cancelled"]
    /\ events' = IF mode = "async" THEN events \cup {[op |-> "expire", ok |-> TRUE]} ELSE events
    /\ UNCHANGED <<mode, cost, record, task, retry, applying, told>>

ChargedOnce(c, amount) ==
    pay' = [pay EXCEPT !.taken[c] = IF @ > 0 THEN @ ELSE amount]

-----------------------------------------------------------------------------
(* The settlement of the ended session, and the operator's capture.        *)

Begin(t, amount) ==
    /\ task[t].pc = "idle"
    /\ IsHold
    /\ task' = [task EXCEPT ![t] = [Idle EXCEPT
                    !.pc = "ask", !.amount = amount,
                    !.op = IF amount = 0 THEN "cancel" ELSE "capture"]]
    /\ UNCHANGED <<mode, cost, record, pay, retry, events, applying, told, spent>>

SettleBegins == Begin("settle", Min({cost, Hold}))
OperatorBegins == \E amount \in OperatorAmounts : Begin("operator", amount)

(* What the settlement takes up after a capture: the rest as a top-up *)
AfterCapture(t) ==
    IF t = "settle" /\ task[t].op = "capture" /\ cost > task[t].amount THEN "topup" ELSE "record"

Ask(t) ==
    /\ task[t].pc = "ask"
    /\ ProviderTakes(task[t].op, task[t].amount)
    /\ task' = [task EXCEPT ![t].pc = AfterCapture(t)]
    /\ UNCHANGED <<mode, cost, record, retry, events, applying, told, spent>>

(* An error after which the hold is marked failed, or reaches the operator. *)
AskThrows(t) == task' = [task EXCEPT ![t] = IF t = "settle" THEN [@ EXCEPT !.pc = "fail"] ELSE Idle]

(* Declined, the hold is no longer there, or the provider is not reached. *)
AskRefused(t) ==
    /\ task[t].pc = "ask"
    /\ AskThrows(t)
    /\ UNCHANGED <<mode, cost, record, pay, retry, events, applying, told, spent>>

AskAnswerLost(t) ==
    /\ task[t].pc = "ask"
    /\ Faulty /\ Fault
    /\ ProviderTakes(task[t].op, task[t].amount)
    /\ AskThrows(t)
    /\ told' = told \cup {"lost"}
    /\ UNCHANGED <<mode, cost, record, retry, events, applying>>

MarkFailed(t) ==
    /\ task[t].pc = "fail"
    /\ record' = IF IsHold THEN HoldFailed ELSE record
    /\ task' = [task EXCEPT ![t] = Idle]
    /\ UNCHANGED <<mode, cost, pay, retry, events, applying, told, spent>>

ChargeTopUp ==
    /\ task["settle"].pc = "topup"
    /\ ChargedOnce(TopUp, cost - task["settle"].amount)
    /\ task' = [task EXCEPT !["settle"] = [@ EXCEPT !.pc = "record", !.top = TRUE]]
    /\ UNCHANGED <<mode, cost, record, retry, events, applying, told, spent>>

(* Declined, or not heard of: both are recorded as a declined top-up. *)
TopUpDeclined ==
    /\ task["settle"].pc = "topup"
    /\ task' = [task EXCEPT !["settle"] = [@ EXCEPT !.pc = "record", !.declined = TRUE]]
    /\ \/ UNCHANGED <<pay, told, spent>>
       \/ /\ Faulty /\ Fault
          /\ ChargedOnce(TopUp, cost - task["settle"].amount)
          /\ told' = told \cup {"lost"}
    /\ UNCHANGED <<mode, cost, record, retry, events, applying>>

(* The outcome as the task knows it *)
Outcome(t) ==
    LET s == task[t]
        top == IF s.top THEN cost - s.amount ELSE 0
    IN IF s.op = "cancel" THEN Cancelled(Refs("cancel"))
       ELSE Captured(s.amount + top, s.declined, top, Refs("capture"))

Record(t) ==
    /\ task[t].pc = "record"
    /\ record' = IF IsHold THEN Outcome(t) ELSE record
    /\ told' = IF IsHold THEN told ELSE told \cup {"moved on"}
    /\ task' = [task EXCEPT ![t] = Idle]
    /\ UNCHANGED <<mode, cost, pay, retry, events, applying, spent>>

RecordFails(t) ==
    /\ task[t].pc = "record"
    /\ Faulty /\ Fault
    /\ told' = told \cup {"not recorded"}
    /\ task' = [task EXCEPT ![t] = Idle]
    /\ UNCHANGED <<mode, cost, record, pay, retry, events, applying>>

-----------------------------------------------------------------------------
(* The retries.  The daily one selects captured records with a declined    *)
(* top-up and reads each of them again before it charges; the one by hand  *)
(* takes any record that names a session.                                  *)

RetrySelects ==
    /\ retry["cron"].pc = "idle"
    /\ spent.requests < MaxRequests
    /\ record.status = "captured" /\ record.declined /\ cost > record.captured
    /\ retry' = [retry EXCEPT !["cron"].pc = "selected"]
    /\ spent' = [spent EXCEPT !.requests = @ + 1]
    /\ UNCHANGED <<mode, cost, record, pay, task, events, applying, told>>

RetryReads(r) ==
    /\ \/ r = "cron" /\ retry[r].pc = "selected" /\ UNCHANGED spent
       \/ /\ r = "by hand" /\ retry[r].pc = "idle" /\ cost > record.captured
          /\ spent.requests < MaxRequests
          /\ spent' = [spent EXCEPT !.requests = @ + 1]
    /\ retry' = [retry EXCEPT ![r] = IF cost > record.captured
                     THEN [pc |-> "charge", captured |-> record.captured] ELSE RetryIdle]
    /\ told' = IF record.status = "captured" THEN told ELSE told \cup {"stray"}
    /\ UNCHANGED <<mode, cost, record, pay, task, events, applying>>

(* Mutant: the retry by hand has a key of its own. *)
RetryKeyOfTheirOwn(r) == RetryOf(IF r = "cron" THEN retry[r].captured ELSE cost)
RetryKey(r) == RetryOf(retry[r].captured)

RetryCharges(r) ==
    /\ retry[r].pc = "charge"
    /\ ChargedOnce(RetryKey(r), cost - retry[r].captured)
    /\ retry' = [retry EXCEPT ![r].pc = "record"]
    /\ UNCHANGED <<mode, cost, record, task, events, applying, told, spent>>

(* Declined, or not heard of; a later retry uses the same key.  Only the   *)
(* daily one notes the new reason.                                         *)
RetryDeclined(r) ==
    /\ retry[r].pc = "charge"
    /\ retry' = [retry EXCEPT ![r] = RetryIdle]
    /\ record' = IF r = "cron" /\ record.status = "captured"
                 THEN [record EXCEPT !.declined = TRUE] ELSE record
    /\ \/ UNCHANGED <<pay, told, spent>>
       \/ /\ Faulty /\ Fault
          /\ ChargedOnce(RetryKey(r), cost - retry[r].captured)
          /\ told' = told \cup {"lost"}
    /\ UNCHANGED <<mode, cost, task, events, applying>>

(* Mutant: the final cost is added to the captured total. *)
RetryRecordsOnTop(r) ==
    /\ retry[r].pc = "record"
    /\ record' = IF record.status = "captured"
                 THEN [record EXCEPT !.captured = @ + cost, !.declined = FALSE,
                          !.tops = Listed(@, RetryKey(r), pay.taken[RetryKey(r)])]
                 ELSE record
    /\ told' = IF record.status = "captured" THEN told ELSE told \cup {"stray"}
    /\ retry' = [retry EXCEPT ![r] = RetryIdle]
    /\ UNCHANGED <<mode, cost, pay, task, events, applying, spent>>

(* captured -> captured at the final cost.  No row matching is not noticed. *)
RetryRecords(r) ==
    /\ retry[r].pc = "record"
    /\ record' = IF record.status = "captured"
                 THEN [record EXCEPT !.captured = cost, !.declined = FALSE,
                          !.tops = Listed(@, RetryKey(r), pay.taken[RetryKey(r)])]
                 ELSE record
    /\ told' = IF record.status = "captured" THEN told ELSE told \cup {"stray"}
    /\ retry' = [retry EXCEPT ![r] = RetryIdle]
    /\ UNCHANGED <<mode, cost, pay, task, events, applying, spent>>

-----------------------------------------------------------------------------
(* The refund of a session, under the record's row lock: the hold's charge *)
(* first, then each top-up, each up to what it has left.                   *)

Sum(refunds) == MapThenSumSet(LAMBDA r : r.amount, refunds)

RefundedAt(c) == Sum({r \in pay.refunds : r.charge = c /\ r.state = "done"})
PendingOf(c) == Sum({r \in record.refunds : r.charge = c /\ r.state = "pending"})
PendingRefunds == Sum({r \in record.refunds : r.state = "pending"})

TakenFor(c) ==
    IF c = HoldCharge THEN Max({0, record.captured - Total(record.tops, TopUps)})
    ELSE record.tops[c]
RefundedFor(c) ==
    IF c = HoldCharge THEN Max({0, record.refunded - Total(record.topRefunded, TopUps)})
    ELSE record.topRefunded[c]

(* The charges of the record that a refund can reach, and what it takes of *)
(* each                                                                    *)
LeftOf(c) == TakenFor(c) - RefundedFor(c) - PendingOf(c)
OpenCharges == {c \in {HoldCharge} \cup {d \in TopUps : record.tops[d] > 0} : LeftOf(c) > 0}
Piece(c, amount) ==
    Min({LeftOf(c), amount - MapThenSumSet(LeftOf, {d \in OpenCharges : d < c})})

(* Mutant: a capture that is still under way can be refunded. *)
CanBeRefundedEarly == Refundable
CanBeRefunded == Refundable /\ record.pending = "none"

Remaining == record.captured - record.refunded - PendingRefunds

RefundKey(c, amount) ==
    <<record.refunded + PendingRefunds, amount, Cardinality(record.refunds), c>>

(* The provider has the charge, and the refund fits in it. *)
CanRefund(c, amount) ==
    /\ c = HoldCharge => pay.hold = "captured"
    /\ RefundedAt(c) + amount <= pay.taken[c]

(* Mutant: each charge is refunded the whole amount. *)
RefundOfTheWhole(c, amount) ==
    [id |-> RefundKey(c, amount), charge |-> c, amount |-> amount,
     state |-> IF mode = "sync" THEN "done" ELSE "pending"]
RefundOf(c, amount) ==
    [id |-> RefundKey(c, amount), charge |-> c, amount |-> Piece(c, amount),
     state |-> IF mode = "sync" THEN "done" ELSE "pending"]

Known(r) == \E p \in pay.refunds : p.id = r.id

RefundAsked(made) ==
    /\ \A r \in made : Known(r) \/ mode = "async" \/ CanRefund(r.charge, r.amount)
    /\ pay' = [pay EXCEPT !.refunds = @ \cup {r \in made : ~Known(r)}]

(* A synchronous provider reports the charge's refunded total by webhook. *)
RefundReports(made) ==
    IF mode = "async" THEN {}
    ELSE {[op |-> "refunded", charge |-> r.charge, total |-> RefundedAt(r.charge)'] : r \in made}

RefundWritten(made) ==
    LET now == Sum(made)
        OfCharge(c) == Sum({r \in made : r.charge = c})
    IN IF mode = "async"
       THEN [record EXCEPT !.refunds = @ \cup made]
       ELSE [record EXCEPT !.refunds = @ \cup made,
                           !.refunded = @ + now,
                           !.status = AfterRefund(record.refunded + now),
                           !.topRefunded = [c \in TopUps |-> @[c] + OfCharge(c)]]

(* made: the refunds the provider made, the first of the pieces.  What it  *)
(* made is recorded, unless the transaction or the last answer is lost.    *)
Refund ==
    /\ spent.requests < MaxRequests
    /\ CanBeRefunded
    /\ \E amount \in {1, Remaining} \cap 1..Remaining :
       LET reached == {c \in OpenCharges : Piece(c, amount) > 0}
       IN \E last \in reached :
          LET made == {RefundOf(c, amount) : c \in {d \in reached : d <= last}}
          IN /\ RefundAsked(made)
             /\ \/ /\ record' = RefundWritten(made)
                   /\ spent' = [spent EXCEPT !.requests = @ + 1]
                   /\ UNCHANGED told
                \/ /\ Faulty
                   /\ spent' = [spent EXCEPT !.requests = @ + 1, !.faults = @ + 1]
                   /\ record' = RefundWritten({r \in made : r.charge < last})
                   /\ told' = told \cup {"refund lost"}
                \/ /\ Faulty
                   /\ spent' = [spent EXCEPT !.requests = @ + 1, !.faults = @ + 1]
                   /\ told' = told \cup {"refund lost"}
                   /\ UNCHANGED record
             /\ events' = events \cup RefundReports(made)
    /\ UNCHANGED <<mode, cost, task, retry, applying>>

(* An accepted refund is carried out, or cannot be. *)
ResolveRefund ==
    /\ \E r \in pay.refunds, ok \in BOOLEAN :
          /\ r.state = "pending"
          /\ ok => CanRefund(r.charge, r.amount)
          /\ pay' = [pay EXCEPT !.refunds =
                (@ \ {r}) \cup {[r EXCEPT !.state = IF ok THEN "done" ELSE "failed"]}]
          /\ events' = events \cup {[op |-> "refund", id |-> r.id, charge |-> r.charge,
                                     amount |-> r.amount, ok |-> ok]}
    /\ UNCHANGED <<mode, cost, record, task, retry, applying, told, spent>>

-----------------------------------------------------------------------------
(* The webhooks, each applied once; an apply that died is applied again.   *)

EventLeaves(e) ==
    \/ events' = events \ {e} /\ UNCHANGED spent
    \/ Faulty /\ Fault /\ UNCHANGED events

(* pre_authorized -> cancelled by the provider, or a pending cancel ends *)
AuthorisationEnded ==
    IF IsHold THEN Cancelled("none")
    ELSE IF record.pending = "cancel" THEN Confirmed
    ELSE record

(* The reported outcome answers an operation the record waits for *)
Answers(e) ==
    \/ e.op = "capture" /\ e.ok /\ CanConfirm("capture")
    \/ e.op = "capture" /\ ~e.ok /\ CanFailCapture
    \/ e.op = "cancel" /\ CanConfirm("cancel")

WebhookAnswers(e) ==
    /\ e \in events \ applying
    /\ Answers(e)
    /\ LET failed == e.op = "capture" /\ ~e.ok
       IN /\ record' = IF failed THEN CaptureFailed ELSE Confirmed
          /\ told' = IF failed THEN told \cup {"not collected"} ELSE told
    /\ EventLeaves(e)
    /\ UNCHANGED <<mode, cost, pay, task, retry, applying>>

(* No operation is waiting for it, but the hold was read as open. *)
WebhookFindsHold(e) ==
    /\ e \in events \ applying
    /\ e.op = "capture" /\ ~Answers(e)
    /\ IsHold
    /\ applying' = applying \cup {e}
    /\ UNCHANGED <<mode, cost, record, pay, task, retry, events, told, spent>>

WebhookMovesHold(e) ==
    /\ e \in applying
    /\ record' = IF ~IsHold THEN record
                 ELSE IF e.ok THEN Captured(pay.asked["capture"], FALSE, 0, "none")
                 ELSE HoldFailed
    /\ told' = IF ~IsHold /\ ~e.ok THEN told \cup {"not applied"} ELSE told
    /\ applying' = applying \ {e}
    /\ EventLeaves(e)
    /\ UNCHANGED <<mode, cost, pay, task, retry>>

WebhookEndsHold(e) ==
    /\ e \in events
    /\ e.op = "expire" \/ (e.op = "cancel" /\ e.ok /\ ~CanConfirm("cancel"))
    /\ record' = AuthorisationEnded
    /\ EventLeaves(e)
    /\ UNCHANGED <<mode, cost, pay, task, retry, applying, told>>

WebhookIgnored(e) ==
    /\ e \in events \ applying
    /\ \/ e.op = "capture" /\ ~Answers(e) /\ ~IsHold
       \/ e.op = "cancel" /\ ~e.ok /\ ~Answers(e)
    /\ told' = IF e.op = "capture" /\ ~e.ok /\ record.status # "failed"
               THEN told \cup {"not applied"} ELSE told
    /\ EventLeaves(e)
    /\ UNCHANGED <<mode, cost, record, pay, task, retry, applying>>

(* Mutant: a refund that is settled is settled again. *)
SettleRefundAgain(e) ==
    /\ e \in events
    /\ e.op = "refund"
    /\ LET listed == {r \in record.refunds : r.id = e.id}
           entry == [id |-> e.id, charge |-> e.charge, amount |-> e.amount,
                     state |-> IF e.ok THEN "done" ELSE "failed"]
           total == record.refunded + e.amount
           ledger == (record.refunds \ listed) \cup {entry}
       IN record' =
            IF e.ok /\ Refundable /\ total <= record.captured
            THEN [record EXCEPT !.refunds = ledger, !.refunded = total,
                    !.status = AfterRefund(total),
                    !.topRefunded = [c \in TopUps |-> IF c = e.charge
                                        THEN Min({record.tops[c], @[c] + e.amount}) ELSE @[c]]]
            ELSE [record EXCEPT !.refunds = ledger]
    /\ EventLeaves(e)
    /\ UNCHANGED <<mode, cost, pay, task, retry, applying, told>>

(* One refund, settled once through the ledger *)
SettleRefund(e) ==
    /\ e \in events
    /\ e.op = "refund"
    /\ LET listed == {r \in record.refunds : r.id = e.id}
           entry == [id |-> e.id, charge |-> e.charge, amount |-> e.amount,
                     state |-> IF e.ok THEN "done" ELSE "failed"]
           total == record.refunded + e.amount
           ledger == (record.refunds \ listed) \cup {entry}
       IN record' =
            IF \E r \in listed : r.state # "pending" THEN record
            ELSE IF e.ok /\ Refundable /\ total <= record.captured
            THEN [record EXCEPT !.refunds = ledger, !.refunded = total,
                    !.status = AfterRefund(total),
                    !.topRefunded = [c \in TopUps |-> IF c = e.charge
                                        THEN Min({record.tops[c], @[c] + e.amount}) ELSE @[c]]]
            ELSE [record EXCEPT !.refunds = ledger]
    /\ EventLeaves(e)
    /\ UNCHANGED <<mode, cost, pay, task, retry, applying, told>>

(* The refunded total of one charge, never lowered *)
SettleRefundedTotal(e) ==
    /\ e \in events
    /\ e.op = "refunded"
    /\ LET before == RefundedFor(e.charge)
           now == IF Total(record.tops, TopUps) = 0 THEN e.total
                  ELSE Min({TakenFor(e.charge), Max({before, e.total})})
           total == record.refunded + now - before
       IN record' =
            IF Refundable /\ now > before /\ (e.charge = HoldCharge \/ record.tops[e.charge] > 0)
            THEN [record EXCEPT !.refunded = total, !.status = AfterRefund(total),
                    !.topRefunded = [c \in TopUps |-> IF c = e.charge THEN now ELSE @[c]]]
            ELSE record
    /\ EventLeaves(e)
    /\ UNCHANGED <<mode, cost, pay, task, retry, applying, told>>

-----------------------------------------------------------------------------
Next ==
    \/ SettleBegins \/ OperatorBegins \/ ChargeTopUp \/ TopUpDeclined
    \/ \E t \in Tasks : \/ Ask(t) \/ AskRefused(t) \/ AskAnswerLost(t)
                        \/ MarkFailed(t) \/ Record(t) \/ RecordFails(t)
    \/ RetrySelects
    \/ \E r \in Retries : \/ RetryReads(r) \/ RetryCharges(r)
                          \/ RetryDeclined(r) \/ RetryRecords(r)
    \/ Resolve("capture") \/ Resolve("cancel") \/ CaptureReturned \/ Expire
    \/ Refund \/ ResolveRefund
    \/ \E e \in events : \/ WebhookAnswers(e) \/ WebhookFindsHold(e) \/ WebhookMovesHold(e)
                         \/ WebhookEndsHold(e) \/ WebhookIgnored(e)
                         \/ SettleRefund(e) \/ SettleRefundedTotal(e)

Spec == Init /\ [][Next]_vars

-----------------------------------------------------------------------------
Statuses == {"pre_authorized", "captured", "partially_refunded", "refunded",
             "cancelled", "failed"}

(* The variables stay in their ranges. *)
TypeOK ==
    /\ mode \in {"sync", "async"} /\ cost \in Costs
    /\ record.status \in Statuses
    /\ record.captured \in 0..Max({MaxCost, Hold})
    /\ record.refunded \in Nat
    /\ record.pending \in {"none", "capture", "cancel"}
    /\ record.ref \in {"none", "capture", "cancel"}
    /\ pay.hold \in {"held", "captured", "cancelled", "returned"}
    /\ \A t \in Tasks : task[t].pc \in {"idle", "ask", "topup", "record", "fail"}
    /\ \A r \in Retries : retry[r].pc \in {"idle", "selected", "charge", "record"}
    /\ applying \subseteq events
    /\ told \subseteq {"lost", "refund lost", "moved on", "not recorded", "not applied",
                    "not collected", "stray"}

(* Nobody is between a request and its write, and no webhook is under way. *)
Quiet ==
    /\ \A t \in Tasks : task[t].pc = "idle"
    /\ \A r \in Retries : retry[r].pc = "idle"
    /\ events = {}

TakenInAll == Total(pay.taken, Charges)

(* The total of a record that left the hold: nothing once it is failed or  *)
(* cancelled.                                                              *)
Booked == IF record.status \in {"failed", "cancelled"} THEN 0 ELSE record.captured
Agrees == Quiet /\ ~IsHold /\ record.pending = "none" => Booked = TakenInAll

(* A settled record holds what was really taken, hold and top-ups          *)
(* together, unless a log line said that the two may have gone apart: no   *)
(* interleaving of settlement, operator, retries, refunds and webhooks     *)
(* separates them in silence, and no shortfall is charged twice, as long   *)
(* as each retry found the record captured.                                *)
NoSilentDivergence == told = {} => Agrees

(* The same whatever a retry found: the record keeps the total of the      *)
(* charges behind the session (top-ups.ts).                                *)
RecordKeepsTheTotal == told \subseteq {"stray"} => Agrees

(* The refunded total on the record is money the provider has given back.  *)
RefundedIsReal == record.refunded <= Sum({r \in pay.refunds : r.state = "done"})

(* What is refunded or waits to be never exceeds what was captured, so two *)
(* requests never refund the same money.                                   *)
RefundsFit ==
    "refund lost" \notin told /\ Refundable => record.refunded + PendingRefunds <= record.captured

(* A refund is asked for only once the capture is done at the provider,    *)
(* which may return it later (owner decision O3).                          *)
RefundsFollowCapture ==
    [][pay'.refunds # pay.refunds => pay.hold \in {"captured", "returned"}]_vars
=============================================================================
