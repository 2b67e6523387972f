# TLA+ verification of the EVtivity CSMS

EVtivity CSMS manages charging stations. Stations keep an OCPP WebSocket open
to one of several `ocpp` server processes. The REST `api`, the `worker` and the
roaming service `ocpi` are processes of their own; all of them share one
PostgreSQL database and one Redis. This directory holds TLA+ models of the
parts that carry the system's control logic, the TLC configurations that check
them on small instances, and TLAPS proofs for every instance of some of them.

Paths below are relative to the repository root; line numbers are in
`PROJECT.json` ("map"), which links each definition to the code it translates.

How to run, from this directory:

    tlc -workers 2 -config CallLane.cfg MCCallLane      # any MC module with its cfg
    tlapm CallLaneProofs.tla                            # any proof module

## 1. Inventory of the system

### 1.1 Processes and how they interact

| process | role |
|---|---|
| `packages/ocpp` | terminates the station WebSockets, several instances behind a load balancer; answers station messages, publishes domain events, projects them into the database, sends commands |
| `packages/api` | REST API for operators, drivers and partners; publishes commands, starts captures, refunds, reservations |
| `packages/worker` | cron jobs and BullMQ queues: offline sweep, shortfall retry, reservations, load management, reports |
| `packages/ocpi` | roaming with other operators |
| `packages/payments`, `services`, `lib`, `database` | libraries the processes above share |
| `packages/csms`, `portal` | browser user interfaces |
| `packages/css`, `octt`, `ocpi-simulator`, `sim-providers`, `codegen` | simulators, conformance tests, generators |

Channels between them, and what each may do to a message:

* **Station WebSocket.** Ordered while it lives. A half-open socket swallows
  everything until the ping cycle finds it; a reconnect replaces a socket that
  is still open; an answer may never come.
* **Redis pub/sub.** A command is published to every OCPP instance, and so is a
  command's result. A subscriber that is down misses it.
* **Redis connection registry** (`packages/lib/src/connection-registry.ts`). One
  key per station that names the instance holding it, with a TTL. Writes are
  fire and forget on the writer's own Redis connection: ordered per instance,
  not between instances, and they may be lost.
* **Domain events** (`packages/lib/src/events.ts`). Archived in PostgreSQL first
  and dispatched in the same process when the insert has ended, so the events
  of one station can change places; dispatch is not repeated after a crash.
* **Projection lanes** (`projection-queue.ts`). One chain of promises per
  station or transaction inside a process.
* **PostgreSQL.** Single guarded statements for most changes, a row lock for
  refunds, `ON CONFLICT` for queue rows.
* **Payment provider.** Synchronous calls with idempotency keys, and webhooks
  that arrive late, more than once and in any order.

### 1.2 Components, their state, operations, difficulties and properties

**Outgoing CALL lane** (`message-correlator.ts`, one per connection).
State: the busy flag, the queue of waiting CALLs with a timer each, the open
CALL with its response timer, the closed flag.
Operations: `sendCall`, `sendNow`, `release`, `handleResponse`, both timers, the
write callback, `clearPending`.
Hard: the lane is handed over in a promise reaction after the CALL settled, and
callers, timers, late answers and the close come in between.
Correct when: one CALL is open at a time, in the order asked; the lane is never
lost; each caller gets one verdict, and "not sent" is never said of a sent CALL.

**Station connections and registry** (`connection-manager.ts`,
`connection-registry.ts`, the connect and close handlers of `ocpp-server.ts`,
`ping-monitor.ts`).
State: the current socket per station and instance, replaced sockets that have
not closed, the registry entry with its TTL.
Operations: connect, replace, close, ping failure, register, unregister, refresh,
expiry, process crash.
Hard: two instances write one key over two Redis connections, and a socket may
close after its successor opened.
Correct when: the manager keeps the socket the station uses, and the registry
ends up naming the instance that holds it.

**Presence** (`event-projections.ts`, `station-offline-sweep.ts`,
`station-offline.ts`).
State: `is_online` and the time of the last message in the station row.
Operations: the projections of Connected, Disconnected, Heartbeat and
MessageLog, the worker's sweep.
Hard: a lookup is used after an await; events change places while they are
archived; a crashed process publishes no Disconnected.
Correct when: a station that stays connected ends up shown online, one that
stays away ends up shown offline.

**Command routing and offline queue** (`command-listener.ts`,
`command-dispatcher.ts`, `offline-queue-drain.ts`, the `command.Queued`
projection, `offline-command-cleanup.ts`, the caller in `ocpp-commands.ts`).
State: published commands, the `offline_command_queue` rows, the caller's wait.
Operations: publish, look up, send, queue, skip, drain with its claim, expire,
give up.
Hard: every instance decides alone from a registry that lags behind the sockets.
Correct when: a command reaches a station whose registry entry is right, exactly
once; "queued" means stored; a drained command is run once.

**Connection authentication limiter** (`connection-auth-limiter.ts`).
State: running verifications, the queue, counters.
Operations: `run`, the end of a verification, the waiter's timer.
Hard: the hand-over of a slot races the waiter's timer, at both limits.
Correct when: the count is exact, no slot idles while someone waits, arrivals are
served in order, nobody waits for ever.

**Projection queue** (`projection-queue.ts`).
State: the tail of each lane, the count of bounded work, the time of the last
enqueue.
Operations: `enqueue` (bounded or not), the reaction, the cleanup timer,
`settled`.
Hard: a lane is forgotten by the age of its last enqueue; work is queued while
`settled` waits.
Correct when: a lane runs one piece of work at a time in arrival order, its count
is exact, and `settled` is never early.

**Session payment** (`session-payments.ts`, `payment-records.ts`, `refunds.ts`,
`webhooks.ts`, `top-ups.ts`, `idempotency-keys.ts`).
State: the payment record (status, captured, refunded, top-ups, the outcome it
waits for), and at the provider the hold, charges and refunds.
Operations: settlement, operator capture or cancel, shortfall retry by cron and
by hand, refund, webhooks.
Hard: each party reads the record, asks the provider and writes afterwards,
without a lock; answers are lost; webhooks overtake the writes they confirm.
Correct when: the record and the money taken agree or a log says they do not, no
shortfall is charged twice, no more is refunded than was taken.

**Placing a hold and unstarted starts** (`session-payments.ts`, the portal's
`charger.ts`, `remote-start-timeout.ts`, `unstarted-starts.ts`,
`stale-session-cleanup.ts`; guest starts in `guest-payments.ts`).
State: the session row, whether its transaction was linked and reported, the
payment record, the hold at the provider, the delayed job.
Operations: authorise, record, compensate; send the start; close a start that
failed, was not answered or never began; link the transaction and decide.
Hard: portal, projection and operator place one hold at once, three closers cancel
it, the station starts late, and each may stop between two steps.
Correct when: a transaction that may charge has an active session and a held card,
and no hold outlives its session.

**Transaction projector, buffer and session lifecycle**
(`session-lifecycle/`, `transaction-buffer.ts`, `projection-retry.ts`). State:
session rows, buffered events of transactions whose Started has not come.
Operations: Started, Updated, Ended, drain, retry, payment gate and stop.
Hard: events in any order, redelivery, the age limit of the buffer, a drain that
republishes behind newer events. Correct when: each session is opened and billed
once, nothing but the final cost is charged, and no Ended is lost.

**Inbound pipeline** (`middleware/`): dedup cache, boot guard, rate limit and
validation in front of the handlers. Hard: a retransmission before the first
response; a cache map that the cleanup removes while it is used. Correct when: a
repeated message id runs its handler once. Not modelled yet.

**Reservations and their fees** (`reservation.service.ts`,
`reservation-activate.ts`, `reservation-projections.ts`, `reservation-cancel.ts`,
`reservation-expiry.ts`, `reservation-fees.ts`).
State: the reservation row (status, who cancelled, accepted by the station,
no-show fee), the session linked to it, a payment record per kind of fee.
Operations: create, activate, edit, reassign, accept, reject, cancel, link, use,
expire, charge, resume and give up a fee.
Hard: the activation job, the station's answers, operators, the session's
projections and two expiries write one row, each after a read of its own; a fee
is charged at a provider whose answer may be lost, by runs that die.
Correct when: it ends once, a used hold is never charged, each fee is charged
once and its state tells what became of the money.

**Background jobs** (`worker`, BullMQ, `redis-lock.ts`). State: leases, delayed
and repeated jobs. Hard: work that outlives its lease runs twice. Modelled where
they reach a reservation: the job that is repeated, the crons that overlap.

**Load management, pricing, charging plans**: pure computations over site trees,
tariffs and departures, whose results must respect every limit of the tree and
split a session without gap or overlap. **Firmware campaigns, invoices, fleet
billing, OCPI, sign-in, reports, notifications**: request handlers and jobs over
database rows. `PROJECT.json` ("components") lists every part with the reason it
is or is not modelled.

### 1.3 Hazards

`PROJECT.json` ("hazards") lists what is hard to test in this code at the line
where it bites, and the property that covers it. Those without a property are
the plan of section 7.

## 2. Modules

| module | models | built on |
|---|---|---|
| `CallLane` | `MessageCorrelator` of one connection | `OutboundCalls` (refined), `SequencesExt` |
| `OutboundCalls` | what the lane promises its callers | - |
| `StationSockets` | one station, its sockets at several instances, the registry | `SequencesExt` |
| `StationPresence` | the online flag | extends `StationSockets` |
| `CommandRouting` | commands and the offline queue | extends `StationSockets` |
| `ConnectionAuthLimiter` | the limiter | `SequencesExt` |
| `ProjectionQueue` | the lanes | - |
| `SessionPayment` | the payment of one session | `FiniteSetsExt`, `Functions` |
| `SessionProjection` | the projections of one charging transaction | `BilledSession` (refined) |
| `BilledSession` | what they promise about the money of a session | - |
| `Reservation` | one reservation and its fees | `HeldReservation` (refined) |
| `HeldReservation` | what a reservation promises its driver | - |
| `RemoteStart` | a portal start, its hold and everything that closes it | - |
| `CallLaneProofs` | theorems, for `OutboundCalls` too | `SequenceTheorems`, `TLAPS` |
| `ConnectionAuthLimiterProofs` | theorems | `SequenceTheorems`, `FiniteSetTheorems`, `TLAPS` |
| `ProjectionQueueProofs` | theorems | `FiniteSetTheorems`, `TLAPS` |
| `CommandRoutingProofs` | theorems, two for `StationPresence` too | `SequenceTheorems`, `FiniteSetTheorems`, `TLAPS` |
| `SessionPaymentProofs` | theorems | `FiniteSetTheorems`, `TLAPS` |
| `RemoteStartProofs` | theorems | `TLAPS` |
| `SessionProjectionProofs` | theorems, for `BilledSession` too | `SequenceTheorems`, `TLAPS` |
| `ReservationProofs` | theorems, for `HeldReservation` too | `TLAPS` |
| `MC...` | constants for TLC | the module after the prefix |

Some modules keep, directly before a definition, a variant of it whose comment
starts with "Mutant": the same code with a plausible bug. The specification never
uses it; `PROJECT.json` ("mutants") names which property fails when it replaces
the real definition, which shows that the property depends on the code.

### 2.1 CallLane and OutboundCalls

One action per method or callback. `SendCallClosed`, `SendCallNow` and
`SendCallQueued` are the three outcomes of `sendCall`; `HandleResponse`,
`ResponseTimeout` and `SendFailed` settle the open CALL and add it to `releasing`,
the promise reactions the event loop has not run; `ReleaseToNext` and
`ReleaseToNobody` are such a reaction; `QueueTimeout(i)` is the timer of the i-th
waiting CALL; `ClearPending` is the close of the socket. JavaScript runs
reactions before the next timer or socket event, and `Idle` (no reaction is due)
guards the actions that are such events. Time is kept as the order of the
requests and transmissions (`askedAt`, `sentAt`, `now`): both timers run for the
same time, so of two armed timers the one armed first expires first
(`Expires`). Payloads and log lines are left out.

`OutboundCalls` knows a line of callers, at most one CALL being talked about,
which CALLs the station heard, and a verdict per caller. `ImplementsPromise` maps
the lane to it, with `queue` as the line and `pending` as the CALL being talked
about.

### 2.2 StationSockets, StationPresence, CommandRouting

`StationSockets` holds what the other two share: `held` (the `ConnectionManager`
of each instance), `live` (the socket the station uses), `replaced` (sockets
whose successor was stored), `owner` (the registry entry) and `ops`, the Redis
commands each instance has issued that are not applied. `Connect`, `Close`,
`CloseReplaced` and `CloseOutliving` are the handlers in `ocpp-server.ts`: `remove`
answers false only while another socket is current, so a replaced socket that closes
before its successor changes nothing (`CloseReplaced`), and one that closes after it
unregisters again (`CloseOutliving`) and publishes a second `station.Disconnected`
(`OutlivingCloses` of `StationPresence`). `Vanish` is a half-open
socket; `Crash` a process that dies with its unsent Redis commands; `ApplyWrite` and `LoseWrite`
are Redis; `Refresh` is the ping cycle; `Expire` the TTL.

`StationPresence` adds the projections. An event goes from `archiving` (the
insert is under way) to the `lane` of the station in that process; each
projection is an action, and the one of Disconnected is several: it asks the
registry (`DisconnectedAsks`), gets an answer or none (`DisconnectedAnswered`,
`DisconnectedUnanswered`), and updates the row in a later step
(`DisconnectedMarks`). `SweepFinds` and `SweepMarks` are the worker's sweep, with
its lookup and its update apart.

`CommandRouting` adds the caller (`Call`, `GiveUp`), the listener of each instance
(`Receive`, `LookupAnswered`, `LookupFailed`, `Route`), the queue
(`InsertRow`, `RequeueRow`, `ExpireRow`) and the drain (`AnnounceReady`, `Claim`,
`DrainPublishes`, `DrainFails`). The CALL on the socket is one step here;
`CallLane` is its detail. `steady` is a history variable: the commands since whose
publication the registry has named the instance the station uses.

### 2.3 ConnectionAuthLimiter

A request is new, waiting, running, done or refused. `RunNow`, `RefuseFull` and
`Queue` are the outcomes of `run`; `Finish` and `HandOver` the end of a
verification; `WaitTimeout` the waiter's timer. A verification may never end.

### 2.4 ProjectionQueue

Each piece of work is chained behind the tail it found (`prev`); `Start` is the
promise reaction, `End` covers success and failure, `Cleanup` forgets a lane at
any time, and `SettledCall`, `SettledRound` and `SettledTimeout` are the loop of
`settled`. `since` and `cut` are history: what was in a lane before the work, and
which lanes were forgotten while work was unfinished.

### 2.5 SessionPayment

One session from its placed hold to its last refund, with four parties and no
lock between them: the settlement and the operator (`task`), the two retries of
a shortfall (`retry`) and the webhooks (`events`, `applying`). A party reads the
record, asks the provider, and writes in separate steps. The provider answers at
once (`mode = "sync"`, as Stripe), or accepts and reports by webhook (`"async"`,
as Adyen); a key it has seen is charged once (`ChargedOnce`). Writes carry the
status guards of `payment-records.ts`. Only `Refund` reads and writes in one step,
because the code holds the record's row lock meanwhile.

`told` collects what the code's log lines say about a divergence between the
record and the provider:

* `"lost"`: an answer of the provider was lost; the code takes it for a refusal.
* `"refund lost"`: the same for a refund or the write that follows it.
* `"moved on"`: a write found the record in another status and was dropped.
* `"not recorded"`: the write after a charge failed.
* `"not applied"`: a webhook could not be applied.
* `"not collected"`: an accepted capture failed after its top-up was charged.
* `"stray"` is no log line. It marks a retry that charged although the record was
  not captured, a case the code does not look for (finding `payment_total`).

### 2.6 SessionProjection and BilledSession

One transaction in the OCPP processes. `Deliver` is a TransactionEvent from the
station (the handler and the archive insert are merged with the queueing, because
any order of the lanes is possible anyway); `Dispatch` queues an event the process
published itself after its archive insert; `Take` is the head of the transaction's
lane. From there each awaited database step is an action: `InsertSession`,
`Resolve`, `Gate`, `Drain` for a Started, `Find` and `InsertRow` for an Updated,
`CheckEnd`, `EndSession`, `InsertRow`, `PriceEnd` for an end, then `Settle`.
`run[p].memo` are the results that `once` and `memo` keep for a rerun;
`LoseConnection` starts the projection again, `FailStatement` gives it up, `Crash`
forgets lane, buffer and run. `Buffer`, `Expire` and `Drain` are the
`TransactionBuffer`. `RequestEnd`, `AnswerRequest`, `Supersede`, `LeaseEnds` and
`GiveUpEnd` are the end the CSMS makes with its lease; `FaultStale` is the stale
session cleanup.

Decisions. A final cost is represented by the end it was computed from
(`session.final`), since the station's Ended and the CSMS's end carry different
times and energies; `"Zero"` is a session that is not billed. The reads of one
check are one step. The settlement is one step here, `SessionPayment` is its
detail, and so an operator's capture or cancel of the hold is there and in
`RemoteStart` and not here: `hold` is what the projections do with it. The gate runs at
Started; gates and stops that an Updated or an Ended may run again are left out. Drops by a buffer that other transactions filled are
nondeterministic. `failed` sessions are merged with `faulted`.

`BilledSession` says: opened once, leaves `active` once, one end decides the bill,
and the hold is captured for that bill or released. One exception has a name:
when the insert of the row that marks the end is interrupted (`LoseRow`,
`unmarked`), a later end is not recognised as late and decides the bill again
(`LoseMark`, `BillAgain`). Nothing else may happen then either.

### 2.7 Reservation and HeldReservation

One row, written by guarded UPDATEs. `JobReads` is what the activation job decides
from what it read; `JobActivates`, `JobUses`, `JobLinksSession`, `JobExpires`,
`JobCancels` and `JobPublishes` are the writes that follow, `JobPublishFails` puts
the row back, `JobDies` lets BullMQ run a stalled job again. `Accepted` and
`Rejected` are the station's answers, counted in `inflight`. `FindReservation`,
`LinkSession`, `MoveToInUse` are `linkStartedReservation`; `ReadEndedSession` and
`MarkUsed` the Ended. `Expire` is the one statement both expiries share. A run in
`run` charges a fee: `RecordFee` (unique per reservation and kind), `ChargeFee` or
`ChargeThrows`, `MarkRecord`, `SetFeeState`; `StartSettle` starts it for a no-show,
`CancelByPerson` for a cancellation, `StartResume` for a record left pending.
`CancelReads` and `CancelWrites` are one cancel statement whose snapshot is older
than another statement's commit (see 6).

`late`, `missed`, `overwrote` and `unsure` are history: the link came when the hold
had ended; the job's two writes and an Ended crossed; a cancel wrote over another
end; a no-show fee was written off although its charge may have taken the money.

Decisions. A read that filters in the way the later guarded UPDATE does is folded
into it, and so are a rejection and its cancel. One activation job runs at a time
(BullMQ's job id). A record is resumed or given up only when nobody charges it:
an hour is longer than a charge. `terms` is the fee snapshot: a fee and a card, no
card, no fee. Amounts, the CancelReservation to the station, audit rows, notices,
fleet bookings and the checks of a booking are left out.

`HeldReservation` says: a reservation ends once; only a person's cancel or an
accepted, unused hold that ran out costs money; a fee is marked charged only if
the money was taken, and failed only if it was not or nobody knows.

### 2.8 RemoteStart

One session a driver starts from the portal with a saved card. `place[t]` is where
trigger `t` is in `authorizeSessionHold`: `Read` the record, `Ask` the provider,
`Record` it, or after a failure `RecordFailed` or `Reverse`; `NoHold`, `AnswerLost`,
`RecordThrows` and `ReverseThrows` are the ways it fails. The triggers are the
portal's request, the projection of Started and an operator's pre-authorize, under
one idempotency key: the provider's answer to the first call (`hold`) is the answer
to all. `PortalStarts`, `PortalRefuses`, `PortalSends`, `PortalAccepted` and
`PortalGivesUp` are the request. `closer[c]` is where a close is: `Close`
(`failUnstartedRemoteSession`, by the portal's own request or the delayed job) or
`StaleCloses`, then `FindHold`, `CancelHold`, `MarkCancelled`; `Threw` lets the job
run again, and `ProviderGone` ends it. `OperatorCaptures` is
`POST /sessions/:id/capture`, at any time after the session row is there, since
the request does not look at the session's status: it finds the hold as a closer does,
and captures it (`CaptureHold`, `MarkCaptured`) or cancels it like one
(`closer["operator"]`). `Link`, `InsertRow` and `GateAllows` or
`GateStops` are the projection of Started, `Updated` and `Ended` the later ones.
`PortalDies`, `OperatorDies` and `GateDies` are crashes.

`astray` is history: what no later step repairs, each a case the code leaves to its
log, to the provider's expiry of a hold, or does not look for. `AllowedIsPaid` and
`HoldReleased` name those they except; each is needed, TLC finds a counterexample
without it.

| | |
|---|---|
| `adrift` | no record leads to the hold: a lost answer taken for a refusal, a failed compensation, a crash before the record |
| `refused` | the portal refused the start while another trigger's hold was recorded, and cancels nothing |
| `reversed` | a compensation cancelled the hold of an open record: the other trigger's, or its own whose insert had committed |
| `replayed` | an open record of a cancelled hold, which the provider replayed under the key |
| `late` | a hold recorded for a session that is over, by a slow gate or an operator |
| `uncancelled` | the last attempt to cancel the hold failed, or its process died |
| `begun` | a session closed between the link of its transaction and its event row |
| `released` | an operator cancelled the hold, of a session that may be charging |

Decisions. The operator asks once for a hold and once for its capture. The stale
cleanup comes hours later, so every request and projection has ended by then. The settlement of the Ended is one step
(`SessionPayment` is its detail), its projection never fails here
(`SessionProjection` has that). A Started that finds no waiting session gets one of
its own, which is not followed. An end of the transaction by the CSMS counts as an Ended.
Left out: guest starts, a start that takes over a waiting transaction, the second start
after TxInProgress, starts without a hold, and what changes a hold outside these
processes: a hold that lapses at the provider or is cancelled in its dashboard, and
the webhooks that report it.

## 3. Runs: what each shows, bounds, and why they are enough

TLC explores every state within the bounds. Each bound is a CONSTANT or a guard
named as a bound in the module.

**`call_lane`** (`MCCallLane`, four CALLs). Every interleaving of callers,
answers, timers, failed writes, reactions and the close. Three CALLs are needed
for a queue with an order (one out, two waiting), the fourth for a CALL that
arrives while the queue shrinks at both ends.
Shows: `OneOutstanding`, `NoLostHandOver`, `OnlyDeepQueueTimesOut` (the CALL
directly behind the open one always gets its turn, because the response timer in
front of it was armed first), `EveryCallSettles`, `ImplementsPromise`. The order of
the CALLs, the honesty of "not sent" and the finality of a verdict are proved
(section 5) and not run.

**`station_presence`** (two instances, three connects, one fault, two of these
events together and one more for a replaced socket that outlived its successor, lanes
no longer than 1 before a further message, a refresh only on an idle Redis
connection). Two connects give the move to another instance and the replacement on
the same one; the third one lets the station be back at the instance when a replaced
socket that closed after its successor publishes the second Disconnected. The
fault is a crash, a vanished socket, a lost Redis write or a failed projection.
The instance of the first connection is fixed, since the two are alike, and so is
that of the third, where the replaced socket was (`FirstInstance`): to a station
that went to the other one, a Disconnected of the first is what it is after two
connects. Without the bound on refreshes (`MaxOps`) a refresh could also join
writes that wait; fairness makes the instance refresh when they are applied.
Shows: `LiveIsHeld`, and that the two kinds of stability are reached in the end:
`ConnectedIsShownOnline`, `GoneIsShownOffline`, `HolderIsRegistered`. On the way
the flag and the registry may be wrong for a while; the liveness properties
say that heartbeats, the refresh with the ping cycle and the sweep repair them.

**`command_routing`** (two instances, two connects, one fault, three events, one
command, refreshes behind any number of waiting writes). One command suffices: rows and inboxes of different commands do not
interact. Shows: `SteadyStationGetsIt`, `QueuedIsStored`,
`DrainedOnce`.

**`command_twice`** (violation, the same instance). See 6.

**`auth_limiter`** (six requests, two slots, a queue of two). Two requests beyond
both limits, so refusals, expiries and hand-overs all meet. Shows: `TypeOK` (the
bounds), `NoIdleSlot`, and `NobodyWaitsForever` although tasks may hang. The exact
count and the order of arrival are proved (section 5) and not run.

**`projection_queue`** (four pieces of work in two lanes, two of them bounded,
`MaxPending` 1). Shows: `LaneIsSerial`, `PendingIsExact`,
`SettledIsIdle`, `QueuedWorkRuns`. `LaneIsSerial` and `SettledIsIdle` leave out
the lanes in `cut`: see 6.

**`session_payment`** (hold 2, final costs 0, 1 and 3, an operator who cancels or
captures 1, two requests, one fault). The costs are the free session (cancel),
the one below the hold and the one above it (top-up). Two requests let two
retries, two refunds, or a retry and a refund meet. Shows:
`NoSilentDivergence` (no interleaving separates record and provider without a
log line), `RefundedIsReal`, `RefundsFollowCapture`.

**`payment_total`** (violation, one request, no fault). See 6.

**`session_projection`** (one process, one resend, two runs per projection, one
claim of an end, one fault, one crash). One process is the case the code is
written for: one lane holds every event of the transaction. The three events in
any order with a resend, the end of the CSMS between any two steps of them, and a
fault that repeats or gives up one projection, or loses the row of an end, are the
interesting cases; one crash loses lane and buffer at any step. Shows: `ChargeIsFinal`,
`ActiveKeepsHold`, `BufferedWaitForStarted`, `ImplementsBilledSession`,
`RequestedEndEnds`, `DeliveredEndEnds`.

**`session_two_ends`** (violation, two processes, no fault, no crash). See 6.

**`reservation`** (a cron and the station's report as settlers, one fault). Every
writer of the row once, the cancel, edits and both expiries at any time; one fault
is a crash of a job or a run, a lost answer, a failed publish, a removed card, an
edit, or a cancel that overlaps another statement. Two runs that charge one fee
need no fault. Shows: `ImplementsHold`, `EverythingEnds` (no hold stays live after
its time, no due fee stays due, no ended session keeps its hold in use). The
refinement needs no bound on faults: it is proved (section 5).

**`remote_start`** (three tries of the delayed close, three faults, one hold and one
capture or cancel by an operator). The three attempts are the code's. Two faults let an
interrupted insert and a failed compensation or a crash meet; the third adds the retry
after them. Shows: `AllowedIsPaid` (while a transaction the gate allowed charges, its
session is active and the hold is there or captured, through every interleaving of the
three triggers, the three closers and the operator's capture, and
except in the cases it names: the stale cleanup, `begun`, and for the hold also
`reversed`, `replayed` and `released`, all of which the code does reach, section 6) and
`HoldReleased` (every hold is released or settled in the end). The former is proved for
any number of faults (section 5).

Deadlock is not checked: every system here may really stop, with no more
callers, connections or webhooks within the bounds.

## 4. Fairness

* `CallLane`: promise reactions run and expired timers fire, because the event
  loop runs both. Nothing is assumed of stations (they may never answer) or of
  callers.
* `ConnectionAuthLimiter`: only the waiters' timers fire. A verification may hang.
* `ProjectionQueue`: reactions run and a projection that runs ends: each is a
  finite number of queries with the database client's own timeouts. Nothing is
  assumed of `cleanup` and callers.
* `StationPresence`: a running instance ends its archive inserts, advances its
  lanes, gets answers from Redis (each lookup is answered or fails) and refreshes
  its entry with the ping cycle; a connected station keeps sending, since the
  server closes a silent socket; the ping cycle closes a dead socket; the
  registry TTL ends; the cron sweep keeps running. A lane has one step it can take
  at a time, and so has a Redis connection, so one condition covers the steps of each
  (`LaneAdvances`, `RedisAnswers`). A dead instance is assumed to
  do nothing, and connections and faults are never forced.
* `CommandRouting`, `SessionPayment`: safety only, no fairness.
* `SessionProjection`: a process that lives works off its lanes and its sweep,
  archive inserts end, leases run out, the sweep gives up what never ends. Nothing
  is assumed of stations or operators; faults are bounded, so a rerun ends.
* `Reservation`: time passes, the crons and the reconciliation run again and
  again, the steps of a session's projections go on. Nothing is assumed of the
  activation job, of the station or of people.

* `RemoteStart`: requests, projections and jobs run on, and the portal stops waiting
  for its answer. The stale cleanup comes as long as the station does not charge: it
  skips a session the station still reports. Nothing is assumed of the station or of
  people, and no crash is forced.

The liveness properties of `StationPresence` have the form "if the station is
from some point on connected to one instance, then ...": a station that keeps
moving is promised nothing, and the code promises it nothing.

## 5. Proofs

TLAPS checks the theorems below for every value of the constants.

**CallLane** (`CallLaneProofs`, for any set `Calls`, finite or not). The
properties are not inductive. The invariant `IInv` adds, to `TypeOK`:

* `LaneInv`: the lane is busy exactly while a CALL is out or about to hand it
  over, and then exactly one is; a closed lane has nothing out. A settled CALL keeps the lane
  until its reaction ran, so "nothing is out" alone would not be preserved by
  `sendCall`.
* `StatusInv`: a CALL's status says where it is (queue, out, settled), so a CALL
  is never in two places, and a timer or an answer finds only its own.
* `StampInv`: the stamps agree with the status and lie in the past.
* `QueueInv`: the queue holds each waiting CALL once, in the order of `askedAt`.
  `SentInOrder` needs it: the head that is sent next was asked for before all
  others that wait.
* `UnsentIsUnsent`, `SentInOrder`, `OnlyDeepQueueTimesOut` themselves.

From it: `TypeCorrect`, `OneOutstandingHolds`, `LaneNeverLost`, `OrderAndHonesty`,
`FirstInQueueIsServed`, `VerdictStays`, and `Refinement`: the lane implements
`OutboundCalls`, one step of the lane being one step of the promise or none.

**ConnectionAuthLimiter** (`ConnectionAuthLimiterProofs`, for any finite set of
requests and any two limits in Nat: `RequestsAssumption`, `LimitsAssumption`).
`IInv` is `TypeOK`, `QueueIsWaiters` (the queue holds exactly the waiting
requests, each once), `CounterIsExact` and `NoIdleSlot`. The counter stays exact
through a hand-over only because the request that takes the slot was waiting,
which `QueueIsWaiters` says. From it: `BoundsHold`, `CountIsExact`,
`SlotsAreUsed`, `ArrivalOrder`.

**ProjectionQueue** (`ProjectionQueueProofs`, for any set of lanes, any finite set
of work and any bound: `NothingAssumption`, `WorkAssumption`, `BoundAssumption`).
The invariant says how the chain keeps a lane serial although each piece of work
waits only for one predecessor:

* `LinksInv`: tails and predecessors are enqueued work of the same lane.
* `BehindInv`: everything unfinished in a lane is the tail, or was unfinished when
  the tail was enqueued. `TailInv`: so a settled tail means an idle lane.
* `SinceInv`: what was unfinished when a piece of work was enqueued is its
  predecessor, or was unfinished when the predecessor was enqueued, or is done.
* `LaneIsSerial`, `PendingIsExact`, `BoundHolds`.

All parts about a chain leave out the lanes in `cut`. From it: `TypeCorrect`,
`WorkIsSerial`, `BoundIsKept`, and `SettledMeansIdle` (an action property).

**Reservation** (`ReservationProofs`, for any set of settlers and any number of
faults: `SettlersAssumption`, `FaultsAssumption`). `TypeCorrect`, and `Refinement`:
every step of the row, the jobs, the station and the provider is one step of
`HeldReservation` or none. The promise speaks of who may cost the driver money; a
run that charges read its reasons several steps ago, and `IInv` says why they still
hold:

* `ChargerInv`: one run at a time charges a fee, and the record of that fee is
  pending meanwhile. The insert of the record is what excludes the others; records
  are resumed only when nobody charges them.
* `RecordInv`, `MarkInv`: what a record tells of the provider, and what a run is
  about to write to it, is true, or the outcome was written off (`unsure`).
* `FeeInv`: no record of a no-show fee exists before the fee is due, a pending one
  means it is due or written off, and the verdict a settler carries to the fee
  state is true as long as the fee is due (`Verdict`).
* `CancelInv`: only a person's cancel, or a cancel that wrote over another end, is
  followed by a cancellation fee. `HistoryInv`, `KindInv`, `InflightInv` tie the
  history variables, the runs and the count of requests to the row.

**CommandRouting** (`CommandRoutingProofs`, for any set of instances and of commands,
any `Nobody` outside the instances and any bounds: `NobodyAssumption`,
`BoundsAssumption`). The proof first states what `Append` and `Tail` do to a queue
and to "at most once in it" (`OnceIn`), then `IInv`:

* `SocketRanges`, `CommandRanges`: the ranges, in the form the steps preserve
  (`Nat` for the counters), with `LiveIsHeld`, and with a connection behind every
  socket that has not closed (`ReplacedAt`).
* `ReadyInv`: an instance owes no more drains than the station made connections,
  and one less while the socket in use has not answered yet. `TypeOK` bounds
  `readyDue` by that.
* `DrainInv`: a claim belongs to one drain and its row is marked sent; a command
  that is claimed, or can still be claimed, was drained only by publishes that failed. `DrainedOnce` alone
  would not survive the next claim.
* `QueuedIsStored` itself.
* `CommandInv`: a command nobody called is nowhere (`Uncalled`: the call would
  otherwise add a second copy), and a steady one is on its way (`OnItsWay`): in front of
  the live instance in one place, its inbox or its lookup, and once; or gone from there and
  then answered. What other instances do with their copies cannot answer
  for it, since the registry names the live one.

From it: `TypeCorrect`, `OneDrain`, `QueuedStored`, `SteadyDelivery`. `NoQueue` needs a
second invariant and a finite set of instances: a command that may not be
queued has run at most as often as there are instances that no longer have a copy
of it in front of them (`NoQueueInv`). No run checks `NoQueueNeverWaits`.

**StationPresence** (in the same module, through an instance of it, with the variables
and the bound it adds as those of the proof module). `LiveHeld` states `LiveIsHeld` for
the sockets of both components. `PresenceTypes` states the type invariant, which also
says that a lane does not pass a Disconnected projection that waits. `PresenceInv` adds
to the ranges:

* `LaneAt`: a command a projection waits for is once on the Redis connection of its
  instance, the projection that waits is at the head of the lane, and the Disconnected
  one no longer waits once it is past its lookup. Only so does an answer move the lane by
  the one projection it belongs to. It needs `WaiterAssumption`: a write nobody waits
  for must not look like the Heartbeat's, which the name chosen for `Nobody` could
  spoil in the model; the code has no such name.
* `ArchivesAt`: an instance has opened a connection for each Connected it archives, and
  one for each Disconnected, for the socket it still holds and for each replaced one:
  a replaced socket may still publish a Disconnected of its own.

**SessionPayment** (`SessionPaymentProofs`, for any hold, any bounds, and any set of
costs that has a largest one: `CostsAssumption`; the column is a number of cents with a
largest value, and `TypeOK` bounds the captured total by it).
`RefundAfterCapture` proves the action property `RefundsFollowCapture`. The step
that asks for a refund looks at the record, not at the provider; what makes it right is
`CaptureInv`: until the hold is collected, no refund exists, a synchronous capture
was neither accepted nor is any task recording one, no good news of a
capture is on its way or being applied, and a record that says captured also
says that this waits for a confirmation, which the refund's guard respects. `Shape`
and `Kinds` keep the fields of the records and what a task is doing; ranges of
amounts do not matter to it.

`PaymentTypes` proves `TypeOK`; its invariant `Typed` gives every entry of the record,
the provider, the tasks, the retries and the webhooks its set of values. On it rest:

* `BooksAgree` (`NoSilentDivergence`), from `BookInv`. `HoldTaken`: what the provider took
  of the hold is the capture asked for, or nothing. `Booking`, as long as no log line
  was written: before anyone has asked, nothing is taken; between the answer to one task
  and its write, exactly what that task asked for (`AskedBy`); afterwards the record
  holds that amount, or the cost once a retry has charged the difference (`Accounted`).
  A retry's charge is on the record, or in the hands of a retry that read the captured total
  before it changed: this is why two retries cannot charge twice for one shortfall,
  their keys name what they read.
* `RefundsAreReal` (`RefundedIsReal`), from `MoneyInv`, and without an exception for
  faults. For an asynchronous provider the record counts only entries that the provider has
  settled (`Ledgered`). For a synchronous one the argument goes charge by charge
  (`ByCharge`): the record counts for no charge more than the provider gave back of it. A
  refund whose write was lost is at the provider and not on the record, and is asked for
  again; the provider then replays the first one under the same key. So every refund at the
  provider whose key can still be asked for must be one that asking again does not make
  larger (`Repeatable`): the record would otherwise count the larger amount. While the
  record is captured, retries may still raise its total, and with it what a full refund
  means: `Settles` says that either the key then changes, or the
  charge cannot yield more.

Both invariants speak of sums over charges and over refunds. A fact about the sum
over every finite set is an induction, and the library's theorem for it takes an
operator, which the provers cannot instantiate. `Induct` states it for a family of sets
instead, and is proved from the well-foundedness of the strict subset order (`WFMin`,
`FS_StrictSubsetOrderingWellFounded`): a least set outside the family would have to
be non-empty, and the family has it less one element.

**SessionProjection** (`SessionProjectionProofs`, for any bounds). `TypeCorrect` holds
for any set of processes; its invariant adds which event a run at each step
projects (`StepInv`). The other theorems take `OneProcess`: all events of the
transaction, the ends of the CSMS among them, are projected by one
process. The code does not give more: with two, TLC finds each of the four
violated (`session_two_ends` keeps the first, section 6). The hypothesis is met as
long as the station stays connected to the process that claims its ends,
through any number of reruns, crashes and restarts. The invariant:

* `SessionInv`: the status of the row against its bill, its hold and the rows of events.
* `KnowsInv`: what the run at the head of the lane knows: it has a session, the
  session has ended, its end is marked. A settlement meets an active session only when
  its Ended was given up.
* `DecidedInv`: once an end made the bill, and unless the row that marks it was lost,
  the only run that can still bill is a rerun of that same end. `ChargeIsFinal` is not
  inductive without it: a late end that passed its check earlier would bill again.
* `WaitInv`: what waits in the buffer of an active session is drained by the run that
  opened it.

From it (`OneProcessInvariant`): `FinalCharge`, `ActiveHold`, `BufferWaits`, and
`Implementation`: every step of a projection, of the CSMS's ends, of the sweep and of a
crash is one step of `BilledSession` or none.

**RemoteStart** (`RemoteStartProofs`, for any bounds). `TypeCorrect`, with `TriesInv`
(the delayed close is queued again only while it has attempts left), and
`AllowedPaid`. What a gate was told is used several steps later, while three
triggers may place a hold and three closers close the start; the invariant says why it
is still true:

* `OrderInv`: a station has heard of the start only after the portal sent it, so
  the portal's own refusal never meets a transaction.
* `CloserInv`: a closer looks for a hold only after it closed the session.
* `LinkedInv`: from its link to its end a transaction keeps its session active,
  unless the gate stops it.
* `RecordInv`: the record of an active session is open or captured once a trigger was
  told it may go on, and the provider then has the hold or the money.
* `OperatorInv`: an operator writes to the record only what the provider has done, and
  a cancel of an active session's hold is on the list of exceptions before it is
  written.
* `VerdictInv`: the gate allowed what its own placement was told.

`LinkedInv` and `RecordInv` name what `AllowedIsPaid` excepts, and nothing more
(`GivenUp` for the session, `Gone` for the hold).

`CallLaneProofs` and `ConnectionAuthLimiterProofs` each state what `RemoveAt` does to the
elements of a queue, to the absence of repetitions and to the order. Every
invariant above was checked by TLC on the instance of its run before it was
proved.

Only model-checked:

* Liveness (`EveryCallSettles`, `NobodyWaitsForever`, `QueuedWorkRuns`,
  `RequestedEndEnds`, `DeliveredEndEnds`, `EverythingEnds`, `HoldReleased`, and that of
  `StationPresence`): out of the prover's reach.

Every type invariant, safety invariant and action property of the passing runs, and every
refinement among them, is stated by a theorem. The four of `session_projection` after its
types are proved under `OneProcess` (above).

## 6. What the models disagree with

Three runs end in a violation that TLC finds, each of a sentence in the code or
its comments:

* `command_twice`: while the registry has no entry, the instance that holds the
  station sends a command and every other instance queues it; the drain then runs
  it a second time. The comment of the drain says at most once.
* `payment_total`: an operator's retry of a shortfall does not look at the
  record's status. Before the settlement has written, it takes the captured total
  as 0 and charges the whole cost on top; no log line says so.
* `session_two_ends`: the end of the CSMS is projected in the lane of the process
  that claimed it, the station's Ended in the lane of the process that holds the
  station. Both pass the check for a late end before either has written its row,
  and the final cost is stored twice, once after the settlement. The comment says
  the end is projected in order with any event of that transaction.

Other behaviour the models had to include, which no run reports:

* The projection of an old close looks the registry up and updates `is_online` in a
  later statement. A station that registers elsewhere in between is marked offline,
  although the comment says only the old connection closed. The next logged message
  repairs it (`ConnectedIsShownOnline` holds).
* Registering is unconditional: a late Heartbeat projection of the old instance
  takes the registry entry back until the station's next heartbeat at the new one
  registers again.
* A projection lane is forgotten by the age of its last enqueue, so work queued
  after that may run beside work that is still running. Ten minutes make it rare;
  `cut` marks these lanes, and `LaneIsSerial` and `SettledIsIdle` exclude them.
* A top-up of the settlement whose answer was lost is taken for declined and
  charged again by the retry under another key (`told` has `"lost"`).
* A webhook that read the record before the settlement wrote leaves a record
  waiting for a confirmation that has passed; the daily reconciliation reports it.
* A top-up stays charged when an asynchronous capture fails afterwards; a warning
  is logged (`"not collected"`).
* A row inserted just after a Ready was drained waits for the next reconnect.
* A caller that gave up after 35 seconds is told timeout, and its command may run
  later.
* The settlement of an Ended runs although its projection was given up: it finds no
  final cost and releases the hold of a session that is still active
  (`ActiveKeepsHold` names `gaveUp`).
* The cancel of a reservation compares the status in a CTE that locks nothing. A
  use, an expiry or another cancel committed between its snapshot and its write is
  written over, although the comment says only one concurrent cancel can win
  (`Overwrite` of `HeldReservation`, `overwrote`).
* An interrupted insert of the row that marks a session as ended is only warned
  about. A later end finds no row, runs in full and prices the session again, also
  after the hold was captured (`unmarked`, `BillAgain` of `BilledSession`).
* A session is linked to a reservation that ended after the candidates were read;
  its no-show fee stays due (`late`).
* The activation job moves a reservation to in_use and links the session in two
  writes. An Ended between them finds no link, and the reservation stays in_use
  for ever (`missed`).
* A card removed, a payout account not ready or a lost answer makes a no-show fee
  fail although the money was taken; a fee given up after 24 hours stays failed
  when its record is captured later (`unsure`).

* The close of a start guards on the event row of its transaction, which is written
  after the link. A close between the two fails a session whose transaction has
  begun, and the gate then allows it (`begun`).
* `POST /sessions/:id/capture` does not look at the session's status. Without an
  amount it takes the final cost, which an active session does not have, and cancels
  the hold of a session that charges; the gate is not asked again (`released`).
* A replaced socket that closes after its successor unregisters again and publishes a
  second `station.Disconnected`, although the comment in the close handler says that a
  replaced connection is not a disconnect. The station may have connected again by
  then; the registry, heartbeats and messages repair the flag (`CloseOutliving`).
* A compensation of one trigger cancels the hold another one recorded, and a retry
  after a compensation records the cancelled hold, which the provider replays under
  the key; the gate then allows a transaction whose card is not held (`reversed`,
  `replayed`).
* A portal start refused for its own failure leaves the hold another trigger
  recorded; an operator may place a hold on a session that has ended (`refused`,
  `late`).
* A lost answer to the authorisation is recorded as a failed hold although the
  provider may hold the money (`adrift`).

Read, but not modelled yet: the dedup cache stores a response in a map that the
cleanup may have removed, and a retransmission before the first response runs the
handler twice; buffered transaction events are published again behind newer ones.

## 7. Abstractions, what is left out, and the plan

Left out of the modelled parts: payloads, message texts, logging, metrics,
notifications, the 1.6 and 2.x differences in message formats, and the
credentials check. One station or one session is modelled at a time: the code
keys all this state by station, transaction or payment. Two stations meet only in the
limiter. Redis and PostgreSQL do not fail as a whole; single writes do.

Not modelled: user interfaces, simulators, generators, reports, notifications,
schema (`PROJECT.json` gives each reason), and the parts below, in this order.

1. Guest starts, and raising a hold, as extensions of `RemoteStart` and
   `SessionPayment`.
2. `JobLease`: the Redis lock with renewal, expiry and the work under it; two
   holders at once only after a lease ran out, and the jobs' own guards against
   doing work twice.
3. Load allocation and price segments as functions, each against a reference
   definition over all small site trees and tariffs.
4. Inbound pipeline: dedup, boot guard and handlers.

Proofs to add: what of `SessionProjection` still holds with two processes (a session
leaves `active` once).
