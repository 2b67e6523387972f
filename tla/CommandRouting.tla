--------------------------- MODULE CommandRouting ---------------------------
(***************************************************************************)
(* A command on its way from a caller to the station: published to every   *)
(* OCPP server instance over Redis, routed by the connection registry,     *)
(* queued in the database when the station is away, drained when it is     *)
(* back:                                                                   *)
(*   packages/ocpp/src/server/command-listener.ts (handleNotification)     *)
(*   packages/ocpp/src/server/command-dispatcher.ts (sendCommand)          *)
(*   packages/ocpp/src/server/offline-queue-drain.ts                       *)
(*   packages/ocpp/src/server/event-projections.ts (station.Ready,         *)
(*   command.Queued), packages/worker/src/handlers/offline-command-cleanup *)
(*   and the caller, packages/api/src/routes/ocpp-commands.ts.             *)
(* The CALL on the socket itself is CallLane; here it takes one step.      *)
(*                                                                         *)
(*   noQueue  - commands never to be queued: the caller set noQueue, or they *)
(*              change credentials                                         *)
(*   inbox    - commands published and not yet received, by instance       *)
(*   ready    - instances that announced station.Ready on their socket     *)
(*   readyDue - station.Ready events not yet projected, by instance        *)
(*   queueDue - command.Queued events not yet projected, by instance       *)
(*   claimed  - commands a drain has claimed and not published             *)
(*   row      - the offline_command_queue row of each command              *)
(*   told     - what the caller of each command knows                      *)
(*   ran      - how often the station has executed each command            *)
(*   drained  - how often drains have published each command               *)
(*   steady   - published commands since whose publish the registry has    *)
(*              named the instance the station uses (history)              *)
(***************************************************************************)
EXTENDS StationSockets

CONSTANT
    Commands    \* commands callers make, all for this station

VARIABLES noQueue, inbox, ready, readyDue, queueDue, claimed, row, told, ran, drained, steady

queueVars == <<readyDue, queueDue, claimed, row, drained>>
callVars  == <<inbox, told, ran>>
vars      == <<socketVars, queueVars, callVars, noQueue, ready, steady>>

Init ==
    /\ SocketInit
    /\ noQueue \in SUBSET Commands
    /\ inbox = [i \in Instances |-> <<>>]
    /\ ready = {}
    /\ readyDue = [i \in Instances |-> 0]
    /\ queueDue = [i \in Instances |-> {}]
    /\ claimed = [i \in Instances |-> {}]
    /\ row = [c \in Commands |-> "none"]
    /\ told = [c \in Commands |-> "nothing"]
    /\ ran = [c \in Commands |-> 0]
    /\ drained = [c \in Commands |-> 0]
    /\ steady = {}

Lookup(c) == Op("lookup", c)

\* PUBLISH reaches the instances that run now.
Publishes(c) ==
    inbox' = [i \in Instances |-> IF i \in up THEN Append(inbox[i], c) ELSE inbox[i]]

\* The first result a caller gets is the one it reports.
Tells(c, what) ==
    told' = [told EXCEPT ![c] = IF @ = "waiting" THEN what ELSE @]

(***************************************************************************)
(* The caller                                                              *)
(***************************************************************************)
Call(c) ==
    /\ told[c] = "nothing"
    /\ told' = [told EXCEPT ![c] = "waiting"]
    /\ Publishes(c)
    /\ UNCHANGED <<socketVars, queueVars, ready, ran>>

\* RESPONSE_TIMEOUT_MS pass without a result.
GiveUp(c) ==
    /\ told[c] = "waiting"
    /\ told' = [told EXCEPT ![c] = "timeout"]
    /\ UNCHANGED <<socketVars, queueVars, ready, inbox, ran>>

(***************************************************************************)
(* CommandListener.handleNotification                                      *)
(***************************************************************************)
Receive(i) ==
    /\ inbox[i] # <<>>
    /\ inbox' = [inbox EXCEPT ![i] = Tail(@)]
    /\ Issue(i, Lookup(Head(inbox[i])))
    /\ UNCHANGED <<up, held, live, replaced, owner, spent, queueVars, ready, told, ran>>

\* The registry names another instance: leave the command to it.
Skip ==
    UNCHANGED <<queueDue, told, ran>>

\* The socket is there but the station is not: the CALL times out.
SendToDeadSocket(i, c) ==
    /\ i \in held /\ live # i
    /\ Tells(c, "timeout")
    /\ UNCHANGED <<queueDue, ran>>

\* The station runs the command, or refuses it: it may answer SecurityError
\* until it is ready.
SendToStation(i, c) ==
    /\ i \in held /\ live = i
    /\ \/ /\ ran' = [ran EXCEPT ![c] = @ + 1]
          /\ Tells(c, "ran")
       \/ /\ i \notin ready
          /\ UNCHANGED ran
          /\ Tells(c, "refused")
    /\ UNCHANGED queueDue

\* Mutant: the noQueue flag is looked at after the queue.
QueueAnything(i, c) ==
    /\ i \notin held
    /\ queueDue' = [queueDue EXCEPT ![i] = @ \union {c}]
    /\ Tells(c, "queued")
    /\ UNCHANGED ran

\* Mutant: the caller is told before the command.Queued event is published,
\* and the event is not published.
TellOnly(i, c) ==
    /\ i \notin held
    /\ Tells(c, IF c \in noQueue THEN "offline" ELSE "queued")
    /\ UNCHANGED <<queueDue, ran>>

\* "is not connected": queue the command, unless it is one never to be queued.
NotConnected(i, c) ==
    /\ i \notin held
    /\ IF c \in noQueue
       THEN Tells(c, "offline") /\ UNCHANGED queueDue
       ELSE Tells(c, "queued") /\ queueDue' = [queueDue EXCEPT ![i] = @ \union {c}]
    /\ UNCHANGED ran

Dispatch(i, c) ==
    SendToDeadSocket(i, c) \/ SendToStation(i, c) \/ NotConnected(i, c)

\* Mutant: the instance looks at its own sockets only.
RouteLocally(i, c) == Dispatch(i, c)

Route(i, c) ==
    IF owner \notin {Nobody, i} THEN Skip ELSE Dispatch(i, c)

LookupAnswered(i) ==
    /\ ops[i] # <<>>
    /\ Head(ops[i]).kind = "lookup"
    /\ ops' = [ops EXCEPT ![i] = Tail(@)]
    /\ Route(i, Head(ops[i]).for)
    /\ UNCHANGED <<up, held, live, replaced, owner, spent,
                   readyDue, claimed, row, drained, ready, inbox>>

\* A failed lookup dispatches.
LookupFailed(i) ==
    /\ ops[i] # <<>>
    /\ Head(ops[i]).kind = "lookup"
    /\ MayFail
    /\ Spend("faults")
    /\ ops' = [ops EXCEPT ![i] = Tail(@)]
    /\ Dispatch(i, Head(ops[i]).for)
    /\ UNCHANGED <<up, held, live, replaced, owner,
                   readyDue, claimed, row, drained, ready, inbox>>

(***************************************************************************)
(* The offline queue                                                       *)
(***************************************************************************)

\* Mutant: a row that left pending is queued again.
RequeueRow(i, c) ==
    /\ c \in queueDue[i]
    /\ queueDue' = [queueDue EXCEPT ![i] = @ \ {c}]
    /\ row' = [row EXCEPT ![c] = "pending"]
    /\ UNCHANGED <<socketVars, callVars, ready, readyDue, claimed, drained>>

\* The command.Queued projection, in the lane of station.Ready: ON CONFLICT (command_id) DO NOTHING.
InsertRow(i, c) ==
    /\ c \in queueDue[i] /\ claimed[i] = {}
    /\ queueDue' = [queueDue EXCEPT ![i] = @ \ {c}]
    /\ row' = [row EXCEPT ![c] = IF @ = "none" THEN "pending" ELSE @]
    /\ UNCHANGED <<socketVars, callVars, ready, readyDue, claimed, drained>>

\* announceReady: the first message of a reconnected station, or its accepted
\* BootNotification.
AnnounceReady(i) ==
    /\ live = i
    /\ i \notin ready
    /\ ready' = ready \union {i}
    /\ readyDue' = [readyDue EXCEPT ![i] = @ + 1]
    /\ UNCHANGED <<socketVars, callVars, queueDue, claimed, row, drained>>

\* Mutant: the claim reads the pending rows and marks them after the publish.
ClaimUnmarked(i) ==
    /\ readyDue[i] > 0 /\ claimed[i] = {}
    /\ readyDue' = [readyDue EXCEPT ![i] = @ - 1]
    /\ claimed' = [claimed EXCEPT ![i] = {c \in Commands : row[c] = "pending"}]
    /\ UNCHANGED <<socketVars, callVars, ready, queueDue, row, drained>>

\* The station.Ready projection claims the pending rows in one UPDATE.
Claim(i) ==
    /\ readyDue[i] > 0 /\ claimed[i] = {}
    /\ readyDue' = [readyDue EXCEPT ![i] = @ - 1]
    /\ LET due == {c \in Commands : row[c] = "pending"}
       IN  /\ claimed' = [claimed EXCEPT ![i] = due]
           /\ row' = [c \in Commands |-> IF c \in due THEN "sent" ELSE row[c]]
    /\ UNCHANGED <<socketVars, callVars, ready, queueDue, drained>>

DrainPublishes(i, c) ==
    /\ c \in claimed[i]
    /\ claimed' = [claimed EXCEPT ![i] = @ \ {c}]
    /\ drained' = [drained EXCEPT ![c] = @ + 1]
    /\ Publishes(c)
    /\ UNCHANGED <<socketVars, ready, readyDue, queueDue, row, told, ran>>

\* The publish fails, with or without having reached Redis; the row goes back
\* to pending unless it expired or that update fails too.
DrainFails(i, c) ==
    /\ c \in claimed[i]
    /\ MayFail
    /\ Spend("faults")
    /\ claimed' = [claimed EXCEPT ![i] = @ \ {c}]
    /\ \/ Publishes(c) /\ drained' = [drained EXCEPT ![c] = @ + 1]
       \/ UNCHANGED <<inbox, drained>>
    /\ \E back \in {"pending", "sent"} : row' = [row EXCEPT ![c] = back]
    /\ UNCHANGED <<up, held, live, replaced, owner, ops,
                   ready, readyDue, queueDue, told, ran>>

\* The worker expires a pending row whose time ran out.
ExpireRow(c) ==
    /\ row[c] = "pending"
    /\ row' = [row EXCEPT ![c] = "expired"]
    /\ UNCHANGED <<socketVars, callVars, ready, readyDue, queueDue, claimed, drained>>

(***************************************************************************)
(* Sockets, as in StationSockets                                           *)
(***************************************************************************)
StationConnects(i) ==
    /\ Connect(i)
    /\ ready' = ready \ {i}
    /\ UNCHANGED <<queueVars, callVars>>

SocketCloses(i) ==
    /\ Close(i)
    /\ ready' = ready \ {i}
    /\ UNCHANGED <<queueVars, callVars>>

InstanceCrashes(i) ==
    /\ Crash(i)
    /\ ready' = ready \ {i}
    /\ inbox' = [inbox EXCEPT ![i] = <<>>]
    /\ readyDue' = [readyDue EXCEPT ![i] = 0]
    /\ queueDue' = [queueDue EXCEPT ![i] = {}]
    /\ claimed' = [claimed EXCEPT ![i] = {}]
    /\ UNCHANGED <<row, told, ran, drained>>

SocketsOnly ==
    /\ \/ \E i \in Instances :
             \/ CloseReplaced(i) \/ CloseOutliving(i)
             \/ ApplyWrite(i) \/ LoseWrite(i) \/ Refresh(i)
       \/ Vanish
       \/ Expire
    /\ UNCHANGED <<queueVars, callVars, ready>>

Step ==
    \/ \E c \in Commands : Call(c) \/ GiveUp(c) \/ ExpireRow(c)
    \/ \E i \in Instances :
          \/ Receive(i)
          \/ LookupAnswered(i)
          \/ LookupFailed(i)
          \/ AnnounceReady(i)
          \/ Claim(i)
          \/ \E c \in Commands :
                InsertRow(i, c) \/ DrainPublishes(i, c) \/ DrainFails(i, c)
          \/ StationConnects(i)
          \/ SocketCloses(i)
          \/ InstanceCrashes(i)
    \/ SocketsOnly

Stays == live # Nobody /\ owner = live /\ owner' = owner /\ live' = live

Next ==
    /\ Step
    /\ UNCHANGED noQueue
    /\ steady' = {c \in Commands :
                     Stays /\ (c \in steady \/ (told[c] = "nothing" /\ told'[c] # "nothing"))}

Spec == Init /\ [][Next]_vars

(***************************************************************************)
(* Properties                                                              *)
(***************************************************************************)
Verdicts == {"nothing", "waiting", "ran", "refused", "queued", "offline", "timeout"}

\* Every variable stays in its range; a row leaves pending once.
TypeOK ==
    /\ SocketTypeOK
    /\ ready \subseteq held
    /\ \A i \in Instances :
          /\ ToSet(inbox[i]) \subseteq Commands
          /\ readyDue[i] \in 0 .. MaxConnects
          /\ queueDue[i] \subseteq Commands \ noQueue
          /\ \A c \in claimed[i] : row[c] = "sent"
    /\ \A c \in Commands :
          /\ row[c] \in {"none", "pending", "sent", "expired"}
          /\ told[c] \in Verdicts
    /\ steady \subseteq Commands /\ noQueue \subseteq Commands

InFlight(c) ==
    \E i \in Instances : c \in ToSet(inbox[i]) \/ Lookup(c) \in ToSet(ops[i])

Queued(c) ==
    row[c] # "none" \/ \E i \in Instances : c \in queueDue[i]

\* As long as the registry names the instance the station uses and nothing
\* fails, a command reaches the station over that instance, exactly once, and
\* no other instance queues it or answers for it.
SteadyStationGetsIt ==
    spent.faults = 0 =>
        \A c \in steady :
            /\ ~Queued(c)
            /\ told[c] \in {"waiting", "timeout", "ran", "refused"}
            /\ ran[c] <= 1
            /\ ~InFlight(c) => told[c] \in {"timeout", "ran", "refused"}

\* A caller told that its command is queued can rely on it as long as nothing
\* fails: the row exists or is being written.
QueuedIsStored ==
    \A c \in Commands : told[c] = "queued" /\ spent.faults = 0 => Queued(c)

\* A partner's command or a credential change never waits for a reconnect.
NoQueueNeverWaits ==
    \A c \in noQueue : ~Queued(c) /\ drained[c] = 0 /\ ran[c] <= Cardinality(Instances)

\* Two drains at once, a repeated Ready, a command queued by several instances
\* or queued again by a failed delivery: a command is drained once, and once
\* more for each publish that failed.
DrainedOnce ==
    \A c \in Commands : drained[c] <= 1 + spent.faults

\* "at most once: a station command such as a reset or a remote start must not
\* run twice": a command the drain publishes is run once.
RunsAtMostOnce ==
    \A c \in Commands : drained[c] > 0 => ran[c] <= 1
=============================================================================
