--------------------------- MODULE StationPresence --------------------------
(***************************************************************************)
(* Whether the rest of the system sees the station as online: the          *)
(* projections of station.Connected, station.Disconnected, ocpp.Heartbeat  *)
(* and ocpp.MessageLog (packages/ocpp/src/server/event-projections.ts),    *)
(* the event bus that feeds them (packages/lib/src/events.ts) and the      *)
(* worker's offline sweep (packages/worker/src/handlers/                   *)
(* station-offline-sweep.ts, packages/database/src/lib/station-offline.ts). *)
(*                                                                         *)
(* station.Connected and station.Disconnected are first archived in the    *)
(* database, each on a connection of its own, and join the projection lane *)
(* of the station in the order their inserts end; message log and          *)
(* heartbeat events are not archived and join the lane at once.            *)
(*                                                                         *)
(*   archiving - events being archived, by instance and kind               *)
(*   lane      - events of the station's projection lane, by instance      *)
(*   leaving   - a station.Disconnected projection is past its lookup       *)
(*   online    - charging_stations.is_online                               *)
(*   recent    - last_heartbeat is younger than the sweep threshold        *)
(*   sweep     - the sweep saw a stale online station without an entry     *)
(***************************************************************************)
EXTENDS StationSockets

CONSTANT MaxLane    \* bound: a station sends only while lanes are shorter than this

VARIABLES archiving, lane, leaving, online, recent, sweep

presenceVars == <<archiving, lane, leaving, online, recent, sweep>>
vars == <<socketVars, presenceVars>>

Archived == {"Connected", "Disconnected"}
Events   == Archived \union {"Heartbeat", "MessageLog"}

Lookup == Op("lookup", "Disconnected")

Init ==
    /\ SocketInit
    /\ archiving = [i \in Instances |-> [k \in Archived |-> 0]]
    /\ lane = [i \in Instances |-> <<>>]
    /\ leaving = [i \in Instances |-> FALSE]
    /\ online = FALSE
    /\ recent = FALSE
    /\ sweep = FALSE

(***************************************************************************)
(* Publishing                                                              *)
(***************************************************************************)
Publishes(i, k) ==
    archiving' = [archiving EXCEPT ![i][k] = @ + 1]

StationConnects(i) ==
    /\ Connect(i)
    /\ Publishes(i, "Connected")
    /\ UNCHANGED <<lane, leaving, online, recent, sweep>>

SocketCloses(i) ==
    /\ Close(i)
    /\ Publishes(i, "Disconnected")
    /\ UNCHANGED <<lane, leaving, online, recent, sweep>>

\* A replaced socket that closes after its successor publishes a Disconnected of
\* its own.
OutlivingCloses(i) ==
    /\ CloseOutliving(i)
    /\ Publishes(i, "Disconnected")
    /\ UNCHANGED <<lane, leaving, online, recent, sweep>>

InstanceCrashes(i) ==
    /\ Crash(i)
    /\ archiving' = [archiving EXCEPT ![i] = [k \in Archived |-> 0]]
    /\ lane' = [lane EXCEPT ![i] = <<>>]
    /\ leaving' = [leaving EXCEPT ![i] = FALSE]
    /\ UNCHANGED <<online, recent, sweep>>

\* InMemoryEventBus.process: the archive insert ended, the event is queued.
Archive(i, k) ==
    /\ archiving[i][k] > 0
    /\ archiving' = [archiving EXCEPT ![i][k] = @ - 1]
    /\ lane' = [lane EXCEPT ![i] = Append(@, k)]
    /\ UNCHANGED <<socketVars, leaving, online, recent, sweep>>

\* The station sends a message: every message is logged, a Heartbeat also has
\* a projection of its own.
Message(i, isHeartbeat) ==
    /\ live = i
    /\ \A j \in Instances : Len(lane[j]) < MaxLane
    /\ lane' = [lane EXCEPT ![i] =
                  @ \o (IF isHeartbeat THEN <<"MessageLog", "Heartbeat">> ELSE <<"MessageLog">>)]
    /\ UNCHANGED <<socketVars, archiving, leaving, online, recent, sweep>>

(***************************************************************************)
(* Projections                                                             *)
(***************************************************************************)
AtHead(i, k) == lane[i] # <<>> /\ Head(lane[i]) = k
Done(i)     == lane' = [lane EXCEPT ![i] = Tail(@)]

\* Mutant: an inbound message bumps last_heartbeat only.
MessageOnlyBumps(i) ==
    /\ AtHead(i, "MessageLog")
    /\ Done(i)
    /\ recent' = TRUE
    /\ UNCHANGED <<socketVars, archiving, leaving, online, sweep>>

ProjectMessageLog(i) ==
    /\ AtHead(i, "MessageLog")
    /\ Done(i)
    /\ online' = TRUE
    /\ recent' = TRUE
    /\ UNCHANGED <<socketVars, archiving, leaving, sweep>>

ProjectConnected(i) ==
    /\ AtHead(i, "Connected")
    /\ Done(i)
    /\ online' = TRUE
    /\ recent' = TRUE
    /\ UNCHANGED <<socketVars, archiving, leaving, sweep>>

\* ocpp.Heartbeat: bump last_heartbeat, then set the registry entry without a
\* look at who owns it, and wait for the answer.
HeartbeatRegister == Op("register", "Heartbeat")

ProjectHeartbeat(i) ==
    /\ AtHead(i, "Heartbeat")
    /\ HeartbeatRegister \notin ToSet(ops[i])
    /\ recent' = TRUE
    /\ Issue(i, HeartbeatRegister)
    /\ UNCHANGED <<up, held, live, replaced, owner, spent,
                   archiving, lane, leaving, online, sweep>>

\* Redis applies a write of the instance, or fails it; the Heartbeat
\* projection that waited for it ends either way.
WriteEnds(i, outcome) ==
    /\ outcome
    /\ IF Head(ops[i]) = HeartbeatRegister THEN Done(i) ELSE UNCHANGED lane
    /\ UNCHANGED <<archiving, leaving, online, recent, sweep>>

\* A projection fails, its retries included: it is logged and the lane goes on.
ProjectionFails(i) ==
    /\ lane[i] # <<>>
    /\ {HeartbeatRegister, Lookup} \intersect ToSet(ops[i]) = {}
    /\ ~leaving[i]
    /\ MayFail
    /\ Spend("faults")
    /\ Done(i)
    /\ UNCHANGED <<up, held, live, replaced, owner, ops,
                   archiving, leaving, online, recent, sweep>>

\* station.Disconnected: ask the registry ...
DisconnectedAsks(i) ==
    /\ AtHead(i, "Disconnected")
    /\ ~leaving[i]
    /\ Lookup \notin ToSet(ops[i])
    /\ Issue(i, Lookup)
    /\ UNCHANGED <<up, held, live, replaced, owner, spent, presenceVars>>

\* Mutant: no entry counts as an entry of another instance.
AnsweredElsewhere(i) == owner # i

\* ... the entry names another instance: the station is still online and the
\* projection ends ...
NamesAnother(i) == owner \notin {Nobody, i}

\* Mutant: the lane goes on after the lookup.
LaneGoesOn(i) ==
    /\ ops[i] # <<>>
    /\ Head(ops[i]) = Lookup
    /\ ops' = [ops EXCEPT ![i] = Tail(@)]
    /\ leaving' = [leaving EXCEPT ![i] = ~NamesAnother(i)]
    /\ Done(i)
    /\ UNCHANGED <<up, held, live, replaced, owner, spent,
                   archiving, online, recent, sweep>>

DisconnectedAnswered(i) ==
    /\ ops[i] # <<>>
    /\ Head(ops[i]) = Lookup
    /\ ops' = [ops EXCEPT ![i] = Tail(@)]
    /\ IF NamesAnother(i)
       THEN Done(i) /\ UNCHANGED leaving
       ELSE leaving' = [leaving EXCEPT ![i] = TRUE] /\ UNCHANGED lane
    /\ UNCHANGED <<up, held, live, replaced, owner, spent,
                   archiving, online, recent, sweep>>

\* ... or the lookup fails, which counts as no entry ...
DisconnectedUnanswered(i) ==
    /\ ops[i] # <<>>
    /\ Head(ops[i]) = Lookup
    /\ MayFail
    /\ Spend("faults")
    /\ ops' = [ops EXCEPT ![i] = Tail(@)]
    /\ leaving' = [leaving EXCEPT ![i] = TRUE]
    /\ UNCHANGED <<up, held, live, replaced, owner,
                   archiving, lane, online, recent, sweep>>

\* ... and then mark the station offline.
DisconnectedMarks(i) ==
    /\ leaving[i]
    /\ leaving' = [leaving EXCEPT ![i] = FALSE]
    /\ Done(i)
    /\ online' = FALSE
    /\ UNCHANGED <<socketVars, archiving, recent, sweep>>

(***************************************************************************)
(* The offline sweep                                                       *)
(***************************************************************************)

\* The sweep threshold passes without a liveness write.
Age ==
    /\ recent
    /\ recent' = FALSE
    /\ UNCHANGED <<socketVars, archiving, lane, leaving, online, sweep>>

\* Mutant: the sweep is not scheduled.
SweepNever == FALSE /\ UNCHANGED vars

\* findStaleOnlineStations and the registry check, together: the query only
\* proposes candidates, SweepMarks repeats its condition.
SweepFinds ==
    /\ online /\ ~recent
    /\ owner = Nobody
    /\ ~sweep
    /\ sweep' = TRUE
    /\ UNCHANGED <<socketVars, archiving, lane, leaving, online, recent>>

\* markStationOfflineIfStale: the update repeats both conditions.
SweepMarks ==
    /\ sweep
    /\ sweep' = FALSE
    /\ online' = (online /\ recent)
    /\ UNCHANGED <<socketVars, archiving, lane, leaving, recent>>

Next ==
    \/ \E i \in Instances :
          \/ StationConnects(i)
          \/ SocketCloses(i)
          \/ OutlivingCloses(i)
          \/ InstanceCrashes(i)
          \/ (CloseReplaced(i) \/ Refresh(i)) /\ UNCHANGED presenceVars
          \/ WriteEnds(i, ApplyWrite(i))
          \/ WriteEnds(i, LoseWrite(i))
          \/ \E k \in Archived : Archive(i, k)
          \/ \E h \in BOOLEAN : Message(i, h)
          \/ ProjectMessageLog(i)
          \/ ProjectConnected(i)
          \/ ProjectHeartbeat(i)
          \/ ProjectionFails(i)
          \/ DisconnectedAsks(i)
          \/ DisconnectedAnswered(i)
          \/ DisconnectedUnanswered(i)
          \/ DisconnectedMarks(i)
    \/ (Vanish \/ Expire) /\ UNCHANGED presenceVars
    \/ Age
    \/ SweepFinds
    \/ SweepMarks

\* Running instances do their work: archive inserts end, lanes advance, Redis
\* answers, the ping cycle refreshes.  A connected station keeps sending
\* messages, heartbeats among them (the server closes it otherwise), a dead
\* socket is found by the ping cycle, and the worker's cron sweep keeps running.
\* The projection at the head of the lane takes its next step.
LaneAdvances(i) ==
    \/ ProjectMessageLog(i) \/ ProjectConnected(i) \/ ProjectHeartbeat(i)
    \/ DisconnectedAsks(i) \/ DisconnectedMarks(i)

\* Redis answers the instance's oldest command.
RedisAnswers(i) == WriteEnds(i, ApplyWrite(i)) \/ DisconnectedAnswered(i)

Fairness ==
    /\ \A i \in Instances :
          /\ \A k \in Archived : WF_vars(Archive(i, k))
          /\ WF_vars(LaneAdvances(i))
          /\ WF_vars(RedisAnswers(i))
          /\ WF_vars(Refresh(i) /\ UNCHANGED presenceVars)
          /\ WF_vars(Message(i, TRUE))
          /\ WF_vars(live # i /\ SocketCloses(i))
    /\ WF_vars(Expire /\ UNCHANGED presenceVars)
    /\ WF_vars(Age)
    /\ WF_vars(SweepFinds)
    /\ WF_vars(SweepMarks)

Spec == Init /\ [][Next]_vars /\ Fairness

(***************************************************************************)
(* Properties                                                              *)
(***************************************************************************)

\* Every variable stays in its range, and a lane does not move on while its
\* Disconnected projection waits for Redis.
TypeOK ==
    /\ SocketTypeOK
    /\ \A i \in Instances :
          /\ \A k \in Archived : archiving[i][k] \in 0 .. MaxConnects
          /\ ToSet(lane[i]) \subseteq Events
          /\ leaving[i] \in BOOLEAN
          /\ leaving[i] \/ Lookup \in ToSet(ops[i]) => AtHead(i, "Disconnected")
    /\ {online, recent, sweep} \subseteq BOOLEAN

\* A station that stays connected to one instance ends up, and stays, shown as
\* online, whatever late disconnects, crashes, lost registry writes and sweeps
\* happened before.
ConnectedIsShownOnline ==
    <>[](held = {live}) => <>[]online

\* A station that stays away ends up, and stays, shown as offline, although
\* the instance that held it may have died without publishing anything.
GoneIsShownOffline ==
    <>[](live = Nobody) => <>[]~online

\* The registry ends up naming the instance that holds the station, so commands
\* find it.
HolderIsRegistered ==
    <>[](held = {live}) => <>[](owner = live)
=============================================================================
