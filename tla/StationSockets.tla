--------------------------- MODULE StationSockets ---------------------------
(***************************************************************************)
(* One station, the OCPP server instances it may connect to, and the Redis *)
(* connection registry that names the instance holding its socket:         *)
(*   packages/ocpp/src/server/connection-manager.ts                        *)
(*   packages/lib/src/connection-registry.ts                               *)
(*   the connect and close handlers of packages/ocpp/src/server/ocpp-server.ts *)
(*                                                                         *)
(* Registry writes are fire and forget: the instance appends them to its   *)
(* Redis connection, which applies them in order, later, or loses them.    *)
(* StationPresence and CommandRouting extend this module; the lookups they *)
(* issue travel on the same Redis connection.                              *)
(*                                                                         *)
(*   up       - running instances                                          *)
(*   held     - instances whose ConnectionManager has a current socket     *)
(*   live     - instance whose socket the station itself uses              *)
(*   replaced - replaced sockets that have not closed yet, by instance      *)
(*   owner    - the registry entry                                         *)
(*   ops      - Redis commands of each instance not yet applied            *)
(*   spent    - how much of each bound below was used                      *)
(***************************************************************************)
EXTENDS Naturals, Sequences, FiniteSets, SequencesExt

CONSTANTS
    Instances,      \* OCPP server processes
    Nobody,         \* no registry entry, no socket
    FirstInstance,  \* bound: where the station connects first, and after its second connection
    MaxConnects,    \* bound: connections the station opens
    MaxFaults,      \* bound: crashes, vanished sockets, lost Redis commands
    MaxEvents,      \* bound: connections and faults together, and a connection
                    \* more for each replaced socket that outlived its successor
    MaxOps          \* bound: a refresh joins fewer waiting Redis commands than this

ASSUME NobodyAssumption == Nobody \notin Instances
\* No projection waits on the Redis connection under the name of nobody.
ASSUME WaiterAssumption == Nobody # "Heartbeat"
ASSUME FirstAssumption == FirstInstance \in Instances
ASSUME BoundsAssumption == {MaxConnects, MaxFaults, MaxEvents, MaxOps} \subseteq Nat

VARIABLES up, held, live, replaced, owner, ops, spent

socketVars == <<up, held, live, replaced, owner, ops, spent>>

RegistryWrites == {"register", "unregister", "refresh"}

\* A Redis command: a registry write or a lookup, and who waits for it.
Op(kind, for) == [kind |-> kind, for |-> for]
Write(kind)   == Op(kind, Nobody)

Issue(i, op) == ops' = [ops EXCEPT ![i] = Append(@, op)]

Spend(what) == spent' = [spent EXCEPT ![what] = @ + 1]
MayFail     == spent.faults < MaxFaults /\ spent.connects + spent.faults < MaxEvents

SocketInit ==
    /\ up = Instances
    /\ held = {}
    /\ live = Nobody
    /\ replaced = [i \in Instances |-> 0]
    /\ owner = Nobody
    /\ ops = [i \in Instances |-> <<>>]
    /\ spent = [connects |-> 0, faults |-> 0, outlived |-> 0]

(***************************************************************************)
(* Sockets                                                                 *)
(***************************************************************************)

\* handleConnection and ConnectionManager.add.  The station may come back to
\* the same instance or to another one before its old socket is known dead.
Connect(i) ==
    /\ i \in up
    /\ spent.connects < MaxConnects
    /\ spent.connects + spent.faults < MaxEvents + spent.outlived
    /\ spent.connects # 1 => i = FirstInstance
    /\ held' = held \union {i}
    /\ live' = i
    /\ replaced' = IF i \in held THEN [replaced EXCEPT ![i] = @ + 1] ELSE replaced
    /\ Issue(i, Write("register"))
    /\ Spend("connects")
    /\ UNCHANGED <<up, owner>>

\* The current socket of i closes: the station hung up, or a ping, heartbeat
\* or rate limit closed it.  ConnectionManager.remove answers true.
Close(i) ==
    /\ i \in held
    /\ held' = held \ {i}
    /\ live' = IF live = i THEN Nobody ELSE live
    /\ Issue(i, Write("unregister"))
    /\ UNCHANGED <<up, replaced, owner, spent>>

\* The close handler of a replaced socket runs.
ReplacedCloses(i) ==
    /\ replaced[i] > 0
    /\ replaced' = [replaced EXCEPT ![i] = @ - 1]

\* Mutant: remove does not compare the socket with the current one.
RemovesCurrent(i) ==
    /\ i \in held
    /\ ReplacedCloses(i)
    /\ held' = held \ {i}
    /\ Issue(i, Write("unregister"))
    /\ UNCHANGED <<up, live, owner, spent>>

\* A replaced socket closes while another one is current: remove answers false
\* and nothing else happens.
CloseReplaced(i) ==
    /\ i \in held
    /\ ReplacedCloses(i)
    /\ UNCHANGED <<up, held, live, owner, ops, spent>>

\* A replaced socket closes after its successor did: with no socket current,
\* remove unregisters again and answers true.
CloseOutliving(i) ==
    /\ i \notin held
    /\ ReplacedCloses(i)
    /\ Issue(i, Write("unregister"))
    /\ Spend("outlived")
    /\ UNCHANGED <<up, held, live, owner>>

\* The station is gone but the server has not noticed (half-open socket).
Vanish ==
    /\ live # Nobody
    /\ MayFail
    /\ live' = Nobody
    /\ Spend("faults")
    /\ UNCHANGED <<up, held, replaced, owner, ops>>

\* The process dies with everything it had in memory; the station notices.
Crash(i) ==
    /\ i \in up
    /\ MayFail
    /\ up' = up \ {i}
    /\ held' = held \ {i}
    /\ live' = IF live = i THEN Nobody ELSE live
    /\ replaced' = [replaced EXCEPT ![i] = 0]
    /\ ops' = [ops EXCEPT ![i] = <<>>]
    /\ Spend("faults")
    /\ UNCHANGED owner

(***************************************************************************)
(* Redis                                                                   *)
(***************************************************************************)

\* Mutant: unregister deletes the key whoever owns it.
DeletesAny(i, kind) ==
    CASE kind = "register"   -> i
      [] kind = "unregister" -> Nobody
      [] kind = "refresh"    -> IF owner \in {Nobody, i} THEN i ELSE owner

\* The entry after a write of instance i: SET, DELETE_IF_OWNER,
\* REFRESH_IF_OWNER.
Written(i, kind) ==
    CASE kind = "register"   -> i
      [] kind = "unregister" -> IF owner = i THEN Nobody ELSE owner
      [] kind = "refresh"    -> IF owner \in {Nobody, i} THEN i ELSE owner

ApplyWrite(i) ==
    /\ ops[i] # <<>>
    /\ Head(ops[i]).kind \in RegistryWrites
    /\ owner' = Written(i, Head(ops[i]).kind)
    /\ ops' = [ops EXCEPT ![i] = Tail(@)]
    /\ UNCHANGED <<up, held, live, replaced, spent>>

\* The write fails; the caller logs it and goes on.
LoseWrite(i) ==
    /\ ops[i] # <<>>
    /\ Head(ops[i]).kind \in RegistryWrites
    /\ MayFail
    /\ ops' = [ops EXCEPT ![i] = Tail(@)]
    /\ Spend("faults")
    /\ UNCHANGED <<up, held, live, replaced, owner>>

\* Mutant: the refresh cycle does not run.
RefreshNever(i) == FALSE /\ UNCHANGED socketVars

\* ConnectionManager.refreshRegistry, every ping monitor cycle.
Refresh(i) ==
    /\ i \in held
    /\ Write("refresh") \notin ToSet(ops[i])
    /\ Len(ops[i]) < MaxOps
    /\ Issue(i, Write("refresh"))
    /\ UNCHANGED <<up, held, live, replaced, owner, spent>>

\* TTL_SECONDS pass over an entry nobody refreshes.
Expire ==
    /\ owner # Nobody
    /\ owner \notin held
    /\ owner' = Nobody
    /\ UNCHANGED <<up, held, live, replaced, ops, spent>>

SocketNext ==
    \/ \E i \in Instances :
          \/ Connect(i)
          \/ Close(i)
          \/ CloseReplaced(i)
          \/ CloseOutliving(i)
          \/ Crash(i)
          \/ ApplyWrite(i)
          \/ LoseWrite(i)
          \/ Refresh(i)
    \/ Vanish
    \/ Expire

(***************************************************************************)
(* Properties                                                              *)
(***************************************************************************)
OpKinds == RegistryWrites \union {"lookup"}

\* Every variable stays in its range.
SocketTypeOK ==
    /\ up \subseteq Instances
    /\ held \subseteq up
    /\ live \in Instances \union {Nobody}
    /\ \A i \in Instances : replaced[i] \in 0 .. MaxConnects /\ (replaced[i] > 0 => i \in up)
    /\ owner \in Instances \union {Nobody}
    /\ \A i \in Instances : \A k \in DOMAIN ops[i] : ops[i][k].kind \in OpKinds
    /\ spent.connects <= MaxConnects /\ spent.faults <= MaxFaults

\* The instance the station talks to finds the socket in its
\* ConnectionManager: the late close of a replaced socket never drops the
\* connection that replaced it.
LiveIsHeld ==
    live # Nobody => live \in held
=============================================================================
