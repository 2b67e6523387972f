------------------------- MODULE CommandRoutingProofs -------------------------
(***************************************************************************)
(* TLAPS proofs about CommandRouting, for any set of instances and of      *)
(* commands and for every bound: what a drain publishes, what a caller     *)
(* told "queued" can rely on, that a station the registry names gets its   *)
(* command exactly once, and that a command which may not wait never does. *)
(* The last parts are about StationPresence: the sockets it shares with    *)
(* CommandRouting, and the projection lanes it adds.                       *)
(***************************************************************************)
EXTENDS CommandRouting, SequenceTheorems, FiniteSetTheorems, TLAPS

(***************************************************************************)
(* Queues: what appending to one and taking its head off does.             *)
(***************************************************************************)

\* A queue that gets one more element ...
LEMMA AppendFacts ==
    ASSUME NEW S, NEW s \in Seq(S), NEW e \in S
    PROVE  /\ Append(s, e) \in Seq(S)
           /\ ToSet(Append(s, e)) = ToSet(s) \union {e}
<1>1. /\ Append(s, e) \in Seq(S)
      /\ Len(Append(s, e)) = Len(s) + 1
      /\ \A j \in 1 .. Len(s) : Append(s, e)[j] = s[j]
      /\ Append(s, e)[Len(s) + 1] = e
  BY AppendProperties
<1>2. Len(s) \in Nat /\ DOMAIN s = 1 .. Len(s) /\ DOMAIN Append(s, e) = 1 .. Len(s) + 1
  BY <1>1
<1> QED
  BY <1>1, <1>2 DEF ToSet

\* ... and one that loses its head.
LEMMA TailFacts ==
    ASSUME NEW S, NEW s \in Seq(S), s # <<>>
    PROVE  /\ Head(s) \in S /\ Tail(s) \in Seq(S)
           /\ ToSet(s) = ToSet(Tail(s)) \union {Head(s)}
<1>1. /\ Head(s) \in S /\ Tail(s) \in Seq(S)
      /\ Len(Tail(s)) = Len(s) - 1
      /\ \A j \in 1 .. Len(Tail(s)) : Tail(s)[j] = s[j + 1]
  BY HeadTailProperties
<1>2. Len(s) \in Nat \ {0} /\ DOMAIN s = 1 .. Len(s) /\ DOMAIN Tail(s) = 1 .. Len(s) - 1
  BY <1>1, EmptySeq
<1>3. Head(s) = s[1]
  OBVIOUS
<1>4. ASSUME NEW x \in ToSet(s)
      PROVE  x \in ToSet(Tail(s)) \union {Head(s)}
  <2>1. PICK j \in 1 .. Len(s) : x = s[j]
    BY <1>2 DEF ToSet
  <2>2. CASE j = 1
    BY <2>1, <2>2, <1>3
  <2>3. CASE j # 1
    <3>1. j - 1 \in 1 .. Len(s) - 1 /\ (j - 1) + 1 = j
      BY <1>2, <2>3
    <3> QED
      BY <3>1, <2>1, <1>1, <1>2 DEF ToSet
  <2> QED
    BY <2>2, <2>3
<1>5. ASSUME NEW x \in ToSet(Tail(s))
      PROVE  x \in ToSet(s)
  <2>1. PICK j \in 1 .. Len(s) - 1 : x = s[j + 1]
    BY <1>1, <1>2 DEF ToSet
  <2> QED
    BY <2>1, <1>2 DEF ToSet
<1>6. Head(s) \in ToSet(s)
  BY <1>2, <1>3 DEF ToSet
<1> QED
  BY <1>1, <1>4, <1>5, <1>6

\* An element a queue holds at most once.
OnceIn(s, x) == \A j, k \in DOMAIN s : s[j] = x /\ s[k] = x => j = k

LEMMA OnceInAppend ==
    ASSUME NEW S, NEW s \in Seq(S), NEW e \in S, NEW x, OnceIn(s, x),
           x = e => x \notin ToSet(s)
    PROVE  OnceIn(Append(s, e), x)
<1>1. /\ Len(Append(s, e)) = Len(s) + 1
      /\ \A j \in 1 .. Len(s) : Append(s, e)[j] = s[j]
      /\ Append(s, e)[Len(s) + 1] = e
  BY AppendProperties
<1>2. Len(s) \in Nat /\ DOMAIN s = 1 .. Len(s) /\ DOMAIN Append(s, e) = 1 .. Len(s) + 1
  BY <1>1, AppendProperties
<1>3. ASSUME NEW j \in 1 .. Len(s), s[j] = x
      PROVE  x # e
  BY <1>2, <1>3 DEF ToSet
<1>4. SUFFICES ASSUME NEW j \in 1 .. Len(s) + 1, NEW k \in 1 .. Len(s) + 1,
                      Append(s, e)[j] = x, Append(s, e)[k] = x
               PROVE  j = k
  BY <1>2 DEF OnceIn
<1>5. CASE j = Len(s) + 1 /\ k # Len(s) + 1
  BY <1>1, <1>2, <1>3, <1>4, <1>5
<1>6. CASE k = Len(s) + 1 /\ j # Len(s) + 1
  BY <1>1, <1>2, <1>3, <1>4, <1>6
<1>7. CASE j # Len(s) + 1 /\ k # Len(s) + 1
  <2>1. j \in DOMAIN s /\ k \in DOMAIN s
    BY <1>2, <1>7
  <2> QED
    BY <2>1, <1>1, <1>2, <1>4 DEF OnceIn
<1> QED
  BY <1>5, <1>6, <1>7

LEMMA OnceInTail ==
    ASSUME NEW S, NEW s \in Seq(S), s # <<>>, NEW x, OnceIn(s, x)
    PROVE  OnceIn(Tail(s), x) /\ (x = Head(s) => x \notin ToSet(Tail(s)))
<1>1. /\ Len(Tail(s)) = Len(s) - 1 /\ Tail(s) \in Seq(S)
      /\ \A j \in 1 .. Len(Tail(s)) : Tail(s)[j] = s[j + 1]
  BY HeadTailProperties
<1>2. Len(s) \in Nat \ {0} /\ DOMAIN s = 1 .. Len(s) /\ DOMAIN Tail(s) = 1 .. Len(s) - 1
  BY <1>1, EmptySeq
<1>3. \A j, k \in 1 .. Len(s) - 1 : s[j + 1] = x /\ s[k + 1] = x => j + 1 = k + 1
  BY <1>2 DEF OnceIn
<1>4. OnceIn(Tail(s), x)
  BY <1>1, <1>2, <1>3 DEF OnceIn
<1>5. \A k \in 1 .. Len(s) - 1 : s[1] = x => s[k + 1] # x
  BY <1>2 DEF OnceIn
<1>6. x = Head(s) => x \notin ToSet(Tail(s))
  BY <1>1, <1>2, <1>5 DEF ToSet
<1> QED
  BY <1>4, <1>6

(***************************************************************************)
(* The invariant.                                                          *)
(***************************************************************************)

\* What travels on the Redis connection of an instance.
RedisOp ==
    [kind : RegistryWrites, for : {Nobody}] \union [kind : {"lookup"}, for : Commands]

Rows == {"none", "pending", "sent", "expired"}

\* Every socket that has not closed has a connection of its own behind it.
ReplacedAt(i) ==
    /\ replaced[i] + (IF i \in held THEN 1 ELSE 0) <= spent.connects
    /\ replaced[i] > 0 => i \in up

SocketRanges ==
    /\ up \subseteq Instances /\ held \subseteq up /\ replaced \in [Instances -> Nat]
    /\ live \in Instances \union {Nobody} /\ owner \in Instances \union {Nobody}
    /\ LiveIsHeld
    /\ ops \in [Instances -> Seq(RedisOp)]
    /\ \A i \in Instances : ReplacedAt(i)
    /\ spent \in [connects : 0 .. MaxConnects, faults : 0 .. MaxFaults, outlived : Nat]

CommandRanges ==
    /\ noQueue \subseteq Commands /\ steady \subseteq Commands
    /\ ready \subseteq held
    /\ inbox \in [Instances -> Seq(Commands)]
    /\ readyDue \in [Instances -> Nat]
    /\ queueDue \in [Instances -> SUBSET (Commands \ noQueue)]
    /\ claimed \in [Instances -> SUBSET Commands]
    /\ row \in [Commands -> Rows]
    /\ told \in [Commands -> Verdicts]
    /\ ran \in [Commands -> Nat]
    /\ drained \in [Commands -> Nat]

\* Each Ready of an instance has a connection of its own behind it.
ReadyInv ==
    \A i \in Instances :
        /\ readyDue[i] <= spent.connects
        /\ live = i /\ i \notin ready => readyDue[i] < spent.connects

\* A claim is a row marked sent, of one drain; as long as a command can still
\* be drained, only failed publishes have drained it before.
DrainInv ==
    /\ \A i \in Instances : \A c \in claimed[i] :
          /\ row[c] = "sent"
          /\ \A j \in Instances : c \in claimed[j] => j = i
          /\ drained[c] <= spent.faults
    /\ \A c \in Commands : row[c] # "sent" => drained[c] <= spent.faults
    /\ DrainedOnce

\* A command nobody called is nowhere.
Uncalled(c) == ~InFlight(c) /\ ~Queued(c) /\ ran[c] = 0

\* Instance i has the command in front of it, in one place, once.
CopyAt(i, c) == c \in ToSet(inbox[i]) \/ Lookup(c) \in ToSet(ops[i])

OneCopyAt(i, c) ==
    /\ OnceIn(inbox[i], c) /\ OnceIn(ops[i], Lookup(c))
    /\ ~(c \in ToSet(inbox[i]) /\ Lookup(c) \in ToSet(ops[i]))

\* A command published while the registry names the station's instance is in
\* front of that instance until the station has answered it.
OnItsWay(c) ==
    /\ live # Nobody /\ owner = live
    /\ ~Queued(c)
    /\ told[c] \in {"waiting", "timeout", "ran", "refused"}
    /\ OneCopyAt(live, c)
    /\ ran[c] <= 1
    /\ CopyAt(live, c) => ran[c] = 0
    /\ ~CopyAt(live, c) => told[c] \in {"timeout", "ran", "refused"}

CommandInv(c) ==
    /\ told[c] = "nothing" => Uncalled(c)
    /\ c \in steady /\ spent.faults = 0 => OnItsWay(c)

IInv ==
    /\ SocketRanges /\ CommandRanges
    /\ ReadyInv
    /\ DrainInv
    /\ QueuedIsStored
    /\ \A c \in Commands : CommandInv(c)

\* The invariant is as strong as the properties of the run.
LEMMA Strength == IInv => TypeOK /\ LiveIsHeld /\ DrainedOnce /\ QueuedIsStored /\ SteadyStationGetsIt
<1> SUFFICES ASSUME IInv
             PROVE  TypeOK /\ LiveIsHeld /\ DrainedOnce /\ QueuedIsStored /\ SteadyStationGetsIt
  OBVIOUS
<1>1. SocketTypeOK
  <2>1. \A i \in Instances : \A k \in DOMAIN ops[i] : ops[i][k] \in RedisOp
    BY DEF IInv, SocketRanges
  <2>2. \A op \in RedisOp : op.kind \in OpKinds
    BY DEF RedisOp, OpKinds
  <2>3. spent.connects <= MaxConnects /\ spent.faults <= MaxFaults
    BY BoundsAssumption DEF IInv, SocketRanges
  <2>4. \A i \in Instances : replaced[i] \in 0 .. MaxConnects /\ (replaced[i] > 0 => i \in up)
    BY <2>3, BoundsAssumption DEF IInv, SocketRanges, ReplacedAt
  <2> QED
    BY <2>1, <2>2, <2>3, <2>4 DEF IInv, SocketRanges, SocketTypeOK
<1>2. ASSUME NEW i \in Instances
      PROVE  /\ ToSet(inbox[i]) \subseteq Commands
             /\ readyDue[i] \in 0 .. MaxConnects
             /\ queueDue[i] \subseteq Commands \ noQueue
             /\ \A c \in claimed[i] : row[c] = "sent"
  <2>1. ToSet(inbox[i]) \subseteq Commands
    BY DEF IInv, CommandRanges, ToSet
  <2>2. readyDue[i] \in 0 .. MaxConnects
    BY BoundsAssumption DEF IInv, SocketRanges, CommandRanges, ReadyInv
  <2> QED
    BY <2>1, <2>2 DEF IInv, CommandRanges, DrainInv
<1>3. TypeOK
  BY <1>1, <1>2 DEF IInv, CommandRanges, Rows, TypeOK
<1>4. ASSUME spent.faults = 0, NEW c \in steady
      PROVE  /\ ~Queued(c)
             /\ told[c] \in {"waiting", "timeout", "ran", "refused"}
             /\ ran[c] <= 1
             /\ ~InFlight(c) => told[c] \in {"timeout", "ran", "refused"}
  <2>1. OnItsWay(c) /\ live \in Instances
    BY <1>4 DEF IInv, SocketRanges, CommandRanges, CommandInv, OnItsWay
  <2>2. CopyAt(live, c) => InFlight(c)
    BY <2>1 DEF CopyAt, InFlight
  <2> QED
    BY <2>1, <2>2 DEF OnItsWay
<1> QED
  BY <1>3, <1>4 DEF IInv, SocketRanges, DrainInv, SteadyStationGetsIt

LEMMA Initial == Init => IInv
<1> SUFFICES ASSUME Init PROVE IInv
  OBVIOUS
<1>1. SocketRanges
  BY NobodyAssumption, BoundsAssumption DEF Init, SocketInit, SocketRanges, LiveIsHeld, ReplacedAt
<1>2. CommandRanges
  BY DEF Init, SocketInit, CommandRanges, Rows, Verdicts
<1>3. ReadyInv
  BY NobodyAssumption DEF Init, SocketInit, ReadyInv
<1>4. DrainInv
  BY DEF Init, SocketInit, DrainInv, DrainedOnce
<1>5. QueuedIsStored
  BY DEF Init, QueuedIsStored
<1>6. \A c \in Commands : CommandInv(c)
  BY DEF Init, SocketInit, CommandInv, Uncalled, InFlight, Queued, ToSet
<1> QED
  BY <1>1, <1>2, <1>3, <1>4, <1>5, <1>6 DEF IInv

(***************************************************************************)
(* Ranges.                                                                 *)
(***************************************************************************)

\* Appending a command of its own, and taking the first one off, keep the
\* Redis connections in their range.
LEMMA IssueRanges ==
    ASSUME SocketRanges, NEW i \in Instances, NEW op \in RedisOp, Issue(i, op)
    PROVE  ops' \in [Instances -> Seq(RedisOp)]
<1>1. Append(ops[i], op) \in Seq(RedisOp)
  BY AppendFacts DEF SocketRanges
<1> QED
  BY <1>1 DEF SocketRanges, Issue

LEMMA TakeRanges ==
    ASSUME SocketRanges, NEW i \in Instances, ops[i] # <<>>,
           ops' = [ops EXCEPT ![i] = Tail(@)]
    PROVE  ops' \in [Instances -> Seq(RedisOp)] /\ Head(ops[i]) \in RedisOp
<1>1. Head(ops[i]) \in RedisOp /\ Tail(ops[i]) \in Seq(RedisOp)
  BY TailFacts DEF SocketRanges
<1> QED
  BY <1>1 DEF SocketRanges

\* A bound that is not used up can be spent once more.
LEMMA SpendRanges ==
    ASSUME SocketRanges
    PROVE  /\ spent.connects \in Nat /\ spent.faults \in Nat
           /\ MayFail /\ Spend("faults") =>
                 /\ spent' \in [connects : 0 .. MaxConnects, faults : 0 .. MaxFaults, outlived : Nat]
                 /\ spent'.connects = spent.connects /\ spent'.faults = spent.faults + 1
           /\ spent.connects < MaxConnects /\ Spend("connects") =>
                 /\ spent' \in [connects : 0 .. MaxConnects, faults : 0 .. MaxFaults, outlived : Nat]
                 /\ spent'.connects = spent.connects + 1 /\ spent'.faults = spent.faults
           /\ Spend("outlived") =>
                 /\ spent' \in [connects : 0 .. MaxConnects, faults : 0 .. MaxFaults, outlived : Nat]
                 /\ spent'.connects = spent.connects /\ spent'.faults = spent.faults
<1>1. spent.connects \in 0 .. MaxConnects /\ spent.faults \in 0 .. MaxFaults
  BY DEF SocketRanges
<1>2. ASSUME spent.faults < MaxFaults PROVE spent.faults + 1 \in 0 .. MaxFaults
  BY <1>1, <1>2, BoundsAssumption
<1>3. ASSUME spent.connects < MaxConnects PROVE spent.connects + 1 \in 0 .. MaxConnects
  BY <1>1, <1>3, BoundsAssumption
<1> QED
  BY <1>1, <1>2, <1>3 DEF SocketRanges, Spend, MayFail

\* No socket is opened, and none closes that is not taken off the count.
LEMMA ReplacedKept ==
    ASSUME SocketRanges, UNCHANGED <<up, held, replaced>>, spent'.connects = spent.connects
    PROVE  \A j \in Instances : ReplacedAt(j)'
BY DEF SocketRanges, ReplacedAt

LEMMA ReplacedLess ==
    ASSUME SocketRanges, UNCHANGED <<up, held>>, spent'.connects = spent.connects,
           NEW i \in Instances, ReplacedCloses(i)
    PROVE  replaced' \in [Instances -> Nat] /\ \A j \in Instances : ReplacedAt(j)'
<1>1. replaced' \in [Instances -> Nat]
  BY DEF SocketRanges, ReplacedCloses
<1>2. \A j \in Instances : replaced'[j] <= replaced[j]
  BY DEF SocketRanges, ReplacedCloses
<1>3. spent.connects \in Nat
  BY SpendRanges
<1> QED
  BY <1>1, <1>2, <1>3 DEF SocketRanges, ReplacedAt

LEMMA SocketStep ==
    ASSUME SocketRanges, SocketNext
    PROVE  SocketRanges'
<1> USE DEF SocketRanges, LiveIsHeld
<1>0. spent.connects \in Nat
  BY SpendRanges
<1>1. ASSUME NEW i \in Instances, Connect(i)
      PROVE  SocketRanges'
  <2>1. Write("register") \in RedisOp
    BY DEF Write, Op, RedisOp, RegistryWrites
  <2>2. replaced' \in [Instances -> Nat] /\ spent'.connects = spent.connects + 1
        /\ up' = up /\ i \in up /\ held' = held \union {i}
        /\ \A j \in Instances :
              replaced'[j] = replaced[j] + (IF j = i /\ i \in held THEN 1 ELSE 0)
    <3>1. spent'.connects = spent.connects + 1
      BY <1>1, SpendRanges DEF Connect
    <3>2. up' = up /\ i \in up /\ held' = held \union {i}
      BY <1>1 DEF Connect
    <3>3. CASE i \in held
      <4>1. replaced' = [replaced EXCEPT ![i] = @ + 1]
        BY <1>1, <3>3 DEF Connect
      <4> QED
        BY <4>1, <3>1, <3>2, <3>3
    <3>4. CASE i \notin held
      <4>1. replaced' = replaced
        BY <1>1, <3>4 DEF Connect
      <4> QED
        BY <4>1, <3>1, <3>2, <3>4
    <3> QED
      BY <3>3, <3>4
  <2>3. \A j \in Instances : ReplacedAt(j)'
    BY <1>0, <2>2 DEF ReplacedAt
  <2> QED
    BY <1>1, <2>1, <2>2, <2>3, IssueRanges, SpendRanges DEF Connect
<1>2. ASSUME NEW i \in Instances, Close(i)
      PROVE  SocketRanges'
  <2>1. Write("unregister") \in RedisOp
    BY DEF Write, Op, RedisOp, RegistryWrites
  <2>2. \A j \in Instances : ReplacedAt(j)'
    BY <1>0, <1>2 DEF Close, ReplacedAt
  <2> QED
    BY <1>2, <2>1, <2>2, IssueRanges DEF Close
<1>3. ASSUME NEW i \in Instances, CloseReplaced(i)
      PROVE  SocketRanges'
  BY <1>3, ReplacedLess DEF CloseReplaced
<1>4. ASSUME NEW i \in Instances, CloseOutliving(i)
      PROVE  SocketRanges'
  <2>1. Write("unregister") \in RedisOp
    BY DEF Write, Op, RedisOp, RegistryWrites
  <2>2. spent'.connects = spent.connects
    BY <1>4, SpendRanges DEF CloseOutliving
  <2>3. replaced' \in [Instances -> Nat] /\ \A j \in Instances : ReplacedAt(j)'
    BY <1>4, <2>2, ReplacedLess DEF CloseOutliving
  <2> QED
    BY <1>4, <2>1, <2>3, IssueRanges, SpendRanges DEF CloseOutliving
<1>5. ASSUME NEW i \in Instances, Crash(i)
      PROVE  SocketRanges'
  <2>1. /\ spent'.connects = spent.connects /\ replaced' \in [Instances -> Nat]
        /\ up' = up \ {i} /\ held' = held \ {i} /\ replaced'[i] = 0
        /\ \A j \in Instances \ {i} : replaced'[j] = replaced[j]
    BY <1>5, SpendRanges DEF Crash
  <2>2. \A j \in Instances : ReplacedAt(j)'
    BY <1>0, <2>1 DEF ReplacedAt
  <2> QED
    BY <1>5, <2>1, <2>2, SpendRanges DEF Crash
<1>6. ASSUME NEW i \in Instances, ApplyWrite(i)
      PROVE  SocketRanges'
  <2>1. owner' \in Instances \union {Nobody}
    BY <1>6 DEF ApplyWrite, Written, RegistryWrites
  <2> QED
    BY <1>6, <2>1, TakeRanges, ReplacedKept DEF ApplyWrite
<1>7. ASSUME NEW i \in Instances, LoseWrite(i)
      PROVE  SocketRanges'
  BY <1>7, TakeRanges, SpendRanges, ReplacedKept DEF LoseWrite
<1>8. ASSUME NEW i \in Instances, Refresh(i)
      PROVE  SocketRanges'
  <2>1. Write("refresh") \in RedisOp
    BY DEF Write, Op, RedisOp, RegistryWrites
  <2> QED
    BY <1>8, <2>1, IssueRanges, ReplacedKept DEF Refresh
<1>9. CASE Vanish
  BY <1>9, SpendRanges, ReplacedKept DEF Vanish
<1>10. CASE Expire
  BY <1>10, ReplacedKept DEF Expire
<1> QED
  BY <1>1, <1>2, <1>3, <1>4, <1>5, <1>6, <1>7, <1>8, <1>9, <1>10 DEF SocketNext

\* Lookups of two commands differ, and no registry write is a lookup.
LEMMA OpFacts ==
    /\ \A c \in Commands : Lookup(c) \in RedisOp
    /\ \A c, d \in Commands : Lookup(c) = Lookup(d) => c = d
    /\ \A k \in RegistryWrites : Write(k) \in RedisOp /\ \A c \in Commands : Write(k) # Lookup(c)
    /\ \A op \in RedisOp : op.kind = "lookup" => op.for \in Commands /\ op = Lookup(op.for)
    /\ \A op \in RedisOp : op.kind \in RegistryWrites => \A c \in Commands : op # Lookup(c)
<1>1. \A c \in Commands : Lookup(c) \in RedisOp /\ Lookup(c).kind = "lookup" /\ Lookup(c).for = c
  BY DEF Lookup, Op, RedisOp
<1>2. \A k \in RegistryWrites : Write(k) \in RedisOp /\ Write(k).kind = k
  BY DEF Write, Op, RedisOp
<1>3. "lookup" \notin RegistryWrites
  BY DEF RegistryWrites
<1>4. \A op \in RedisOp : op.kind = "lookup" => op.for \in Commands /\ op = Lookup(op.for)
  BY <1>3 DEF RedisOp, Lookup, Op
<1> QED
  BY <1>1, <1>2, <1>3, <1>4

\* The answer an instance waits for is about a command.
LEMMA LookupHead ==
    ASSUME SocketRanges, NEW i \in Instances, LookupAnswered(i) \/ LookupFailed(i)
    PROVE  Head(ops[i]).for \in Commands /\ Head(ops[i]) = Lookup(Head(ops[i]).for)
<1>1. ops[i] # <<>> /\ Head(ops[i]).kind = "lookup"
  BY DEF LookupAnswered, LookupFailed
<1>2. Head(ops[i]) \in RedisOp
  BY <1>1, TailFacts DEF SocketRanges
<1> QED
  BY <1>1, <1>2, OpFacts

\* What an instance does with a command of its lookup keeps the ranges.
LEMMA DispatchRanges ==
    ASSUME CommandRanges, UNCHANGED noQueue,
           NEW i \in Instances, NEW c \in Commands, Route(i, c) \/ Dispatch(i, c)
    PROVE  /\ queueDue' \in [Instances -> SUBSET (Commands \ noQueue')]
           /\ told' \in [Commands -> Verdicts]
           /\ ran' \in [Commands -> Nat]
<1>1. ASSUME NEW what \in Verdicts, Tells(c, what)
      PROVE  told' \in [Commands -> Verdicts]
  BY <1>1 DEF CommandRanges, Tells
<1>2. {"timeout", "ran", "refused", "queued", "offline"} \subseteq Verdicts
  BY DEF Verdicts
<1>3. CASE UNCHANGED <<queueDue, told, ran>>
  BY <1>3 DEF CommandRanges
<1>4. CASE SendToDeadSocket(i, c)
  BY <1>1, <1>2, <1>4 DEF SendToDeadSocket, CommandRanges
<1>5. CASE SendToStation(i, c)
  <2>1. told' \in [Commands -> Verdicts]
    BY <1>1, <1>2, <1>5 DEF SendToStation
  <2>2. ran' \in [Commands -> Nat]
    BY <1>5 DEF SendToStation, CommandRanges
  <2> QED
    BY <1>5, <2>1, <2>2 DEF SendToStation, CommandRanges
<1>6. CASE NotConnected(i, c)
  <2>1. told' \in [Commands -> Verdicts]
    BY <1>1, <1>2, <1>6 DEF NotConnected
  <2>2. c \notin noQueue => queueDue[i] \union {c} \in SUBSET (Commands \ noQueue)
    BY DEF CommandRanges
  <2> QED
    BY <1>6, <2>1, <2>2 DEF NotConnected, CommandRanges
<1> QED
  BY <1>3, <1>4, <1>5, <1>6 DEF Route, Skip, Dispatch

\* A publish reaches the inbox of each running instance.
LEMMA PublishRanges ==
    ASSUME CommandRanges, NEW c \in Commands, Publishes(c)
    PROVE  inbox' \in [Instances -> Seq(Commands)]
<1>1. \A i \in Instances : Append(inbox[i], c) \in Seq(Commands)
  BY AppendFacts DEF CommandRanges
<1> QED
  BY <1>1 DEF CommandRanges, Publishes

LEMMA RangesStep ==
    ASSUME SocketRanges, CommandRanges, Next
    PROVE  SocketRanges' /\ CommandRanges'
<1> DEFINE Own ==
             /\ ready \subseteq held
             /\ inbox \in [Instances -> Seq(Commands)]
             /\ readyDue \in [Instances -> Nat]
             /\ queueDue \in [Instances -> SUBSET (Commands \ noQueue)]
             /\ claimed \in [Instances -> SUBSET Commands]
             /\ row \in [Commands -> Rows]
             /\ told \in [Commands -> Verdicts]
             /\ ran \in [Commands -> Nat]
             /\ drained \in [Commands -> Nat]
<1>1. noQueue' = noQueue /\ noQueue' \subseteq Commands /\ steady' \subseteq Commands
  BY DEF Next, CommandRanges
<1>2. SUFFICES SocketRanges' /\ Own'
  BY <1>1 DEF CommandRanges
<1> USE <1>1
<1>3. ASSUME NEW c \in Commands, Call(c)
      PROVE  SocketRanges' /\ Own'
  BY <1>3, PublishRanges DEF Call, SocketRanges, LiveIsHeld, ReplacedAt, socketVars, queueVars, CommandRanges, Verdicts
<1>4. ASSUME NEW c \in Commands, GiveUp(c)
      PROVE  SocketRanges' /\ Own'
  BY <1>4 DEF GiveUp, SocketRanges, LiveIsHeld, ReplacedAt, socketVars, queueVars, CommandRanges, Verdicts
<1>5. ASSUME NEW c \in Commands, ExpireRow(c)
      PROVE  SocketRanges' /\ Own'
  BY <1>5 DEF ExpireRow, SocketRanges, LiveIsHeld, ReplacedAt, socketVars, callVars, CommandRanges, Rows
<1>6. ASSUME NEW i \in Instances, Receive(i)
      PROVE  SocketRanges' /\ Own'
  <2>1. Head(inbox[i]) \in Commands /\ Tail(inbox[i]) \in Seq(Commands)
    BY <1>6, TailFacts DEF Receive, CommandRanges
  <2>2. Lookup(Head(inbox[i])) \in RedisOp
    BY <2>1 DEF Lookup, Op, RedisOp
  <2>3. SocketRanges'
    BY <1>6, <2>2, IssueRanges DEF Receive, SocketRanges, LiveIsHeld, ReplacedAt
  <2> QED
    BY <1>6, <2>1, <2>3 DEF Receive, queueVars, CommandRanges
<1>7. ASSUME NEW i \in Instances, LookupAnswered(i)
      PROVE  SocketRanges' /\ Own'
  <2>1. ops' \in [Instances -> Seq(RedisOp)] /\ Head(ops[i]).for \in Commands
    BY <1>7, TakeRanges, LookupHead DEF LookupAnswered
  <2>2. SocketRanges'
    BY <1>7, <2>1 DEF LookupAnswered, SocketRanges, LiveIsHeld, ReplacedAt
  <2> QED
    BY <1>7, <2>1, <2>2, DispatchRanges DEF LookupAnswered, CommandRanges
<1>8. ASSUME NEW i \in Instances, LookupFailed(i)
      PROVE  SocketRanges' /\ Own'
  <2>1. ops' \in [Instances -> Seq(RedisOp)] /\ Head(ops[i]).for \in Commands
    BY <1>8, TakeRanges, LookupHead DEF LookupFailed
  <2>2. SocketRanges'
    BY <1>8, <2>1, SpendRanges DEF LookupFailed, SocketRanges, LiveIsHeld, ReplacedAt
  <2> QED
    BY <1>8, <2>1, <2>2, DispatchRanges DEF LookupFailed, CommandRanges
<1>9. ASSUME NEW i \in Instances, AnnounceReady(i)
      PROVE  SocketRanges' /\ Own'
  <2>1. i \in held
    BY <1>9, NobodyAssumption DEF AnnounceReady, SocketRanges, LiveIsHeld, ReplacedAt
  <2>2. readyDue' \in [Instances -> Nat]
    BY <1>9 DEF AnnounceReady, CommandRanges
  <2> QED
    BY <1>9, <2>1, <2>2 DEF AnnounceReady, SocketRanges, LiveIsHeld, ReplacedAt, socketVars, callVars, CommandRanges
<1>10. ASSUME NEW i \in Instances, Claim(i)
       PROVE  SocketRanges' /\ Own'
  <2>1. readyDue' \in [Instances -> Nat]
    BY <1>10 DEF Claim, CommandRanges
  <2>2. row' \in [Commands -> Rows]
    BY <1>10 DEF Claim, CommandRanges, Rows
  <2> QED
    BY <1>10, <2>1, <2>2 DEF Claim, SocketRanges, LiveIsHeld, ReplacedAt, socketVars, callVars, CommandRanges
<1>11. ASSUME NEW i \in Instances, NEW c \in Commands, InsertRow(i, c)
       PROVE  SocketRanges' /\ Own'
  <2>1. row' \in [Commands -> Rows]
    BY <1>11 DEF InsertRow, CommandRanges, Rows
  <2>2. queueDue' \in [Instances -> SUBSET (Commands \ noQueue)]
    BY <1>11 DEF InsertRow, CommandRanges
  <2> QED
    BY <1>11, <2>1, <2>2 DEF InsertRow, SocketRanges, LiveIsHeld, ReplacedAt, socketVars, callVars, CommandRanges
<1>12. ASSUME NEW i \in Instances, NEW c \in Commands, DrainPublishes(i, c)
       PROVE  SocketRanges' /\ Own'
  <2>1. drained' \in [Commands -> Nat]
    BY <1>12 DEF DrainPublishes, CommandRanges
  <2>2. claimed' \in [Instances -> SUBSET Commands]
    BY <1>12 DEF DrainPublishes, CommandRanges
  <2> QED
    BY <1>12, <2>1, <2>2, PublishRanges
    DEF DrainPublishes, SocketRanges, LiveIsHeld, ReplacedAt, socketVars, CommandRanges
<1>13. ASSUME NEW i \in Instances, NEW c \in Commands, DrainFails(i, c)
       PROVE  SocketRanges' /\ Own'
  <2>1. SocketRanges'
    BY <1>13, SpendRanges DEF DrainFails, SocketRanges, LiveIsHeld, ReplacedAt
  <2>2. inbox' \in [Instances -> Seq(Commands)]
    BY <1>13, PublishRanges DEF DrainFails, CommandRanges
  <2>3. drained' \in [Commands -> Nat]
    BY <1>13 DEF DrainFails, CommandRanges
  <2>4. row' \in [Commands -> Rows] /\ claimed' \in [Instances -> SUBSET Commands]
    BY <1>13 DEF DrainFails, CommandRanges, Rows
  <2> QED
    BY <1>13, <2>1, <2>2, <2>3, <2>4 DEF DrainFails, CommandRanges
<1>14. ASSUME NEW i \in Instances, StationConnects(i)
       PROVE  SocketRanges' /\ Own'
  BY <1>14, SocketStep DEF StationConnects, SocketNext, Connect, queueVars, callVars, CommandRanges
<1>15. ASSUME NEW i \in Instances, SocketCloses(i)
       PROVE  SocketRanges' /\ Own'
  BY <1>15, SocketStep DEF SocketCloses, SocketNext, Close, queueVars, callVars, CommandRanges
<1>16. ASSUME NEW i \in Instances, InstanceCrashes(i)
       PROVE  SocketRanges' /\ Own'
  <2>1. SocketRanges'
    BY <1>16, SocketStep DEF InstanceCrashes, SocketNext
  <2>2. ready' \subseteq held'
    BY <1>16 DEF InstanceCrashes, Crash, CommandRanges
  <2> QED
    BY <1>16, <2>1, <2>2 DEF InstanceCrashes, CommandRanges
<1>17. CASE SocketsOnly
  <2>1. SocketRanges'
    BY <1>17, SocketStep DEF SocketsOnly, SocketNext
  <2>2. held' = held
    BY <1>17 DEF SocketsOnly, CloseReplaced, CloseOutliving, ApplyWrite, LoseWrite, Refresh, Vanish, Expire
  <2> QED
    BY <1>17, <2>1, <2>2 DEF SocketsOnly, queueVars, callVars, CommandRanges
<1> HIDE DEF Own
<1> QED
  BY <1>3, <1>4, <1>5, <1>6, <1>7, <1>8, <1>9, <1>10, <1>11, <1>12, <1>13, <1>14, <1>15, <1>16, <1>17
  DEF Next, Step

(***************************************************************************)
(* Readies and drains.                                                     *)
(***************************************************************************)

\* Sockets: a connection allows its instance one more Ready.
LEMMA ReadyStep ==
    ASSUME SocketRanges, CommandRanges, ReadyInv, Next
    PROVE  ReadyInv'
<1>0. /\ spent.connects \in Nat
      /\ \A i \in Instances : readyDue[i] \in Nat
  BY SpendRanges DEF CommandRanges
<1>1. CASE UNCHANGED <<live, ready, readyDue, spent>>
  BY <1>1 DEF ReadyInv
<1>2. CASE /\ spent'.connects = spent.connects /\ UNCHANGED <<ready, readyDue>>
           /\ live' \in {live, Nobody}
  BY <1>2, NobodyAssumption DEF ReadyInv
<1>3. ASSUME NEW i \in Instances, AnnounceReady(i)
      PROVE  ReadyInv'
  <2>1. readyDue[i] < spent.connects
    BY <1>3 DEF AnnounceReady, ReadyInv
  <2>2. readyDue'[i] = readyDue[i] + 1 /\ \A j \in Instances \ {i} : readyDue'[j] = readyDue[j]
    BY <1>3 DEF AnnounceReady, CommandRanges
  <2>3. readyDue[i] + 1 <= spent.connects
    BY <1>0, <2>1
  <2> QED
    BY <1>3, <2>2, <2>3 DEF AnnounceReady, socketVars, ReadyInv
<1>4. ASSUME NEW i \in Instances, Claim(i)
      PROVE  ReadyInv'
  <2>1. readyDue'[i] = readyDue[i] - 1 /\ \A j \in Instances \ {i} : readyDue'[j] = readyDue[j]
    BY <1>4 DEF Claim, CommandRanges
  <2>2. readyDue[i] - 1 < spent.connects
    BY <1>0 DEF ReadyInv
  <2>3. UNCHANGED <<live, ready, spent>>
    BY <1>4 DEF Claim, socketVars
  <2>4. readyDue'[i] < spent'.connects /\ readyDue'[i] <= spent'.connects
    BY <1>0, <2>1, <2>2, <2>3
  <2> QED
    BY <2>1, <2>3, <2>4 DEF ReadyInv
<1>5. ASSUME NEW i \in Instances, StationConnects(i)
      PROVE  ReadyInv'
  <2>1. spent'.connects = spent.connects + 1 /\ UNCHANGED readyDue
    BY <1>5, SpendRanges DEF StationConnects, Connect, queueVars
  <2>2. \A j \in Instances : readyDue'[j] < spent'.connects /\ readyDue'[j] <= spent'.connects
    BY <1>0, <2>1 DEF ReadyInv
  <2> QED
    BY <2>2 DEF ReadyInv
<1>6. ASSUME NEW i \in Instances, SocketCloses(i)
      PROVE  ReadyInv'
  BY <1>6, NobodyAssumption DEF SocketCloses, Close, queueVars, ReadyInv
<1>7. ASSUME NEW i \in Instances, InstanceCrashes(i)
      PROVE  ReadyInv'
  <2>1. /\ readyDue'[i] = 0 /\ live' # i
        /\ \A j \in Instances \ {i} :
              readyDue'[j] = readyDue[j] /\ (live' = j => live = j) /\ (j \in ready => j \in ready')
    BY <1>7, NobodyAssumption DEF InstanceCrashes, Crash, CommandRanges
  <2>2. spent'.connects = spent.connects
    BY <1>7, SpendRanges DEF InstanceCrashes, Crash
  <2> QED
    BY <1>0, <2>1, <2>2 DEF ReadyInv
<1>8. CASE \E c \in Commands : Call(c) \/ GiveUp(c) \/ ExpireRow(c)
  BY <1>1, <1>8 DEF Call, GiveUp, ExpireRow, socketVars, queueVars
<1>9. ASSUME NEW i \in Instances, Receive(i) \/ LookupAnswered(i) \/ LookupFailed(i)
      PROVE  ReadyInv'
  BY <1>1, <1>2, <1>9, SpendRanges DEF Receive, LookupAnswered, LookupFailed, queueVars
<1>10. ASSUME NEW i \in Instances, NEW c \in Commands,
              InsertRow(i, c) \/ DrainPublishes(i, c) \/ DrainFails(i, c)
       PROVE  ReadyInv'
  BY <1>1, <1>2, <1>10, SpendRanges DEF InsertRow, DrainPublishes, DrainFails, socketVars
<1>11. CASE SocketsOnly
  BY <1>1, <1>2, <1>11, SpendRanges
  DEF SocketsOnly, CloseReplaced, CloseOutliving, ApplyWrite, LoseWrite, Refresh, Vanish, Expire, queueVars
<1> QED
  BY <1>3, <1>4, <1>5, <1>6, <1>7, <1>8, <1>9, <1>10, <1>11 DEF Next, Step

\* Faults are counted, and never forgotten.
LEMMA FaultsStep ==
    ASSUME SocketRanges, CommandRanges, Next
    PROVE  /\ spent.faults \in Nat /\ spent'.faults \in Nat /\ spent.faults <= spent'.faults
<1>1. spent.faults \in Nat
  BY SpendRanges
<1>2. spent'.faults \in {spent.faults, spent.faults + 1}
  <2>1. CASE \E c \in Commands : Call(c) \/ GiveUp(c) \/ ExpireRow(c)
    BY <2>1 DEF Call, GiveUp, ExpireRow, socketVars
  <2>2. ASSUME NEW i \in Instances,
               Receive(i) \/ LookupAnswered(i) \/ LookupFailed(i) \/ AnnounceReady(i) \/ Claim(i)
        PROVE  spent'.faults \in {spent.faults, spent.faults + 1}
    BY <2>2, SpendRanges DEF Receive, LookupAnswered, LookupFailed, AnnounceReady, Claim, socketVars
  <2>3. ASSUME NEW i \in Instances, NEW c \in Commands,
               InsertRow(i, c) \/ DrainPublishes(i, c) \/ DrainFails(i, c)
        PROVE  spent'.faults \in {spent.faults, spent.faults + 1}
    BY <2>3, SpendRanges DEF InsertRow, DrainPublishes, DrainFails, socketVars
  <2>4. ASSUME NEW i \in Instances, StationConnects(i) \/ SocketCloses(i) \/ InstanceCrashes(i)
        PROVE  spent'.faults \in {spent.faults, spent.faults + 1}
    BY <2>4, SpendRanges DEF StationConnects, SocketCloses, InstanceCrashes, Connect, Close, Crash
  <2>5. CASE SocketsOnly
    BY <2>5, SpendRanges
    DEF SocketsOnly, CloseReplaced, CloseOutliving, ApplyWrite, LoseWrite, Refresh, Vanish, Expire
  <2> QED
    BY <2>1, <2>2, <2>3, <2>4, <2>5 DEF Next, Step
<1> QED
  BY <1>1, <1>2

LEMMA DrainStep ==
    ASSUME SocketRanges, CommandRanges, DrainInv, Next
    PROVE  DrainInv'
<1>0. /\ spent.faults \in Nat /\ spent'.faults \in Nat /\ spent.faults <= spent'.faults
      /\ \A c \in Commands : drained[c] \in Nat
      /\ \A i \in Instances : claimed[i] \subseteq Commands
  BY FaultsStep DEF CommandRanges
\* A step that makes no claim, drains nothing and keeps what was claimed sent.
<1>1. ASSUME UNCHANGED drained,
             \A i \in Instances : claimed'[i] \subseteq claimed[i],
             \A c \in Commands : row[c] = "sent" <=> row'[c] = "sent"
      PROVE  DrainInv'
  <2>1. \A c \in Commands : drained[c] <= spent.faults => drained'[c] <= spent'.faults
    BY <1>0, <1>1
  <2>2. \A c \in Commands : drained[c] <= 1 + spent.faults => drained'[c] <= 1 + spent'.faults
    BY <1>0, <1>1
  <2> QED
    BY <1>0, <1>1, <2>1, <2>2 DEF DrainInv, DrainedOnce
<1>2. ASSUME NEW i \in Instances, Claim(i)
      PROVE  DrainInv'
  <2>1. /\ claimed'[i] = {c \in Commands : row[c] = "pending"}
        /\ \A j \in Instances \ {i} : claimed'[j] = claimed[j]
        /\ \A c \in Commands : row'[c] = IF row[c] = "pending" THEN "sent" ELSE row[c]
        /\ UNCHANGED <<drained, spent>>
    BY <1>2 DEF Claim, CommandRanges, socketVars
  <2> QED
    BY <1>0, <2>1 DEF DrainInv, DrainedOnce
<1>3. ASSUME NEW i \in Instances, NEW c \in Commands, DrainPublishes(i, c)
      PROVE  DrainInv'
  <2>1. /\ claimed'[i] = claimed[i] \ {c}
        /\ \A j \in Instances \ {i} : claimed'[j] = claimed[j]
        /\ drained'[c] = drained[c] + 1
        /\ \A d \in Commands \ {c} : drained'[d] = drained[d]
        /\ UNCHANGED <<row, spent>>
    BY <1>3 DEF DrainPublishes, CommandRanges, socketVars
  <2>2. row[c] = "sent" /\ \A j \in Instances : c \notin claimed'[j]
    BY <1>3, <2>1 DEF DrainPublishes, DrainInv
  <2>3. drained'[c] <= 1 + spent'.faults
    BY <1>0, <1>3, <2>1 DEF DrainPublishes, DrainInv
  <2> QED
    BY <1>0, <2>1, <2>2, <2>3 DEF DrainInv, DrainedOnce
<1>4. ASSUME NEW i \in Instances, NEW c \in Commands, DrainFails(i, c)
      PROVE  DrainInv'
  <2>1. /\ claimed'[i] = claimed[i] \ {c}
        /\ \A j \in Instances \ {i} : claimed'[j] = claimed[j]
        /\ drained'[c] \in {drained[c], drained[c] + 1}
        /\ \A d \in Commands \ {c} : drained'[d] = drained[d] /\ row'[d] = row[d]
    BY <1>4 DEF DrainFails, CommandRanges
  <2>2. spent'.faults = spent.faults + 1
    BY <1>4, SpendRanges DEF DrainFails
  <2>3. \A j \in Instances : c \notin claimed'[j]
    BY <1>4, <2>1 DEF DrainFails, DrainInv
  <2>4. drained'[c] <= spent'.faults /\ drained'[c] <= 1 + spent'.faults
    BY <1>0, <1>4, <2>1, <2>2 DEF DrainFails, DrainInv
  <2>5. \A d \in Commands \ {c} :
           /\ drained[d] <= spent.faults => drained'[d] <= spent'.faults
           /\ drained[d] <= 1 + spent.faults => drained'[d] <= 1 + spent'.faults
    BY <1>0, <2>1
  <2> QED
    BY <1>0, <2>1, <2>3, <2>4, <2>5 DEF DrainInv, DrainedOnce
<1>5. CASE \E c \in Commands : Call(c) \/ GiveUp(c) \/ ExpireRow(c)
  BY <1>1, <1>5 DEF Call, GiveUp, ExpireRow, queueVars, CommandRanges
<1>6. ASSUME NEW i \in Instances,
             Receive(i) \/ LookupAnswered(i) \/ LookupFailed(i) \/ AnnounceReady(i)
      PROVE  DrainInv'
  BY <1>1, <1>6 DEF Receive, LookupAnswered, LookupFailed, AnnounceReady, queueVars
<1>7. ASSUME NEW i \in Instances, NEW c \in Commands, InsertRow(i, c)
      PROVE  DrainInv'
  BY <1>1, <1>7 DEF InsertRow, CommandRanges
<1>8. ASSUME NEW i \in Instances, StationConnects(i) \/ SocketCloses(i) \/ InstanceCrashes(i)
      PROVE  DrainInv'
  BY <1>1, <1>8 DEF StationConnects, SocketCloses, InstanceCrashes, queueVars, CommandRanges
<1>9. CASE SocketsOnly
  BY <1>1, <1>9 DEF SocketsOnly, queueVars
<1> QED
  BY <1>2, <1>3, <1>4, <1>5, <1>6, <1>7, <1>8, <1>9 DEF Next, Step

(***************************************************************************)
(* The way of one command.                                                 *)
(***************************************************************************)

\* An instance that has looked a command up touches that command only; when it
\* says "queued", the command is on its way to the queue.
LEMMA DispatchEffect ==
    ASSUME CommandRanges, NEW i \in Instances, NEW d \in Commands, Dispatch(i, d)
    PROVE  /\ \A c \in Commands \ {d} : told'[c] = told[c] /\ ran'[c] = ran[c]
           /\ \A j \in Instances : \A c \in Commands \ {d} :
                 c \in queueDue'[j] <=> c \in queueDue[j]
           /\ \A j \in Instances : queueDue[j] \subseteq queueDue'[j]
           /\ told'[d] = "queued" /\ told[d] # "queued" => d \in queueDue'[i]
<1>1. CASE SendToDeadSocket(i, d)
  BY <1>1 DEF SendToDeadSocket, Tells, CommandRanges
<1>2. CASE SendToStation(i, d)
  BY <1>2 DEF SendToStation, Tells, CommandRanges
<1>3. CASE NotConnected(i, d)
  <2>1. /\ \A c \in Commands \ {d} : told'[c] = told[c]
        /\ ran' = ran
    BY <1>3 DEF NotConnected, Tells, CommandRanges
  <2>2. queueDue' \in {queueDue, [queueDue EXCEPT ![i] = @ \union {d}]}
    BY <1>3 DEF NotConnected
  <2>3. told'[d] = "queued" /\ told[d] # "queued" => d \in queueDue'[i]
    BY <1>3 DEF NotConnected, Tells, CommandRanges
  <2> QED
    BY <2>1, <2>2, <2>3 DEF CommandRanges
<1> QED
  BY <1>1, <1>2, <1>3 DEF Dispatch

\* A command stays queued while nothing fails: a row is never deleted, and the
\* projection that takes the event off its lane writes the row.
LEMMA QueuedStays ==
    ASSUME SocketRanges, CommandRanges, Next, NEW c \in Commands, Queued(c)
    PROVE  Queued(c)' \/ spent'.faults > 0
<1>1. ASSUME UNCHANGED <<queueDue, row>>
      PROVE  Queued(c)'
  BY <1>1 DEF Queued
<1>2. ASSUME UNCHANGED queueDue /\ \A d \in Commands : row[d] # "none" => row'[d] # "none"
      PROVE  Queued(c)'
  BY <1>2 DEF Queued
<1>3. ASSUME UNCHANGED row /\ \A j \in Instances : queueDue[j] \subseteq queueDue'[j]
      PROVE  Queued(c)'
  BY <1>3 DEF Queued
<1>4. ASSUME NEW d \in Commands, Call(d) \/ GiveUp(d) \/ ExpireRow(d)
      PROVE  Queued(c)'
  BY <1>1, <1>2, <1>4 DEF Call, GiveUp, ExpireRow, queueVars, CommandRanges
<1>5. ASSUME NEW i \in Instances, LookupAnswered(i) \/ LookupFailed(i)
      PROVE  Queued(c)'
  <2>1. Head(ops[i]).for \in Commands
    BY <1>5, LookupHead
  <2>2. \A j \in Instances : queueDue[j] \subseteq queueDue'[j]
    BY <1>5, <2>1, DispatchEffect DEF LookupAnswered, LookupFailed, Route, Skip
  <2> QED
    BY <1>3, <1>5, <2>2 DEF LookupAnswered, LookupFailed
<1>6. ASSUME NEW i \in Instances, Receive(i) \/ AnnounceReady(i)
      PROVE  Queued(c)'
  BY <1>1, <1>6 DEF Receive, AnnounceReady, queueVars
<1>7. ASSUME NEW i \in Instances, Claim(i)
      PROVE  Queued(c)'
  BY <1>2, <1>7 DEF Claim
<1>8. ASSUME NEW i \in Instances, NEW d \in Commands, InsertRow(i, d)
      PROVE  Queued(c)'
  <2>1. /\ row'[d] # "none"
        /\ \A e \in Commands : row[e] # "none" => row'[e] # "none"
        /\ \A j \in Instances : queueDue[j] \ {d} \subseteq queueDue'[j]
    BY <1>8 DEF InsertRow, CommandRanges
  <2> QED
    BY <2>1 DEF Queued
<1>9. ASSUME NEW i \in Instances, NEW d \in Commands, DrainPublishes(i, d) \/ DrainFails(i, d)
      PROVE  Queued(c)'
  BY <1>2, <1>9 DEF DrainPublishes, DrainFails, CommandRanges
<1>10. ASSUME NEW i \in Instances, StationConnects(i) \/ SocketCloses(i)
       PROVE  Queued(c)'
  BY <1>1, <1>10 DEF StationConnects, SocketCloses, queueVars
<1>11. ASSUME NEW i \in Instances, InstanceCrashes(i)
       PROVE  spent'.faults > 0
  BY <1>11, SpendRanges DEF InstanceCrashes, Crash
<1>12. CASE SocketsOnly
  BY <1>1, <1>12 DEF SocketsOnly, queueVars
<1> QED
  BY <1>4, <1>5, <1>6, <1>7, <1>8, <1>9, <1>10, <1>11, <1>12 DEF Next, Step

\* A caller learns that its command is queued in the step that queues it.
LEMMA QueuedIsTold ==
    ASSUME SocketRanges, CommandRanges, Next, NEW c \in Commands,
           told[c] # "queued", told'[c] = "queued"
    PROVE  Queued(c)'
<1>1. told' # told
  BY DEF CommandRanges
<1>2. ASSUME NEW d \in Commands, Call(d) \/ GiveUp(d) \/ ExpireRow(d)
      PROVE  FALSE
  BY <1>1, <1>2 DEF Call, GiveUp, ExpireRow, callVars, CommandRanges
<1>3. ASSUME NEW i \in Instances, LookupAnswered(i) \/ LookupFailed(i)
      PROVE  Queued(c)'
  <2>1. Head(ops[i]).for \in Commands
    BY <1>3, LookupHead
  <2>2. Dispatch(i, Head(ops[i]).for)
    BY <1>1, <1>3 DEF LookupAnswered, LookupFailed, Route, Skip
  <2> QED
    BY <2>1, <2>2, DispatchEffect DEF Queued
<1>4. ASSUME NEW i \in Instances, Receive(i) \/ AnnounceReady(i) \/ Claim(i)
      PROVE  FALSE
  BY <1>1, <1>4 DEF Receive, AnnounceReady, Claim, callVars
<1>5. ASSUME NEW i \in Instances, NEW d \in Commands,
             InsertRow(i, d) \/ DrainPublishes(i, d) \/ DrainFails(i, d)
      PROVE  FALSE
  BY <1>1, <1>5 DEF InsertRow, DrainPublishes, DrainFails, callVars
<1>6. ASSUME NEW i \in Instances, StationConnects(i) \/ SocketCloses(i) \/ InstanceCrashes(i)
      PROVE  FALSE
  BY <1>1, <1>6 DEF StationConnects, SocketCloses, InstanceCrashes, callVars
<1>7. CASE SocketsOnly
  BY <1>1, <1>7 DEF SocketsOnly, callVars
<1> QED
  BY <1>2, <1>3, <1>4, <1>5, <1>6, <1>7 DEF Next, Step

LEMMA QueuedStep ==
    ASSUME SocketRanges, CommandRanges, QueuedIsStored, Next
    PROVE  QueuedIsStored'
<1> SUFFICES ASSUME NEW c \in Commands, told'[c] = "queued", spent'.faults = 0
             PROVE  Queued(c)'
  BY DEF QueuedIsStored
<1>1. spent.faults = 0
  BY FaultsStep
<1>2. CASE told[c] = "queued"
  <2>1. Queued(c)
    BY <1>1, <1>2 DEF QueuedIsStored
  <2> QED
    BY <2>1, QueuedStays
<1>3. CASE told[c] # "queued"
  BY <1>3, QueuedIsTold
<1> QED
  BY <1>2, <1>3

\* A step that leaves the copies of a command where they are, on the way to
\* the instances and on their Redis connections.
SameInbox(c) ==
    \A j \in Instances :
        /\ c \in ToSet(inbox'[j]) <=> c \in ToSet(inbox[j])
        /\ OnceIn(inbox[j], c) => OnceIn(inbox'[j], c)

SameOps(c) ==
    \A j \in Instances :
        /\ Lookup(c) \in ToSet(ops'[j]) <=> Lookup(c) \in ToSet(ops[j])
        /\ OnceIn(ops[j], Lookup(c)) => OnceIn(ops'[j], Lookup(c))

\* A step that does not touch a command, its caller giving up aside.
Quiet(c) ==
    /\ SameInbox(c) /\ SameOps(c)
    /\ told'[c] = told[c] \/ (told[c] = "waiting" /\ told'[c] = "timeout")
    /\ ran'[c] = ran[c]
    /\ ~Queued(c) => (~Queued(c))' /\ drained'[c] = drained[c]

LEMMA PublishOther ==
    ASSUME CommandRanges, NEW c \in Commands, NEW d \in Commands \ {c}, Publishes(d)
    PROVE  SameInbox(c)
<1> SUFFICES ASSUME NEW j \in Instances
             PROVE  /\ c \in ToSet(inbox'[j]) <=> c \in ToSet(inbox[j])
                    /\ OnceIn(inbox[j], c) => OnceIn(inbox'[j], c)
  BY DEF SameInbox
<1>1. inbox[j] \in Seq(Commands) /\ inbox'[j] \in {inbox[j], Append(inbox[j], d)}
  BY DEF CommandRanges, Publishes
<1>2. ToSet(Append(inbox[j], d)) = ToSet(inbox[j]) \union {d}
  BY <1>1, AppendFacts
<1>3. OnceIn(inbox[j], c) => OnceIn(Append(inbox[j], d), c)
  BY <1>1, OnceInAppend
<1> QED
  BY <1>1, <1>2, <1>3

LEMMA IssueOther ==
    ASSUME SocketRanges, NEW c \in Commands,
           NEW i \in Instances, NEW op \in RedisOp, op # Lookup(c), Issue(i, op)
    PROVE  SameOps(c)
<1> SUFFICES ASSUME NEW j \in Instances
             PROVE  /\ Lookup(c) \in ToSet(ops'[j]) <=> Lookup(c) \in ToSet(ops[j])
                    /\ OnceIn(ops[j], Lookup(c)) => OnceIn(ops'[j], Lookup(c))
  BY DEF SameOps
<1>1. ops[j] \in Seq(RedisOp) /\ ops'[j] \in {ops[j], Append(ops[j], op)}
  BY DEF SocketRanges, Issue
<1>2. ToSet(Append(ops[j], op)) = ToSet(ops[j]) \union {op}
  BY <1>1, AppendFacts
<1>3. OnceIn(ops[j], Lookup(c)) => OnceIn(Append(ops[j], op), Lookup(c))
  BY <1>1, OnceInAppend
<1>4. Lookup(c) \in ToSet(Append(ops[j], op)) <=> Lookup(c) \in ToSet(ops[j])
  BY <1>2
<1> QED
  BY <1>1, <1>3, <1>4

LEMMA TakeOther ==
    ASSUME SocketRanges, NEW c \in Commands,
           NEW i \in Instances, ops[i] # <<>>, Head(ops[i]) # Lookup(c),
           ops' = [ops EXCEPT ![i] = Tail(@)]
    PROVE  SameOps(c)
<1> SUFFICES ASSUME NEW j \in Instances
             PROVE  /\ Lookup(c) \in ToSet(ops'[j]) <=> Lookup(c) \in ToSet(ops[j])
                    /\ OnceIn(ops[j], Lookup(c)) => OnceIn(ops'[j], Lookup(c))
  BY DEF SameOps
<1>1. ops[i] \in Seq(RedisOp) /\ ops'[j] = IF j = i THEN Tail(ops[i]) ELSE ops[j]
  BY DEF SocketRanges
<1>2. ToSet(ops[i]) = ToSet(Tail(ops[i])) \union {Head(ops[i])}
  BY <1>1, TailFacts
<1>3. OnceIn(ops[i], Lookup(c)) => OnceIn(Tail(ops[i]), Lookup(c))
  BY <1>1, OnceInTail
<1> QED
  BY <1>1, <1>2, <1>3

LEMMA ReceiveOther ==
    ASSUME CommandRanges, NEW c \in Commands,
           NEW i \in Instances, inbox[i] # <<>>, Head(inbox[i]) # c,
           inbox' = [inbox EXCEPT ![i] = Tail(@)]
    PROVE  SameInbox(c)
<1> SUFFICES ASSUME NEW j \in Instances
             PROVE  /\ c \in ToSet(inbox'[j]) <=> c \in ToSet(inbox[j])
                    /\ OnceIn(inbox[j], c) => OnceIn(inbox'[j], c)
  BY DEF SameInbox
<1>1. inbox[i] \in Seq(Commands) /\ inbox'[j] = IF j = i THEN Tail(inbox[i]) ELSE inbox[j]
  BY DEF CommandRanges
<1>2. ToSet(inbox[i]) = ToSet(Tail(inbox[i])) \union {Head(inbox[i])}
  BY <1>1, TailFacts
<1>3. OnceIn(inbox[i], c) => OnceIn(Tail(inbox[i]), c)
  BY <1>1, OnceInTail
<1> QED
  BY <1>1, <1>2, <1>3

LEMMA QuietStep ==
    ASSUME IInv, Next, NEW c \in Commands, Quiet(c)
    PROVE  CommandInv(c)'
<1> USE DEF Quiet
<1>1. CommandInv(c)
  BY DEF IInv
<1>2. told'[c] = "nothing" => Uncalled(c)'
  <2> SUFFICES ASSUME told'[c] = "nothing" PROVE Uncalled(c)'
    OBVIOUS
  <2>1. Uncalled(c)
    BY <1>1 DEF CommandInv
  <2>2. ~InFlight(c)'
    BY <2>1 DEF Uncalled, InFlight, SameInbox, SameOps
  <2> QED
    BY <2>1, <2>2 DEF Uncalled
<1>3. c \in steady' /\ spent'.faults = 0 => OnItsWay(c)'
  <2> SUFFICES ASSUME c \in steady', spent'.faults = 0 PROVE OnItsWay(c)'
    OBVIOUS
  <2>1. Stays /\ c \in steady /\ spent.faults = 0
    BY FaultsStep DEF IInv, Next
  <2>2. OnItsWay(c) /\ live \in Instances /\ live' = live /\ owner' = owner
    BY <1>1, <2>1 DEF CommandInv, Stays, IInv, SocketRanges
  <2>3. OneCopyAt(live, c)' /\ (CopyAt(live, c)' <=> CopyAt(live, c))
    BY <2>2 DEF OnItsWay, OneCopyAt, CopyAt, SameInbox, SameOps
  <2> QED
    BY <2>2, <2>3 DEF OnItsWay
<1> QED
  BY <1>2, <1>3 DEF CommandInv

\* A queued command stays clear of both halves of the invariant.
LEMMA QueuedCommandStep ==
    ASSUME IInv, Next, NEW c \in Commands, Queued(c), told'[c] = told[c]
    PROVE  CommandInv(c)'
<1>1. CommandInv(c)
  BY DEF IInv
<1>2. told[c] # "nothing"
  BY <1>1 DEF CommandInv, Uncalled
<1>3. ~(c \in steady' /\ spent'.faults = 0)
  <2> SUFFICES ASSUME c \in steady', spent'.faults = 0 PROVE FALSE
    OBVIOUS
  <2>1. c \in steady /\ spent.faults = 0
    BY FaultsStep DEF IInv, Next
  <2> QED
    BY <1>1, <2>1 DEF CommandInv, OnItsWay
<1> QED
  BY <1>2, <1>3 DEF CommandInv

\* A command is published: every copy is in an inbox, and the one in front of
\* the station's instance is the only one there.
LEMMA CallStep ==
    ASSUME IInv, Next, NEW c \in Commands, Call(c)
    PROVE  CommandInv(c)'
<1>1. Uncalled(c) /\ told'[c] = "waiting"
  BY DEF Call, IInv, CommandInv, CommandRanges
<1>2. ~Queued(c)' /\ ran'[c] = 0
  BY <1>1 DEF Call, Uncalled, Queued, queueVars
<1>3. ASSUME c \in steady', spent'.faults = 0
      PROVE  OnItsWay(c)'
  <2>1. live # Nobody /\ owner = live /\ live' = live /\ owner' = live
    BY <1>3 DEF Next, Stays
  <2>2. live \in Instances /\ live \in up
    BY <2>1 DEF IInv, SocketRanges, LiveIsHeld, ReplacedAt
  <2>3. /\ inbox[live] \in Seq(Commands) /\ ops'[live] = ops[live]
        /\ inbox'[live] = Append(inbox[live], c)
    BY <2>2 DEF Call, Publishes, IInv, CommandRanges, socketVars
  <2>4. c \notin ToSet(inbox[live]) /\ Lookup(c) \notin ToSet(ops[live])
    BY <1>1, <2>2 DEF Uncalled, InFlight
  <2>5. OnceIn(inbox[live], c) /\ OnceIn(ops[live], Lookup(c))
    BY <2>4 DEF OnceIn, ToSet
  <2>6. OnceIn(inbox'[live], c) /\ c \in ToSet(inbox'[live])
    BY <2>3, <2>4, <2>5, OnceInAppend, AppendFacts
  <2>7. OneCopyAt(live, c)' /\ CopyAt(live, c)'
    BY <2>1, <2>3, <2>4, <2>5, <2>6 DEF OneCopyAt, CopyAt
  <2> QED
    BY <1>1, <1>2, <2>1, <2>7 DEF OnItsWay
<1> QED
  BY <1>1, <1>3 DEF CommandInv

\* An instance takes the command off its inbox and looks it up.
LEMMA ReceiveStep ==
    ASSUME IInv, Next, NEW c \in Commands,
           NEW i \in Instances, Receive(i), Head(inbox[i]) = c
    PROVE  CommandInv(c)'
<1>1. /\ inbox[i] \in Seq(Commands) /\ inbox[i] # <<>> /\ ops[i] \in Seq(RedisOp)
      /\ inbox'[i] = Tail(inbox[i]) /\ ops'[i] = Append(ops[i], Lookup(c))
      /\ \A j \in Instances \ {i} : inbox'[j] = inbox[j] /\ ops'[j] = ops[j]
      /\ told' = told /\ ran' = ran
  BY DEF Receive, Issue, IInv, CommandRanges, SocketRanges
<1>2. c \in ToSet(inbox[i])
  BY <1>1, TailFacts
<1>3. told'[c] # "nothing"
  BY <1>1, <1>2 DEF IInv, CommandInv, Uncalled, InFlight
<1>4. ASSUME c \in steady', spent'.faults = 0
      PROVE  OnItsWay(c)'
  <2>1. Stays /\ c \in steady /\ spent.faults = 0
    BY <1>1, <1>4, FaultsStep DEF IInv, Next
  <2>2. OnItsWay(c) /\ live \in Instances /\ live' = live /\ owner' = owner
    BY <2>1 DEF CommandInv, Stays, IInv, SocketRanges
  <2>3. Queued(c)' <=> Queued(c)
    BY DEF Receive, Queued, queueVars
  <2>4. CASE live # i
    BY <1>1, <2>2, <2>3, <2>4 DEF OnItsWay, OneCopyAt, CopyAt
  <2>5. CASE live = i
    <3>1. /\ OnceIn(inbox[i], c) /\ OnceIn(ops[i], Lookup(c))
          /\ Lookup(c) \notin ToSet(ops[i]) /\ ran[c] = 0
      BY <1>2, <2>2, <2>5 DEF OnItsWay, OneCopyAt, CopyAt
    <3>2. OnceIn(inbox'[i], c) /\ c \notin ToSet(inbox'[i])
      BY <1>1, <3>1, OnceInTail
    <3>3. OnceIn(ops'[i], Lookup(c)) /\ Lookup(c) \in ToSet(ops'[i])
      <4>1. Lookup(c) \in RedisOp
        BY OpFacts
      <4> QED
        BY <1>1, <3>1, <4>1, OnceInAppend, AppendFacts
    <3>4. OneCopyAt(live, c)' /\ CopyAt(live, c)'
      BY <2>2, <2>5, <3>2, <3>3 DEF OneCopyAt, CopyAt
    <3> QED
      BY <1>1, <2>2, <2>3, <3>1, <3>4 DEF OnItsWay
  <2> QED
    BY <2>4, <2>5
<1> QED
  BY <1>3, <1>4 DEF CommandInv

\* The lookup of the command is answered: the instances the registry does not
\* name leave it alone, and the one it names has the station's socket.
LEMMA LookupStep ==
    ASSUME IInv, Next, NEW c \in Commands,
           NEW i \in Instances, LookupAnswered(i) \/ LookupFailed(i), Head(ops[i]) = Lookup(c)
    PROVE  CommandInv(c)'
<1>1. /\ ops[i] \in Seq(RedisOp) /\ ops[i] # <<>> /\ ops'[i] = Tail(ops[i])
      /\ \A j \in Instances \ {i} : ops'[j] = ops[j]
      /\ inbox' = inbox /\ row' = row
  BY DEF LookupAnswered, LookupFailed, IInv, SocketRanges
<1>2. Head(ops[i]).for = c
  BY DEF Lookup, Op
<1>3. Lookup(c) \in ToSet(ops[i])
  BY <1>1, TailFacts
<1>4. told[c] # "nothing"
  BY <1>3 DEF IInv, CommandInv, Uncalled, InFlight
<1>5. told'[c] # "nothing"
  <2>1. \A what \in Verdicts \ {"nothing"} : Tells(c, what) => told'[c] # "nothing"
    BY <1>4 DEF Tells, IInv, CommandRanges
  <2>2. {"timeout", "ran", "refused", "queued", "offline"} \subseteq Verdicts \ {"nothing"}
    BY DEF Verdicts
  <2>3. UNCHANGED told \/ Dispatch(i, c)
    BY <1>2 DEF LookupAnswered, LookupFailed, Route, Skip
  <2> QED
    BY <1>4, <2>1, <2>2, <2>3 DEF Dispatch, SendToDeadSocket, SendToStation, NotConnected
<1>6. ASSUME c \in steady', spent'.faults = 0
      PROVE  OnItsWay(c)'
  <2>1. Stays /\ c \in steady /\ spent.faults = 0
    BY <1>4, <1>6, FaultsStep DEF IInv, Next
  <2>2. OnItsWay(c) /\ live \in held /\ live \in Instances /\ live' = live /\ owner' = owner /\ owner = live
    BY <2>1 DEF CommandInv, Stays, IInv, SocketRanges, LiveIsHeld, ReplacedAt
  <2>3. LookupAnswered(i)
    <3>1. LookupFailed(i) => spent'.faults = spent.faults + 1
      BY SpendRanges DEF LookupFailed, IInv
    <3> QED
      BY <1>6, <2>1, <3>1
  <2>4. CASE live # i
    <3>1. UNCHANGED <<queueDue, told, ran>>
      BY <2>2, <2>3, <2>4, NobodyAssumption DEF LookupAnswered, Route, Skip
    <3> QED
      BY <1>1, <2>2, <2>4, <3>1 DEF OnItsWay, OneCopyAt, CopyAt, Queued
  <2>5. CASE live = i
    <3>1. SendToStation(i, c)
      BY <1>2, <2>2, <2>3, <2>5
      DEF LookupAnswered, Route, Dispatch, SendToDeadSocket, NotConnected
    <3>2. ran[c] = 0 /\ c \notin ToSet(inbox[i]) /\ OnceIn(inbox[i], c) /\ OnceIn(ops[i], Lookup(c))
      BY <1>3, <2>2, <2>5 DEF OnItsWay, OneCopyAt, CopyAt
    <3>3. OnceIn(ops'[i], Lookup(c)) /\ Lookup(c) \notin ToSet(ops'[i])
      BY <1>1, <3>2, OnceInTail
    <3>4. OneCopyAt(live, c)' /\ ~CopyAt(live, c)'
      BY <1>1, <2>2, <2>5, <3>2, <3>3 DEF OneCopyAt, CopyAt
    <3>5. ran'[c] <= 1
      BY <3>1, <3>2 DEF SendToStation, IInv, CommandRanges
    <3>6. told'[c] \in {"timeout", "ran", "refused"}
      BY <2>2, <3>1 DEF SendToStation, Tells, OnItsWay, IInv, CommandRanges
    <3>7. ~Queued(c)'
      BY <1>1, <2>2, <3>1 DEF SendToStation, OnItsWay, Queued
    <3> QED
      BY <2>2, <3>4, <3>5, <3>6, <3>7 DEF OnItsWay
  <2> QED
    BY <2>4, <2>5
<1> QED
  BY <1>5, <1>6 DEF CommandInv

\* What a step may do to a command: nothing, or one of the steps of its way, or
\* a drain, or the crash of an instance.
LEMMA StepKinds ==
    ASSUME IInv, Next, NEW c \in Commands
    PROVE  \/ Quiet(c)
           \/ Call(c)
           \/ \E i \in Instances :
                 \/ Receive(i) /\ Head(inbox[i]) = c
                 \/ (LookupAnswered(i) \/ LookupFailed(i)) /\ Head(ops[i]) = Lookup(c)
                 \/ InstanceCrashes(i)
           \/ Queued(c) /\ told'[c] = told[c]
<1>0. SocketRanges /\ CommandRanges
  BY DEF IInv
<1>1. UNCHANGED inbox => SameInbox(c)
  BY DEF SameInbox
<1>2. UNCHANGED ops => SameOps(c)
  BY DEF SameOps
<1>3. UNCHANGED <<queueDue, row>> /\ ~Queued(c) => (~Queued(c))'
  BY DEF Queued
<1>4. ASSUME NEW d \in Commands, d # c, Call(d)
      PROVE  Quiet(c)
  <2>1. SameInbox(c) /\ SameOps(c)
    BY <1>0, <1>2, <1>4, PublishOther DEF Call, socketVars
  <2> QED
    BY <1>0, <1>3, <1>4, <2>1 DEF Quiet, Call, queueVars, CommandRanges
<1>5. ASSUME NEW d \in Commands, GiveUp(d)
      PROVE  Quiet(c)
  <2>1. told'[c] = told[c] \/ (told[c] = "waiting" /\ told'[c] = "timeout")
    BY <1>0, <1>5 DEF GiveUp, CommandRanges
  <2> QED
    BY <1>1, <1>2, <1>3, <1>5, <2>1 DEF Quiet, GiveUp, queueVars, socketVars
<1>6. ASSUME NEW d \in Commands, ExpireRow(d)
      PROVE  Quiet(c)
  <2>1. ~Queued(c) => (~Queued(c))'
    BY <1>0, <1>6 DEF ExpireRow, Queued, CommandRanges
  <2> QED
    BY <1>1, <1>2, <1>6, <2>1 DEF Quiet, ExpireRow, callVars, socketVars
<1>7. ASSUME NEW i \in Instances, Receive(i), Head(inbox[i]) # c
      PROVE  Quiet(c)
  <2>1. Head(inbox[i]) \in Commands
    BY <1>0, <1>7, TailFacts DEF Receive, CommandRanges
  <2>2. SameOps(c)
    BY <1>0, <1>7, <2>1, OpFacts, IssueOther DEF Receive
  <2>3. SameInbox(c)
    BY <1>0, <1>7, ReceiveOther DEF Receive
  <2> QED
    BY <1>3, <1>7, <2>2, <2>3 DEF Quiet, Receive, queueVars
<1>8. ASSUME NEW i \in Instances, LookupAnswered(i) \/ LookupFailed(i), Head(ops[i]) # Lookup(c)
      PROVE  Quiet(c)
  <2>1. PICK d \in Commands : Head(ops[i]) = Lookup(d) /\ Head(ops[i]).for = d
    BY <1>0, <1>8, LookupHead
  <2>2. d # c
    BY <1>8, <2>1
  <2>3. SameOps(c)
    BY <1>0, <1>8, TakeOther DEF LookupAnswered, LookupFailed
  <2>4. UNCHANGED <<queueDue, told, ran>> \/ Dispatch(i, d)
    BY <1>8, <2>1 DEF LookupAnswered, LookupFailed, Route, Skip
  <2>5. /\ told'[c] = told[c] /\ ran'[c] = ran[c]
        /\ \A j \in Instances : c \in queueDue'[j] <=> c \in queueDue[j]
    BY <1>0, <2>2, <2>4, DispatchEffect
  <2>6. inbox' = inbox /\ row' = row /\ drained' = drained
    BY <1>8 DEF LookupAnswered, LookupFailed
  <2>7. ~Queued(c) => (~Queued(c))'
    BY <2>5, <2>6 DEF Queued
  <2> QED
    BY <1>1, <2>3, <2>5, <2>6, <2>7 DEF Quiet
<1>9. ASSUME NEW i \in Instances, AnnounceReady(i)
      PROVE  Quiet(c)
  BY <1>1, <1>2, <1>3, <1>9 DEF Quiet, AnnounceReady, callVars, socketVars
<1>10. ASSUME NEW i \in Instances, Claim(i)
       PROVE  Quiet(c)
  <2>1. ~Queued(c) => (~Queued(c))'
    BY <1>10 DEF Claim, Queued
  <2> QED
    BY <1>1, <1>2, <1>10, <2>1 DEF Quiet, Claim, callVars, socketVars
<1>11. ASSUME NEW i \in Instances, NEW d \in Commands, InsertRow(i, d)
       PROVE  Quiet(c)
  <2>1. \A j \in Instances : queueDue'[j] \subseteq queueDue[j]
    BY <1>0, <1>11 DEF InsertRow, CommandRanges
  <2>2. row'[c] = row[c] \/ d = c
    BY <1>0, <1>11 DEF InsertRow, CommandRanges
  <2>3. ~Queued(c) => (~Queued(c))'
    BY <1>11, <2>1, <2>2 DEF InsertRow, Queued
  <2> QED
    BY <1>1, <1>2, <1>11, <2>3 DEF Quiet, InsertRow, callVars, socketVars
<1>12. ASSUME NEW i \in Instances, NEW d \in Commands, DrainPublishes(i, d) \/ DrainFails(i, d)
       PROVE  Quiet(c) \/ (Queued(c) /\ told'[c] = told[c])
  <2>1. UNCHANGED <<told, ran, ops, queueDue>>
    BY <1>12 DEF DrainPublishes, DrainFails, socketVars
  <2>2. CASE d = c
    BY <1>12, <2>1, <2>2 DEF DrainPublishes, DrainFails, IInv, DrainInv, Queued
  <2>3. CASE d # c
    <3>1. SameInbox(c)
      BY <1>0, <1>1, <1>12, <2>3, PublishOther DEF DrainPublishes, DrainFails
    <3>2. row'[c] = row[c] /\ drained'[c] = drained[c]
      BY <1>0, <1>12, <2>3 DEF DrainPublishes, DrainFails, CommandRanges
    <3>3. ~Queued(c) => (~Queued(c))'
      BY <2>1, <3>2 DEF Queued
    <3> QED
      BY <1>2, <2>1, <3>1, <3>2, <3>3 DEF Quiet
  <2> QED
    BY <2>2, <2>3
<1>13. ASSUME NEW i \in Instances, StationConnects(i) \/ SocketCloses(i)
       PROVE  Quiet(c)
  <2>1. PICK k \in RegistryWrites : Issue(i, Write(k))
    BY <1>13 DEF StationConnects, SocketCloses, Connect, Close, RegistryWrites
  <2>2. SameOps(c)
    BY <1>0, <2>1, OpFacts, IssueOther
  <2> QED
    BY <1>1, <1>3, <1>13, <2>2 DEF Quiet, StationConnects, SocketCloses, queueVars, callVars
<1>14. CASE SocketsOnly
  <2>1. CASE UNCHANGED ops
    BY <1>1, <1>2, <1>3, <1>14, <2>1 DEF Quiet, SocketsOnly, queueVars, callVars
  <2>2. ASSUME NEW i \in Instances, ApplyWrite(i) \/ LoseWrite(i)
        PROVE  SameOps(c)
    <3>1. Head(ops[i]) # Lookup(c)
      BY <1>0, <2>2, TailFacts, OpFacts DEF ApplyWrite, LoseWrite, SocketRanges
    <3> QED
      BY <1>0, <2>2, <3>1, TakeOther DEF ApplyWrite, LoseWrite
  <2>3. ASSUME NEW i \in Instances, Refresh(i) \/ CloseOutliving(i)
        PROVE  SameOps(c)
    BY <1>0, <2>3, OpFacts, IssueOther DEF Refresh, CloseOutliving, RegistryWrites
  <2>4. SameOps(c)
    BY <1>2, <1>14, <2>2, <2>3 DEF SocketsOnly, CloseReplaced, Vanish, Expire
  <2> QED
    BY <1>1, <1>3, <1>14, <2>4 DEF Quiet, SocketsOnly, queueVars, callVars
<1> QED
  BY <1>4, <1>5, <1>6, <1>7, <1>8, <1>9, <1>10, <1>11, <1>12, <1>13, <1>14 DEF Next, Step

\* A crash takes copies away, and is a fault.
LEMMA CrashStep ==
    ASSUME IInv, Next, NEW c \in Commands, NEW i \in Instances, InstanceCrashes(i)
    PROVE  CommandInv(c)'
<1>1. spent'.faults > 0
  BY SpendRanges DEF InstanceCrashes, Crash, IInv
<1>2. /\ \A j \in Instances : /\ inbox'[j] \in {inbox[j], <<>>} /\ ops'[j] \in {ops[j], <<>>}
                              /\ queueDue'[j] \subseteq queueDue[j]
      /\ UNCHANGED <<told, ran, row>>
  BY DEF InstanceCrashes, Crash, IInv, SocketRanges, CommandRanges
<1>3. \A x : x \notin ToSet(<<>>)
  BY DEF ToSet
<1>4. Uncalled(c) => Uncalled(c)'
  BY <1>2, <1>3 DEF Uncalled, InFlight, Queued
<1> QED
  BY <1>1, <1>2, <1>4 DEF IInv, CommandInv

LEMMA CommandStep ==
    ASSUME IInv, Next, NEW c \in Commands
    PROVE  CommandInv(c)'
  BY StepKinds, QuietStep, CallStep, ReceiveStep, LookupStep, CrashStep, QueuedCommandStep

(***************************************************************************)
(* The theorems.                                                           *)
(***************************************************************************)
LEMMA Invariance == Spec => []IInv
<1>1. IInv /\ [Next]_vars => IInv'
  <2> SUFFICES ASSUME IInv, [Next]_vars PROVE IInv'
    OBVIOUS
  <2>1. CASE Next
    BY <2>1, RangesStep, ReadyStep, DrainStep, QueuedStep, CommandStep DEF IInv
  <2>2. CASE UNCHANGED vars
    <3>1. SocketRanges' /\ CommandRanges'
      BY <2>2 DEF vars, socketVars, queueVars, callVars, IInv, SocketRanges, CommandRanges, LiveIsHeld, ReplacedAt
    <3>2. ReadyInv' /\ DrainInv' /\ QueuedIsStored'
      BY <2>2 DEF vars, socketVars, queueVars, callVars, IInv, ReadyInv, DrainInv, DrainedOnce,
                  QueuedIsStored, Queued
    <3>3. ASSUME NEW c \in Commands
          PROVE  CommandInv(c)'
      BY <2>2 DEF vars, socketVars, queueVars, callVars, IInv, CommandInv, Uncalled, InFlight,
                  OnItsWay, OneCopyAt, CopyAt, Queued
    <3> QED
      BY <3>1, <3>2, <3>3 DEF IInv
  <2> QED
    BY <2>1, <2>2
<1> QED
  BY <1>1, Initial, PTL DEF Spec

\* Every variable stays in its range; a claimed row is marked sent, and no
\* instance owes the projector more Readies than the station opened
\* connections.
THEOREM TypeCorrect == Spec => []TypeOK
  BY Invariance, Strength, PTL

\* However many drains run and however often they fail: a command is drained
\* once, and once more for each publish that failed.
THEOREM OneDrain == Spec => []DrainedOnce
  BY Invariance, Strength, PTL

\* A caller told "queued" finds its command in the queue, or about to be,
\* until something fails.
THEOREM QueuedStored == Spec => []QueuedIsStored
  BY Invariance, Strength, PTL

\* A command published while the registry names the instance the station uses
\* reaches the station over that instance, exactly once.
THEOREM SteadyDelivery == Spec => []SteadyStationGetsIt
  BY Invariance, Strength, PTL
(***************************************************************************)
(* Commands that are never to be queued.                                   *)
(***************************************************************************)

\* The instances that have the command in front of them.
Before(c) == {i \in Instances : CopyAt(i, c)}

\* Such a command runs at most once for each instance: an instance that no
\* longer has it in front of it has used up its chance.
NoQueueInv(c) ==
    /\ ~Queued(c) /\ drained[c] = 0
    /\ \A i \in Instances : OneCopyAt(i, c)
    /\ ran[c] + Cardinality(Before(c)) <= Cardinality(Instances)

\* The chances of some instances are a number, and at most one for each.
LEMMA BeforeFacts ==
    ASSUME IsFiniteSet(Instances), NEW c \in Commands
    PROVE  /\ Cardinality(Instances) \in Nat
           /\ Cardinality(Before(c)) \in Nat /\ Cardinality(Before(c)) <= Cardinality(Instances)
           /\ \A i \in Before(c) : Cardinality(Before(c) \ {i}) = Cardinality(Before(c)) - 1
           /\ Cardinality(Before(c)') \in Nat /\ Cardinality(Before(c)') <= Cardinality(Instances)
<1>1. Before(c) \in SUBSET Instances /\ Before(c)' \in SUBSET Instances
  BY DEF Before
<1>2. IsFiniteSet(Before(c)) /\ IsFiniteSet(Before(c)')
  BY <1>1, FS_Subset
<1> QED
  BY <1>1, <1>2, FS_Subset, FS_CardinalityType, FS_RemoveElement

LEMMA NoQueueStep ==
    ASSUME IsFiniteSet(Instances), IInv, Next,
           NEW c \in noQueue, NoQueueInv(c)
    PROVE  NoQueueInv(c)'
<1>0. /\ SocketRanges /\ CommandRanges /\ c \in Commands
      /\ ran[c] \in Nat
  BY DEF IInv, CommandRanges
<1> USE <1>0
<1>1. CASE Quiet(c)
  <2>1. Before(c)' = Before(c)
    BY <1>1 DEF Quiet, SameInbox, SameOps, Before, CopyAt
  <2>2. \A i \in Instances : OneCopyAt(i, c)'
    BY <1>1 DEF Quiet, SameInbox, SameOps, NoQueueInv, OneCopyAt
  <2>3. (~Queued(c))' /\ drained'[c] = drained[c] /\ ran'[c] = ran[c]
    BY <1>1 DEF Quiet, NoQueueInv
  <2> QED
    BY <2>1, <2>2, <2>3 DEF NoQueueInv
<1>2. CASE Call(c)
  <2>1. ~InFlight(c) /\ ~Queued(c) /\ ran[c] = 0 /\ drained[c] = 0
    BY <1>2 DEF Call, IInv, CommandInv, Uncalled, NoQueueInv
  <2>2. (~Queued(c))' /\ ran'[c] = 0 /\ drained'[c] = 0 /\ ops' = ops
    BY <1>2, <2>1 DEF Call, Queued, queueVars, socketVars
  <2>3. ASSUME NEW i \in Instances
        PROVE  OneCopyAt(i, c)'
    <3>1. inbox[i] \in Seq(Commands) /\ inbox'[i] \in {inbox[i], Append(inbox[i], c)}
      BY <1>2 DEF Call, Publishes, CommandRanges
    <3>2. c \notin ToSet(inbox[i]) /\ Lookup(c) \notin ToSet(ops'[i])
      BY <2>1, <2>2 DEF InFlight
    <3>3. OnceIn(inbox[i], c) /\ OnceIn(ops'[i], Lookup(c))
      BY <2>2 DEF NoQueueInv, OneCopyAt
    <3>4. OnceIn(inbox'[i], c)
      BY <3>1, <3>2, <3>3, OnceInAppend
    <3> QED
      BY <3>2, <3>3, <3>4 DEF OneCopyAt
  <2> QED
    BY <2>2, <2>3, BeforeFacts DEF NoQueueInv
<1>3. ASSUME NEW i \in Instances, Receive(i), Head(inbox[i]) = c
      PROVE  NoQueueInv(c)'
  <2>1. /\ inbox[i] \in Seq(Commands) /\ inbox[i] # <<>> /\ ops[i] \in Seq(RedisOp)
        /\ inbox'[i] = Tail(inbox[i]) /\ ops'[i] = Append(ops[i], Lookup(c))
        /\ \A j \in Instances \ {i} : inbox'[j] = inbox[j] /\ ops'[j] = ops[j]
    BY <1>3 DEF Receive, Issue, CommandRanges, SocketRanges
  <2>2. c \in ToSet(inbox[i]) /\ OneCopyAt(i, c)
    BY <2>1, <1>3, TailFacts DEF NoQueueInv
  <2>3. Lookup(c) \in ToSet(ops'[i]) /\ OnceIn(ops'[i], Lookup(c))
    BY <2>1, <2>2, OpFacts, AppendFacts, OnceInAppend DEF OneCopyAt
  <2>4. c \notin ToSet(inbox'[i]) /\ OnceIn(inbox'[i], c)
    BY <2>1, <2>2, <1>3, OnceInTail DEF OneCopyAt
  <2>5. \A j \in Instances : OneCopyAt(j, c)'
    BY <2>1, <2>3, <2>4 DEF NoQueueInv, OneCopyAt
  <2>6. Before(c)' = Before(c)
    BY <2>1, <2>2, <2>3 DEF Before, CopyAt
  <2>7. (~Queued(c))' /\ drained'[c] = 0 /\ ran'[c] = ran[c]
    BY <1>3 DEF Receive, Queued, queueVars, NoQueueInv
  <2> QED
    BY <2>5, <2>6, <2>7 DEF NoQueueInv
<1>4. ASSUME NEW i \in Instances, LookupAnswered(i) \/ LookupFailed(i), Head(ops[i]) = Lookup(c)
      PROVE  NoQueueInv(c)'
  <2>1. /\ ops[i] \in Seq(RedisOp) /\ ops[i] # <<>> /\ ops'[i] = Tail(ops[i])
        /\ \A j \in Instances \ {i} : ops'[j] = ops[j]
        /\ inbox' = inbox /\ row' = row /\ drained' = drained
        /\ Head(ops[i]).for = c
    BY <1>4 DEF LookupAnswered, LookupFailed, SocketRanges, Lookup, Op
  <2>2. Lookup(c) \in ToSet(ops[i]) /\ OneCopyAt(i, c)
    BY <2>1, <1>4, TailFacts DEF NoQueueInv
  <2>3. Lookup(c) \notin ToSet(ops'[i]) /\ OnceIn(ops'[i], Lookup(c))
    BY <2>1, <2>2, <1>4, OnceInTail DEF OneCopyAt
  <2>4. \A j \in Instances : OneCopyAt(j, c)'
    BY <2>1, <2>2, <2>3 DEF NoQueueInv, OneCopyAt
  <2>5. Before(c)' = Before(c) \ {i} /\ i \in Before(c)
    BY <2>1, <2>2, <2>3 DEF Before, CopyAt, OneCopyAt
  <2>6. /\ UNCHANGED queueDue
        /\ ran'[c] \in {ran[c], ran[c] + 1}
    <3>1. UNCHANGED <<queueDue, ran>> \/ Dispatch(i, c)
      BY <1>4, <2>1 DEF LookupAnswered, LookupFailed, Route, Skip
    <3>2. NotConnected(i, c) => UNCHANGED <<queueDue, ran>>
      BY DEF NotConnected
    <3>3. SendToStation(i, c) => UNCHANGED queueDue /\ ran'[c] \in {ran[c], ran[c] + 1}
      BY DEF SendToStation, CommandRanges
    <3> QED
      BY <3>1, <3>2, <3>3 DEF Dispatch, SendToDeadSocket
  <2>7. (~Queued(c))' /\ drained'[c] = 0
    BY <2>1, <2>6 DEF Queued, NoQueueInv
  <2>8. ran'[c] + Cardinality(Before(c)') <= Cardinality(Instances)
    <3>1. Cardinality(Before(c)') = Cardinality(Before(c)) - 1
      BY <2>5, BeforeFacts
    <3>2. ran[c] + Cardinality(Before(c)) <= Cardinality(Instances)
      BY DEF NoQueueInv
    <3>3. Cardinality(Before(c)) \in Nat /\ Cardinality(Instances) \in Nat
      BY BeforeFacts
    <3> QED
      BY <2>6, <3>1, <3>2, <3>3
  <2> QED
    BY <2>4, <2>7, <2>8 DEF NoQueueInv
<1>5. ASSUME NEW i \in Instances, InstanceCrashes(i)
      PROVE  NoQueueInv(c)'
  <2>1. /\ inbox'[i] = <<>> /\ ops'[i] = <<>> /\ queueDue'[i] = {}
        /\ \A j \in Instances \ {i} :
              inbox'[j] = inbox[j] /\ ops'[j] = ops[j] /\ queueDue'[j] = queueDue[j]
        /\ UNCHANGED <<row, ran, drained>>
    BY <1>5 DEF InstanceCrashes, Crash, SocketRanges, CommandRanges
  <2>2. \A x : x \notin ToSet(<<>>) /\ OnceIn(<<>>, x)
    BY DEF ToSet, OnceIn
  <2>3. \A j \in Instances : OneCopyAt(j, c)'
    BY <2>1, <2>2 DEF NoQueueInv, OneCopyAt
  <2>4. Before(c)' = Before(c) \ {i}
    BY <2>1, <2>2 DEF Before, CopyAt
  <2>5. (~Queued(c))'
    BY <2>1 DEF Queued, NoQueueInv
  <2>6. Cardinality(Before(c)') <= Cardinality(Before(c))
    BY <2>4, BeforeFacts
  <2>7. ran[c] + Cardinality(Before(c)') <= Cardinality(Instances)
    BY <2>6, BeforeFacts DEF NoQueueInv
  <2> QED
    BY <2>1, <2>3, <2>5, <2>7 DEF NoQueueInv
<1> QED
  BY <1>1, <1>2, <1>3, <1>4, <1>5, StepKinds DEF NoQueueInv

\* A partner's command, or a credential change, is never stored for later, and
\* no instance runs it twice.
THEOREM NoQueue ==
    ASSUME IsFiniteSet(Instances)
    PROVE  Spec => []NoQueueNeverWaits
<1>1. Init => \A c \in noQueue : NoQueueInv(c)
  <2> SUFFICES ASSUME Init, NEW c \in noQueue
               PROVE  NoQueueInv(c)
    OBVIOUS
  <2>1. \A x : x \notin ToSet(<<>>) /\ OnceIn(<<>>, x)
    BY DEF ToSet, OnceIn
  <2>2. c \in Commands /\ \A i \in Instances : OneCopyAt(i, c) /\ ~CopyAt(i, c)
    BY <2>1 DEF Init, SocketInit, OneCopyAt, CopyAt
  <2>3. Cardinality(Before(c)) <= Cardinality(Instances) /\ Cardinality(Before(c)) \in Nat
    BY <2>2, BeforeFacts
  <2> QED
    BY <2>2, <2>3 DEF Init, NoQueueInv, Queued
<1>2. IInv /\ (\A c \in noQueue : NoQueueInv(c)) /\ [Next]_vars => (\A c \in noQueue : NoQueueInv(c))'
  <2> SUFFICES ASSUME IInv, \A c \in noQueue : NoQueueInv(c), [Next]_vars
               PROVE  (\A c \in noQueue : NoQueueInv(c))'
    OBVIOUS
  <2>1. CASE Next
    <3>1. noQueue' = noQueue
      BY <2>1 DEF Next
    <3> QED
      BY <2>1, <3>1, NoQueueStep
  <2>2. CASE UNCHANGED vars
    BY <2>2 DEF vars, socketVars, queueVars, callVars, NoQueueInv, Before, CopyAt, OneCopyAt, Queued
  <2> QED
    BY <2>1, <2>2
<1>3. IInv /\ (\A c \in noQueue : NoQueueInv(c)) => NoQueueNeverWaits
  <2> SUFFICES ASSUME IInv, NEW c \in noQueue, NoQueueInv(c)
               PROVE  ~Queued(c) /\ drained[c] = 0 /\ ran[c] <= Cardinality(Instances)
    BY DEF NoQueueNeverWaits
  <2>1. c \in Commands /\ ran[c] \in Nat
    BY DEF IInv, CommandRanges
  <2> QED
    BY <2>1, BeforeFacts DEF NoQueueInv
<1> QED
  BY <1>1, <1>2, <1>3, Invariance, PTL DEF Spec

(***************************************************************************)
(* The sockets under both components that share them.                      *)
(***************************************************************************)

\* The variables and the bound StationPresence adds to the same sockets.
CONSTANT MaxLane
VARIABLES archiving, lane, leaving, online, recent, sweep

Presence == INSTANCE StationPresence

LEMMA LiveStep ==
    ASSUME LiveIsHeld, Presence!Next
    PROVE  LiveIsHeld'
<1> USE DEF LiveIsHeld
<1>1. CASE UNCHANGED <<live, held>>
  BY <1>1
<1>2. CASE live' = Nobody
  BY <1>2
<1>3. ASSUME NEW i \in Instances, Presence!StationConnects(i)
      PROVE  LiveIsHeld'
  BY <1>3 DEF Presence!StationConnects, Presence!Connect
<1>4. ASSUME NEW i \in Instances, Presence!SocketCloses(i)
      PROVE  LiveIsHeld'
  BY <1>4 DEF Presence!SocketCloses, Presence!Close
<1>5. ASSUME NEW i \in Instances, Presence!InstanceCrashes(i)
      PROVE  LiveIsHeld'
  BY <1>5 DEF Presence!InstanceCrashes, Presence!Crash
<1>6. ASSUME NEW i \in Instances,
             \/ Presence!CloseReplaced(i) \/ Presence!OutlivingCloses(i) \/ Presence!Refresh(i)
             \/ Presence!WriteEnds(i, Presence!ApplyWrite(i))
             \/ Presence!WriteEnds(i, Presence!LoseWrite(i))
      PROVE  LiveIsHeld'
  BY <1>1, <1>6
  DEF Presence!CloseReplaced, Presence!OutlivingCloses, Presence!CloseOutliving, Presence!Refresh,
      Presence!WriteEnds, Presence!ApplyWrite, Presence!LoseWrite
<1>7. ASSUME NEW i \in Instances, NEW k \in Presence!Archived, Presence!Archive(i, k)
      PROVE  LiveIsHeld'
  BY <1>1, <1>7 DEF Presence!Archive, Presence!socketVars
<1>8. ASSUME NEW i \in Instances, NEW h \in BOOLEAN, Presence!Message(i, h)
      PROVE  LiveIsHeld'
  BY <1>1, <1>8 DEF Presence!Message, Presence!socketVars
<1>9. ASSUME NEW i \in Instances,
             \/ Presence!ProjectMessageLog(i) \/ Presence!ProjectConnected(i)
             \/ Presence!ProjectHeartbeat(i) \/ Presence!ProjectionFails(i)
             \/ Presence!DisconnectedAsks(i) \/ Presence!DisconnectedAnswered(i)
             \/ Presence!DisconnectedUnanswered(i) \/ Presence!DisconnectedMarks(i)
      PROVE  LiveIsHeld'
  BY <1>1, <1>9
  DEF Presence!ProjectMessageLog, Presence!ProjectConnected, Presence!ProjectHeartbeat,
      Presence!ProjectionFails, Presence!DisconnectedAsks, Presence!DisconnectedAnswered,
      Presence!DisconnectedUnanswered, Presence!DisconnectedMarks, Presence!socketVars
<1>10. CASE Presence!Vanish \/ Presence!Expire
  BY <1>1, <1>2, <1>10 DEF Presence!Vanish, Presence!Expire
<1>11. CASE Presence!Age \/ Presence!SweepFinds \/ Presence!SweepMarks
  BY <1>1, <1>11 DEF Presence!Age, Presence!SweepFinds, Presence!SweepMarks, Presence!socketVars
<1> QED
  BY <1>3, <1>4, <1>5, <1>6, <1>7, <1>8, <1>9, <1>10, <1>11 DEF Presence!Next

\* Whether the sockets are seen by the presence of the station or by its
\* commands: the late close of a replaced socket, a crash, or the close of a
\* socket the station left never takes away the socket the station uses.
THEOREM LiveHeld ==
    /\ Spec => []LiveIsHeld
    /\ Presence!Spec => []LiveIsHeld
<1>1. Spec => []LiveIsHeld
  BY Invariance, Strength, PTL
<1>2. Presence!Init => LiveIsHeld
  BY DEF Presence!Init, Presence!SocketInit, LiveIsHeld
<1>3. LiveIsHeld /\ [Presence!Next]_Presence!vars => LiveIsHeld'
  BY LiveStep DEF Presence!vars, Presence!socketVars, LiveIsHeld
<1>4. Presence!Spec => []LiveIsHeld
  BY <1>2, <1>3, PTL DEF Presence!Spec
<1> QED
  BY <1>1, <1>4

(***************************************************************************)
(* The projection lanes of the presence.                                   *)
(***************************************************************************)

\* What travels on the Redis connection of an instance: writes nobody waits
\* for, and the two commands a projection waits for.
PresenceOp ==
    [kind : RegistryWrites, for : {Nobody}] \union {Presence!Lookup, Presence!HeartbeatRegister}

PresenceRanges ==
    /\ up \subseteq Instances /\ held \subseteq up /\ replaced \in [Instances -> Nat]
    /\ live \in Instances \union {Nobody} /\ owner \in Instances \union {Nobody}
    /\ ops \in [Instances -> Seq(PresenceOp)]
    /\ spent \in [connects : 0 .. MaxConnects, faults : 0 .. MaxFaults, outlived : Nat]
    /\ archiving \in [Instances -> [Presence!Archived -> Nat]]
    /\ lane \in [Instances -> Seq(Presence!Events)]
    /\ leaving \in [Instances -> BOOLEAN]
    /\ {online, recent, sweep} \subseteq BOOLEAN

\* A projection that waits for Redis is the one at the head of its lane, and
\* waits for one command.
Waits(i, op, k) == OnceIn(ops[i], op) /\ (op \in ToSet(ops[i]) => Presence!AtHead(i, k))

LaneAt(i) ==
    /\ Waits(i, Presence!Lookup, "Disconnected")
    /\ Waits(i, Presence!HeartbeatRegister, "Heartbeat")
    /\ leaving[i] => Presence!AtHead(i, "Disconnected") /\ Presence!Lookup \notin ToSet(ops[i])

\* Each event being archived has a connection of its own behind it, and so has
\* each socket that has not closed, the current one and the replaced ones.
ArchivesAt(i) ==
    /\ archiving[i]["Connected"] <= spent.connects
    /\ archiving[i]["Disconnected"] + (IF i \in held THEN 1 ELSE 0) + replaced[i] <= spent.connects
    /\ replaced[i] > 0 => i \in up

PresenceInv ==
    PresenceRanges /\ \A i \in Instances : LaneAt(i) /\ ArchivesAt(i)

LEMMA PresenceOps ==
    /\ Presence!Lookup \in PresenceOp /\ Presence!HeartbeatRegister \in PresenceOp
    /\ Presence!Lookup # Presence!HeartbeatRegister
    /\ Presence!Lookup.kind \notin RegistryWrites
    /\ Presence!HeartbeatRegister.kind \in RegistryWrites
    /\ \A k \in RegistryWrites : /\ Presence!Write(k) \in PresenceOp
                                 /\ Presence!Write(k) \notin {Presence!Lookup, Presence!HeartbeatRegister}
BY WaiterAssumption
DEF PresenceOp, Presence!Lookup, Presence!HeartbeatRegister, Presence!Op, Presence!Write, RegistryWrites

\* What the other instances keep.
LaneKept(j) == ops'[j] = ops[j] /\ lane'[j] = lane[j] /\ leaving'[j] = leaving[j]

LEMMA KeptLane ==
    ASSUME NEW j \in Instances, LaneAt(j), LaneKept(j)
    PROVE  LaneAt(j)'
BY DEF LaneAt, LaneKept, Waits, Presence!AtHead, OnceIn

\* One lane moves: the others are kept, and what it holds is told by its parts.
LEMMA OneLane ==
    ASSUME PresenceRanges, \A j \in Instances : LaneAt(j),
           NEW i \in Instances,
           NEW s \in Seq(PresenceOp), NEW q \in Seq(Presence!Events), NEW b \in BOOLEAN,
           ops' = [ops EXCEPT ![i] = s], lane' = [lane EXCEPT ![i] = q],
           leaving' = [leaving EXCEPT ![i] = b],
           OnceIn(s, Presence!Lookup), OnceIn(s, Presence!HeartbeatRegister),
           Presence!Lookup \in ToSet(s) => q # <<>> /\ Head(q) = "Disconnected" /\ ~b,
           Presence!HeartbeatRegister \in ToSet(s) => q # <<>> /\ Head(q) = "Heartbeat",
           b => q # <<>> /\ Head(q) = "Disconnected"
    PROVE  /\ \A j \in Instances : LaneAt(j)'
           /\ ops' \in [Instances -> Seq(PresenceOp)]
           /\ lane' \in [Instances -> Seq(Presence!Events)]
           /\ leaving' \in [Instances -> BOOLEAN]
<1>1. /\ ops' \in [Instances -> Seq(PresenceOp)]
      /\ lane' \in [Instances -> Seq(Presence!Events)]
      /\ leaving' \in [Instances -> BOOLEAN]
      /\ ops'[i] = s /\ lane'[i] = q /\ leaving'[i] = b
      /\ \A j \in Instances \ {i} : LaneKept(j)
  BY DEF PresenceRanges, LaneKept
<1>2. ASSUME NEW j \in Instances
      PROVE  LaneAt(j)'
  <2>1. CASE j # i
    BY <1>1, <2>1, KeptLane
  <2>2. CASE j = i
    BY <1>1, <2>2 DEF LaneAt, Waits, Presence!AtHead, OnceIn
  <2> QED
    BY <2>1, <2>2
<1> QED
  BY <1>1, <1>2

\* The parts of one lane before it moves.
LEMMA LaneParts ==
    ASSUME PresenceInv, NEW i \in Instances
    PROVE  /\ ops[i] \in Seq(PresenceOp) /\ lane[i] \in Seq(Presence!Events) /\ leaving[i] \in BOOLEAN
           /\ ops = [ops EXCEPT ![i] = ops[i]] /\ lane = [lane EXCEPT ![i] = lane[i]]
           /\ leaving = [leaving EXCEPT ![i] = leaving[i]]
           /\ OnceIn(ops[i], Presence!Lookup) /\ OnceIn(ops[i], Presence!HeartbeatRegister)
           /\ Presence!Lookup \in ToSet(ops[i]) => /\ lane[i] # <<>> /\ Head(lane[i]) = "Disconnected"
                                                   /\ ~leaving[i]
           /\ Presence!HeartbeatRegister \in ToSet(ops[i]) => lane[i] # <<>> /\ Head(lane[i]) = "Heartbeat"
           /\ leaving[i] => lane[i] # <<>> /\ Head(lane[i]) = "Disconnected"
           /\ ArchivesAt(i)
BY DEF PresenceInv, PresenceRanges, LaneAt, Waits, Presence!AtHead

\* A write nobody waits for.
LEMMA PresenceIssues ==
    ASSUME PresenceInv, NEW i \in Instances, NEW k \in RegistryWrites,
           Presence!Issue(i, Presence!Write(k)), UNCHANGED <<lane, leaving>>
    PROVE  /\ \A j \in Instances : LaneAt(j)'
           /\ ops' \in [Instances -> Seq(PresenceOp)]
<1> DEFINE op == Presence!Write(k)
           s == Append(ops[i], op)
<1>1. op \in PresenceOp /\ op # Presence!Lookup /\ op # Presence!HeartbeatRegister
  BY PresenceOps
<1> HIDE DEF op
<1>2. ops[i] \in Seq(PresenceOp) /\ OnceIn(ops[i], Presence!Lookup) /\ OnceIn(ops[i], Presence!HeartbeatRegister)
  BY LaneParts
<1>3. s \in Seq(PresenceOp) /\ ToSet(s) = ToSet(ops[i]) \union {op}
  BY <1>1, <1>2, AppendFacts
<1>4. OnceIn(s, Presence!Lookup) /\ OnceIn(s, Presence!HeartbeatRegister)
  BY <1>1, <1>2, OnceInAppend
<1>5. ops' = [ops EXCEPT ![i] = s]
  BY DEF Presence!Issue, op
<1> HIDE DEF s
<1> QED
  BY <1>1, <1>3, <1>4, <1>5, LaneParts, OneLane DEF PresenceInv

\* A lane that keeps its head.
LEMMA LaneGrows ==
    ASSUME PresenceInv, NEW i \in Instances, NEW q \in Seq(Presence!Events),
           lane' = [lane EXCEPT ![i] = q], UNCHANGED <<ops, leaving>>,
           lane[i] # <<>> => q # <<>> /\ Head(q) = Head(lane[i])
    PROVE  /\ \A j \in Instances : LaneAt(j)'
           /\ lane' \in [Instances -> Seq(Presence!Events)]
<1>1. ops' = [ops EXCEPT ![i] = ops[i]] /\ leaving' = [leaving EXCEPT ![i] = leaving[i]]
  BY LaneParts
<1> QED
  BY <1>1, LaneParts, OneLane DEF PresenceInv

\* A lane whose head nobody waits for moves on.
LEMMA LaneAdvances ==
    ASSUME PresenceInv, NEW i \in Instances, Presence!Done(i), lane[i] # <<>>,
           Presence!Lookup \notin ToSet(ops[i]), Presence!HeartbeatRegister \notin ToSet(ops[i]),
           ops' = ops, leaving' = [leaving EXCEPT ![i] = FALSE]
    PROVE  /\ \A j \in Instances : LaneAt(j)'
           /\ lane' \in [Instances -> Seq(Presence!Events)] /\ leaving' \in [Instances -> BOOLEAN]
<1>1. Tail(lane[i]) \in Seq(Presence!Events)
  BY LaneParts, TailFacts
<1>2. ops' = [ops EXCEPT ![i] = ops[i]] /\ lane' = [lane EXCEPT ![i] = Tail(lane[i])]
  BY LaneParts DEF Presence!Done
<1> QED
  BY <1>1, <1>2, LaneParts, OneLane DEF PresenceInv

\* A projection asks Redis and waits.
LEMMA LaneAsks ==
    ASSUME PresenceInv, NEW i \in Instances, NEW op \in {Presence!Lookup, Presence!HeartbeatRegister},
           Presence!Issue(i, op), op \notin ToSet(ops[i]), UNCHANGED <<lane, leaving>>,
           Presence!AtHead(i, IF op = Presence!Lookup THEN "Disconnected" ELSE "Heartbeat"),
           ~leaving[i]
    PROVE  /\ \A j \in Instances : LaneAt(j)'
           /\ ops' \in [Instances -> Seq(PresenceOp)]
<1> DEFINE s == Append(ops[i], op)
<1>1. op \in PresenceOp /\ Presence!Lookup # Presence!HeartbeatRegister
  BY PresenceOps
<1>2. ops[i] \in Seq(PresenceOp) /\ OnceIn(ops[i], Presence!Lookup) /\ OnceIn(ops[i], Presence!HeartbeatRegister)
  BY LaneParts
<1>3. s \in Seq(PresenceOp) /\ ToSet(s) = ToSet(ops[i]) \union {op}
  BY <1>1, <1>2, AppendFacts
<1>4. OnceIn(s, Presence!Lookup) /\ OnceIn(s, Presence!HeartbeatRegister)
  BY <1>1, <1>2, OnceInAppend
<1>5. ops' = [ops EXCEPT ![i] = s]
  BY DEF Presence!Issue
<1> HIDE DEF s
<1>6. lane' = [lane EXCEPT ![i] = lane[i]] /\ leaving' = [leaving EXCEPT ![i] = leaving[i]]
  BY LaneParts
<1>7. lane[i] # <<>> /\ Head(lane[i]) = IF op = Presence!Lookup THEN "Disconnected" ELSE "Heartbeat"
  BY DEF Presence!AtHead
<1>8. Presence!Lookup \in ToSet(s) => op = Presence!Lookup
  BY <1>3, <1>7, LaneParts
<1>9. Presence!HeartbeatRegister \in ToSet(s) => op = Presence!HeartbeatRegister
  BY <1>3, <1>7, LaneParts
<1>10. lane[i] \in Seq(Presence!Events) /\ leaving[i] \in BOOLEAN
  BY LaneParts
<1>11. /\ Presence!Lookup \in ToSet(s) => lane[i] # <<>> /\ Head(lane[i]) = "Disconnected" /\ ~leaving[i]
       /\ Presence!HeartbeatRegister \in ToSet(s) => lane[i] # <<>> /\ Head(lane[i]) = "Heartbeat"
       /\ leaving[i] => lane[i] # <<>> /\ Head(lane[i]) = "Disconnected"
  BY <1>1, <1>7, <1>8, <1>9
<1>12. PresenceRanges /\ \A j \in Instances : LaneAt(j)
  BY DEF PresenceInv
<1> QED
  BY <1>3, <1>4, <1>5, <1>6, <1>10, <1>11, <1>12, OneLane

\* Redis answers the head of the connection: the projection that waited for it
\* ends, or goes on.
LEMMA LaneAnswered ==
    ASSUME PresenceInv, NEW i \in Instances, ops[i] # <<>>, ops' = [ops EXCEPT ![i] = Tail(@)],
           \/ /\ Head(ops[i]) \notin {Presence!Lookup, Presence!HeartbeatRegister}
              /\ UNCHANGED <<lane, leaving>>
           \/ /\ Head(ops[i]) \in {Presence!Lookup, Presence!HeartbeatRegister}
              /\ Presence!Done(i) /\ leaving' = leaving
           \/ /\ Head(ops[i]) = Presence!Lookup
              /\ lane' = lane /\ leaving' = [leaving EXCEPT ![i] = TRUE]
    PROVE  /\ \A j \in Instances : LaneAt(j)'
           /\ ops' \in [Instances -> Seq(PresenceOp)]
           /\ lane' \in [Instances -> Seq(Presence!Events)] /\ leaving' \in [Instances -> BOOLEAN]
<1> DEFINE s == Tail(ops[i])
           h == Head(ops[i])
<1>1. ops[i] \in Seq(PresenceOp) /\ OnceIn(ops[i], Presence!Lookup) /\ OnceIn(ops[i], Presence!HeartbeatRegister)
      /\ Presence!Lookup # Presence!HeartbeatRegister
  BY LaneParts, PresenceOps
<1>2. s \in Seq(PresenceOp) /\ ToSet(ops[i]) = ToSet(s) \union {h}
  BY <1>1, TailFacts
<1>3. /\ OnceIn(s, Presence!Lookup) /\ OnceIn(s, Presence!HeartbeatRegister)
      /\ h = Presence!Lookup => Presence!Lookup \notin ToSet(s)
      /\ h = Presence!HeartbeatRegister => Presence!HeartbeatRegister \notin ToSet(s)
  BY <1>1, OnceInTail
<1>4. ops' = [ops EXCEPT ![i] = s]
  OBVIOUS
<1> HIDE DEF s, h
<1>5. CASE h \notin {Presence!Lookup, Presence!HeartbeatRegister} /\ UNCHANGED <<lane, leaving>>
  <2>1. lane' = [lane EXCEPT ![i] = lane[i]] /\ leaving' = [leaving EXCEPT ![i] = leaving[i]]
    BY <1>5, LaneParts
  <2> QED
    BY <1>2, <1>3, <1>4, <2>1, LaneParts, OneLane DEF PresenceInv
<1>6. CASE h \in {Presence!Lookup, Presence!HeartbeatRegister} /\ Presence!Done(i) /\ leaving' = leaving
  <2>1. lane[i] # <<>> /\ ~leaving[i]
        /\ Presence!Lookup \notin ToSet(s) /\ Presence!HeartbeatRegister \notin ToSet(s)
    BY <1>2, <1>3, <1>6, LaneParts
  <2>2. Tail(lane[i]) \in Seq(Presence!Events)
    BY <2>1, LaneParts, TailFacts
  <2>3. lane' = [lane EXCEPT ![i] = Tail(lane[i])] /\ leaving' = [leaving EXCEPT ![i] = leaving[i]]
    BY <1>6, LaneParts DEF Presence!Done
  <2> QED
    BY <1>2, <1>3, <1>4, <2>1, <2>2, <2>3, LaneParts, OneLane DEF PresenceInv
<1>7. CASE h = Presence!Lookup /\ lane' = lane /\ leaving' = [leaving EXCEPT ![i] = TRUE]
  <2>1. lane[i] # <<>> /\ Head(lane[i]) = "Disconnected"
        /\ Presence!Lookup \notin ToSet(s) /\ Presence!HeartbeatRegister \notin ToSet(s)
    BY <1>2, <1>3, <1>7, LaneParts
  <2>2. lane' = [lane EXCEPT ![i] = lane[i]]
    BY <1>7, LaneParts
  <2> QED
    BY <1>2, <1>3, <1>4, <1>7, <2>1, <2>2, LaneParts, OneLane DEF PresenceInv
<1> QED
  BY <1>5, <1>6, <1>7 DEF h

\* What the lanes are, taken together.
Lanes ==
    /\ ops \in [Instances -> Seq(PresenceOp)]
    /\ lane \in [Instances -> Seq(Presence!Events)]
    /\ leaving \in [Instances -> BOOLEAN]
    /\ \A i \in Instances : LaneAt(i)

LEMMA LanesKept ==
    ASSUME PresenceInv, UNCHANGED <<ops, lane, leaving>>
    PROVE  Lanes'
BY KeptLane DEF PresenceInv, PresenceRanges, Lanes, LaneKept

\* An instance dies with its connection and its lane.
LEMMA LaneDies ==
    ASSUME PresenceInv, NEW i \in Instances, Presence!InstanceCrashes(i)
    PROVE  Lanes'
<1> DEFINE none == <<>>
<1>1. none \in Seq(PresenceOp) /\ none \in Seq(Presence!Events) /\ ToSet(none) = {}
  BY DEF ToSet
<1>2. OnceIn(none, Presence!Lookup) /\ OnceIn(none, Presence!HeartbeatRegister)
  BY DEF OnceIn
<1>3. /\ ops' = [ops EXCEPT ![i] = none] /\ lane' = [lane EXCEPT ![i] = none]
      /\ leaving' = [leaving EXCEPT ![i] = FALSE]
  BY DEF Presence!InstanceCrashes, Presence!Crash
<1>4. PresenceRanges /\ \A j \in Instances : LaneAt(j)
  BY DEF PresenceInv
<1> HIDE DEF none
<1>5. /\ \A j \in Instances : LaneAt(j)'
      /\ ops' \in [Instances -> Seq(PresenceOp)]
      /\ lane' \in [Instances -> Seq(Presence!Events)]
      /\ leaving' \in [Instances -> BOOLEAN]
  BY <1>1, <1>2, <1>3, <1>4, OneLane
<1> QED
  BY <1>5 DEF Lanes

\* The socket actions that write to the registry.
LEMMA LanesWrite ==
    ASSUME PresenceInv, NEW i \in Instances,
           \/ Presence!StationConnects(i) \/ Presence!SocketCloses(i) \/ Presence!OutlivingCloses(i)
           \/ Presence!Refresh(i) /\ UNCHANGED Presence!presenceVars
    PROVE  Lanes'
<1>1. UNCHANGED <<lane, leaving>> /\ \E k \in RegistryWrites : Presence!Issue(i, Presence!Write(k))
  BY DEF Presence!StationConnects, Presence!SocketCloses, Presence!OutlivingCloses, Presence!Refresh,
         Presence!presenceVars, Presence!Connect, Presence!Close, Presence!CloseOutliving, RegistryWrites, Presence!RegistryWrites
<1>2. PICK k \in RegistryWrites : Presence!Issue(i, Presence!Write(k))
  BY <1>1
<1> QED
  BY <1>1, <1>2, PresenceIssues DEF Lanes, PresenceInv, PresenceRanges

\* Events that join a lane join it behind its head.
LEMMA LanesGrow ==
    ASSUME PresenceInv, NEW i \in Instances,
           \/ \E k \in Presence!Archived : Presence!Archive(i, k)
           \/ \E h \in BOOLEAN : Presence!Message(i, h)
    PROVE  Lanes'
<1>1. PICK s \in Seq(Presence!Events) :
         lane' = [lane EXCEPT ![i] = @ \o s] /\ UNCHANGED <<ops, leaving>>
  <2>1. ASSUME NEW k \in Presence!Archived, Presence!Archive(i, k)
        PROVE  lane' = [lane EXCEPT ![i] = @ \o <<k>>] /\ UNCHANGED <<ops, leaving>>
               /\ <<k>> \in Seq(Presence!Events)
    <3>1. lane[i] \in Seq(Presence!Events) /\ k \in Presence!Events
      BY LaneParts DEF Presence!Events
    <3>2. Append(lane[i], k) = lane[i] \o <<k>>
      BY <3>1
    <3> QED
      BY <2>1, <3>1, <3>2 DEF Presence!Archive, Presence!socketVars
  <2>2. ASSUME NEW h \in BOOLEAN, Presence!Message(i, h)
        PROVE  \E s \in Seq(Presence!Events) :
                  lane' = [lane EXCEPT ![i] = @ \o s] /\ UNCHANGED <<ops, leaving>>
    <3> DEFINE s == IF h THEN <<"MessageLog", "Heartbeat">> ELSE <<"MessageLog">>
    <3>1. s \in Seq(Presence!Events)
      <4>1. <<"MessageLog", "Heartbeat">> \in Seq(Presence!Events) /\ <<"MessageLog">> \in Seq(Presence!Events)
        BY DEF Presence!Events
      <4> QED
        BY <4>1
    <3>2. lane' = [lane EXCEPT ![i] = @ \o s] /\ UNCHANGED <<ops, leaving>>
      BY <2>2 DEF Presence!Message, Presence!socketVars
    <3> QED
      BY <3>1, <3>2
  <2> QED
    BY <2>1, <2>2
<1> DEFINE q == lane[i] \o s
<1>2. lane[i] \in Seq(Presence!Events)
  BY LaneParts
<1>3. q \in Seq(Presence!Events) /\ (lane[i] # <<>> => q # <<>> /\ Head(q) = Head(lane[i]))
  BY <1>2
<1>4. lane' = [lane EXCEPT ![i] = q] /\ UNCHANGED <<ops, leaving>>
  BY <1>1
<1> HIDE DEF q
<1> QED
  BY <1>3, <1>4, LaneGrows DEF Lanes, PresenceInv, PresenceRanges

\* Projections that wait for nothing move their lane on, when they succeed and
\* when they fail, and so does the last step of the Disconnected projection.
LEMMA LanesAdvance ==
    ASSUME PresenceInv, NEW i \in Instances,
           \/ Presence!ProjectMessageLog(i) \/ Presence!ProjectConnected(i)
           \/ Presence!ProjectionFails(i) \/ Presence!DisconnectedMarks(i)
    PROVE  Lanes'
<1>1. lane[i] # <<>> /\ Presence!Done(i) /\ ops' = ops
      /\ (leaving' = leaving \/ leaving' = [leaving EXCEPT ![i] = FALSE])
  BY LaneParts
  DEF Presence!ProjectMessageLog, Presence!ProjectConnected, Presence!ProjectionFails,
      Presence!DisconnectedMarks, Presence!AtHead, Presence!socketVars
<1>2. Presence!Lookup \notin ToSet(ops[i]) /\ Presence!HeartbeatRegister \notin ToSet(ops[i])
  <2>1. CASE Presence!ProjectionFails(i)
    BY <2>1 DEF Presence!ProjectionFails, ToSet, Presence!ToSet
  <2>2. CASE Presence!DisconnectedMarks(i)
    BY <2>2, LaneParts, PresenceOps DEF Presence!DisconnectedMarks, PresenceInv, LaneAt
  <2>3. CASE Presence!ProjectMessageLog(i) \/ Presence!ProjectConnected(i)
    <3>1. Head(lane[i]) \notin {"Disconnected", "Heartbeat"}
      BY <2>3 DEF Presence!ProjectMessageLog, Presence!ProjectConnected, Presence!AtHead
    <3> QED
      BY <3>1, LaneParts
  <2> QED
    BY <2>1, <2>2, <2>3
<1>3. leaving' = [leaving EXCEPT ![i] = FALSE]
  <2>1. CASE leaving' = leaving
    <3>1. ~leaving[i] \/ Presence!DisconnectedMarks(i)
      BY LaneParts
      DEF Presence!ProjectMessageLog, Presence!ProjectConnected, Presence!ProjectionFails,
          Presence!AtHead
    <3> QED
      BY <2>1, <3>1, LaneParts DEF Presence!DisconnectedMarks
  <2> QED
    BY <1>1, <2>1
<1> QED
  BY <1>1, <1>2, <1>3, LaneAdvances DEF Lanes, PresenceInv, PresenceRanges

\* The two projections that ask Redis.
LEMMA LanesAsk ==
    ASSUME PresenceInv, NEW i \in Instances,
           Presence!ProjectHeartbeat(i) \/ Presence!DisconnectedAsks(i)
    PROVE  Lanes'
<1>1. CASE Presence!ProjectHeartbeat(i)
  <2>1. /\ Presence!Issue(i, Presence!HeartbeatRegister) /\ UNCHANGED <<lane, leaving>>
        /\ Presence!HeartbeatRegister \notin ToSet(ops[i]) /\ Presence!AtHead(i, "Heartbeat")
    BY <1>1 DEF Presence!ProjectHeartbeat, ToSet, Presence!ToSet
  <2>2. ~leaving[i]
    BY <2>1, LaneParts DEF Presence!AtHead
  <2> QED
    BY <2>1, <2>2, PresenceOps, LaneAsks DEF Lanes, PresenceInv, PresenceRanges
<1>2. CASE Presence!DisconnectedAsks(i)
  <2>1. /\ Presence!Issue(i, Presence!Lookup) /\ UNCHANGED <<lane, leaving>>
        /\ Presence!Lookup \notin ToSet(ops[i]) /\ Presence!AtHead(i, "Disconnected") /\ ~leaving[i]
    BY <1>2 DEF Presence!DisconnectedAsks, Presence!presenceVars, ToSet, Presence!ToSet
  <2> QED
    BY <2>1, PresenceOps, LaneAsks DEF Lanes, PresenceInv, PresenceRanges
<1> QED
  BY <1>1, <1>2

\* Redis answers: a write applied or lost, a lookup answered or failed.
LEMMA LanesAnswer ==
    ASSUME PresenceInv, NEW i \in Instances,
           \/ Presence!WriteEnds(i, Presence!ApplyWrite(i))
           \/ Presence!WriteEnds(i, Presence!LoseWrite(i))
           \/ Presence!DisconnectedAnswered(i) \/ Presence!DisconnectedUnanswered(i)
    PROVE  Lanes'
<1>1. ops[i] # <<>> /\ ops' = [ops EXCEPT ![i] = Tail(@)]
  BY DEF Presence!WriteEnds, Presence!ApplyWrite, Presence!LoseWrite,
         Presence!DisconnectedAnswered, Presence!DisconnectedUnanswered
<1>2. \/ /\ Head(ops[i]) \notin {Presence!Lookup, Presence!HeartbeatRegister}
         /\ UNCHANGED <<lane, leaving>>
      \/ /\ Head(ops[i]) \in {Presence!Lookup, Presence!HeartbeatRegister}
         /\ Presence!Done(i) /\ leaving' = leaving
      \/ /\ Head(ops[i]) = Presence!Lookup
         /\ lane' = lane /\ leaving' = [leaving EXCEPT ![i] = TRUE]
  <2>1. CASE Presence!WriteEnds(i, Presence!ApplyWrite(i)) \/ Presence!WriteEnds(i, Presence!LoseWrite(i))
    <3>1. Head(ops[i]).kind \in RegistryWrites
      BY <2>1 DEF Presence!WriteEnds, Presence!ApplyWrite, Presence!LoseWrite,
                  RegistryWrites, Presence!RegistryWrites
    <3>2. Head(ops[i]) # Presence!Lookup
      BY <3>1, PresenceOps
    <3> QED
      BY <2>1, <3>2 DEF Presence!WriteEnds
  <2>2. CASE Presence!DisconnectedAnswered(i)
    BY <2>2 DEF Presence!DisconnectedAnswered
  <2>3. CASE Presence!DisconnectedUnanswered(i)
    BY <2>3 DEF Presence!DisconnectedUnanswered
  <2> QED
    BY <2>1, <2>2, <2>3
<1> QED
  BY <1>1, <1>2, LaneAnswered DEF Lanes

LEMMA LanesStep ==
    ASSUME PresenceInv, Presence!Next
    PROVE  Lanes'
<1>1. ASSUME NEW i \in Instances, Presence!CloseReplaced(i) /\ UNCHANGED Presence!presenceVars
      PROVE  Lanes'
  BY <1>1, LanesKept DEF Presence!CloseReplaced, Presence!presenceVars
<1>2. CASE (Presence!Vanish \/ Presence!Expire) /\ UNCHANGED Presence!presenceVars
  BY <1>2, LanesKept DEF Presence!Vanish, Presence!Expire, Presence!presenceVars
<1>3. CASE Presence!Age \/ Presence!SweepFinds \/ Presence!SweepMarks
  BY <1>3, LanesKept DEF Presence!Age, Presence!SweepFinds, Presence!SweepMarks, Presence!socketVars
<1> QED
  BY <1>1, <1>2, <1>3, LaneDies, LanesWrite, LanesGrow, LanesAdvance, LanesAsk, LanesAnswer
  DEF Presence!Next

\* What the rest of the presence is, taken together.
Counts ==
    /\ up \subseteq Instances /\ held \subseteq up /\ replaced \in [Instances -> Nat]
    /\ live \in Instances \union {Nobody} /\ owner \in Instances \union {Nobody}
    /\ spent \in [connects : 0 .. MaxConnects, faults : 0 .. MaxFaults, outlived : Nat]
    /\ archiving \in [Instances -> [Presence!Archived -> Nat]]
    /\ {online, recent, sweep} \subseteq BOOLEAN
    /\ \A i \in Instances : ArchivesAt(i)

LEMMA InvParts == PresenceInv <=> Lanes /\ Counts
BY DEF PresenceInv, PresenceRanges, Lanes, Counts

\* A connection or a fault is spent within its bound.
LEMMA PresenceSpends ==
    ASSUME Counts
    PROVE  /\ spent.connects \in Nat
           /\ /\ Presence!Spend("connects") /\ spent.connects < MaxConnects
              => /\ spent' \in [connects : 0 .. MaxConnects, faults : 0 .. MaxFaults, outlived : Nat]
                 /\ spent'.connects = spent.connects + 1
           /\ /\ Presence!Spend("faults") /\ Presence!MayFail
              => /\ spent' \in [connects : 0 .. MaxConnects, faults : 0 .. MaxFaults, outlived : Nat]
                 /\ spent'.connects = spent.connects
           /\ Presence!Spend("outlived")
              => /\ spent' \in [connects : 0 .. MaxConnects, faults : 0 .. MaxFaults, outlived : Nat]
                 /\ spent'.connects = spent.connects
BY BoundsAssumption DEF Counts, Presence!Spend, Presence!MayFail

\* Nothing is published, no socket is opened; a replaced one may close.
LEMMA CountsKept ==
    ASSUME Counts, UNCHANGED archiving,
           spent' \in [connects : 0 .. MaxConnects, faults : 0 .. MaxFaults, outlived : Nat],
           spent'.connects = spent.connects,
           up' = up, held' = held,
           replaced' \in [Instances -> Nat], \A j \in Instances : replaced'[j] <= replaced[j],
           live' \in Instances \union {Nobody}, owner' \in Instances \union {Nobody},
           {online, recent, sweep}' \subseteq BOOLEAN
    PROVE  Counts'
<1>1. ASSUME NEW j \in Instances
      PROVE  ArchivesAt(j)'
  <2>1. ArchivesAt(j) /\ replaced[j] \in Nat /\ replaced'[j] \in Nat /\ replaced'[j] <= replaced[j]
        /\ archiving[j]["Disconnected"] \in Nat /\ spent.connects \in Nat
    BY PresenceSpends DEF Counts, Presence!Archived
  <2> QED
    BY <2>1 DEF ArchivesAt
<1> QED
  BY <1>1 DEF Counts

\* A replaced socket is taken off the count.
LEMMA CountsFewer ==
    ASSUME Counts, NEW i \in Instances, Presence!ReplacedCloses(i)
    PROVE  /\ replaced' \in [Instances -> Nat]
           /\ \A j \in Instances : replaced'[j] = replaced[j] - (IF j = i THEN 1 ELSE 0)
BY DEF Counts, Presence!ReplacedCloses

LEMMA CountsConnect ==
    ASSUME Counts, NEW i \in Instances, Presence!StationConnects(i)
    PROVE  Counts'
<1>1. /\ spent' \in [connects : 0 .. MaxConnects, faults : 0 .. MaxFaults, outlived : Nat]
      /\ spent'.connects = spent.connects + 1 /\ spent.connects \in Nat
  BY PresenceSpends DEF Presence!StationConnects, Presence!Connect
<1>2. /\ up' = up /\ held' = held \union {i} /\ i \in up /\ live' = i /\ owner' = owner
      /\ replaced' \in [Instances -> Nat] /\ UNCHANGED <<online, recent, sweep>>
      /\ \A j \in Instances :
            replaced'[j] = replaced[j] + (IF j = i /\ i \in held THEN 1 ELSE 0)
  BY DEF Counts, Presence!StationConnects, Presence!Connect
<1>3. "Connected" \in Presence!Archived /\ "Disconnected" \in Presence!Archived
  BY DEF Presence!Archived
<1>4. archiving \in [Instances -> [Presence!Archived -> Nat]]
  BY DEF Counts
<1>5. archiving' = [archiving EXCEPT ![i]["Connected"] = @ + 1]
  BY DEF Presence!StationConnects, Presence!Publishes
<1>6. archiving' \in [Instances -> [Presence!Archived -> Nat]]
  BY <1>3, <1>4, <1>5
<1>7. ASSUME NEW j \in Instances
      PROVE  ArchivesAt(j)'
  <2>1. /\ archiving'[j]["Connected"] <= archiving[j]["Connected"] + 1
        /\ archiving'[j]["Disconnected"] = archiving[j]["Disconnected"]
        /\ archiving[j]["Connected"] \in Nat /\ archiving'[j]["Connected"] \in Nat
        /\ archiving[j]["Disconnected"] \in Nat /\ replaced[j] \in Nat
    BY <1>3, <1>4, <1>5, <1>6 DEF Counts
  <2>2. ArchivesAt(j)
    BY DEF Counts
  <2> QED
    BY <1>1, <1>2, <2>1, <2>2 DEF ArchivesAt
<1> QED
  BY <1>1, <1>2, <1>6, <1>7 DEF Counts

LEMMA CountsClose ==
    ASSUME Counts, NEW i \in Instances, Presence!SocketCloses(i)
    PROVE  Counts'
<1>1. /\ up' = up /\ held' = held \ {i} /\ i \in held /\ live' \in {live, Nobody}
      /\ UNCHANGED <<owner, replaced, spent, online, recent, sweep>>
  BY DEF Presence!SocketCloses, Presence!Close
<1>2. "Connected" \in Presence!Archived /\ "Disconnected" \in Presence!Archived
  BY DEF Presence!Archived
<1>3. archiving \in [Instances -> [Presence!Archived -> Nat]] /\ spent.connects \in Nat
  BY PresenceSpends DEF Counts
<1>4. archiving' = [archiving EXCEPT ![i]["Disconnected"] = @ + 1]
  BY DEF Presence!SocketCloses, Presence!Publishes
<1>5. archiving' \in [Instances -> [Presence!Archived -> Nat]]
  BY <1>2, <1>3, <1>4
<1>6. ASSUME NEW j \in Instances
      PROVE  ArchivesAt(j)'
  <2>1. /\ archiving'[j]["Connected"] = archiving[j]["Connected"]
        /\ archiving'[j]["Disconnected"] = archiving[j]["Disconnected"] + (IF j = i THEN 1 ELSE 0)
        /\ archiving[j]["Connected"] \in Nat /\ archiving[j]["Disconnected"] \in Nat
        /\ replaced[j] \in Nat
    BY <1>2, <1>3, <1>4 DEF Counts
  <2>2. ArchivesAt(j)
    BY DEF Counts
  <2> QED
    BY <1>1, <1>3, <2>1, <2>2 DEF ArchivesAt
<1> QED
  BY <1>1, <1>5, <1>6 DEF Counts

LEMMA CountsOutliving ==
    ASSUME Counts, NEW i \in Instances, Presence!OutlivingCloses(i)
    PROVE  Counts'
<1>1. /\ UNCHANGED <<up, held, live, owner, online, recent, sweep>>
      /\ spent' \in [connects : 0 .. MaxConnects, faults : 0 .. MaxFaults, outlived : Nat]
      /\ spent'.connects = spent.connects /\ spent.connects \in Nat
      /\ replaced[i] > 0
  BY PresenceSpends DEF Presence!OutlivingCloses, Presence!CloseOutliving, Presence!ReplacedCloses
<1>2. /\ replaced' \in [Instances -> Nat]
      /\ \A j \in Instances : replaced'[j] = replaced[j] - (IF j = i THEN 1 ELSE 0)
  BY CountsFewer DEF Presence!OutlivingCloses, Presence!CloseOutliving
<1>3. "Connected" \in Presence!Archived /\ "Disconnected" \in Presence!Archived
  BY DEF Presence!Archived
<1>4. archiving \in [Instances -> [Presence!Archived -> Nat]]
  BY DEF Counts
<1>5. archiving' = [archiving EXCEPT ![i]["Disconnected"] = @ + 1]
  BY DEF Presence!OutlivingCloses, Presence!Publishes
<1>6. archiving' \in [Instances -> [Presence!Archived -> Nat]]
  BY <1>3, <1>4, <1>5
<1>7. ASSUME NEW j \in Instances
      PROVE  ArchivesAt(j)'
  <2>1. /\ archiving'[j]["Connected"] = archiving[j]["Connected"]
        /\ archiving'[j]["Disconnected"] = archiving[j]["Disconnected"] + (IF j = i THEN 1 ELSE 0)
        /\ archiving[j]["Connected"] \in Nat /\ archiving[j]["Disconnected"] \in Nat
        /\ replaced[j] \in Nat
    BY <1>3, <1>4, <1>5 DEF Counts
  <2>2. ArchivesAt(j)
    BY DEF Counts
  <2> QED
    BY <1>1, <1>2, <2>1, <2>2 DEF ArchivesAt
<1> QED
  BY <1>1, <1>2, <1>6, <1>7 DEF Counts

LEMMA CountsCrash ==
    ASSUME Counts, NEW i \in Instances, Presence!InstanceCrashes(i)
    PROVE  Counts'
<1>1. /\ spent' \in [connects : 0 .. MaxConnects, faults : 0 .. MaxFaults, outlived : Nat]
      /\ spent'.connects = spent.connects /\ spent.connects \in Nat
  BY PresenceSpends DEF Presence!InstanceCrashes, Presence!Crash
<1>2. /\ up' = up \ {i} /\ held' = held \ {i} /\ live' \in {live, Nobody}
      /\ replaced' \in [Instances -> Nat] /\ replaced'[i] = 0
      /\ \A j \in Instances \ {i} : replaced'[j] = replaced[j]
      /\ UNCHANGED <<owner, online, recent, sweep>>
  BY DEF Counts, Presence!InstanceCrashes, Presence!Crash
<1>3. "Connected" \in Presence!Archived /\ "Disconnected" \in Presence!Archived
  BY DEF Presence!Archived
<1>4. archiving \in [Instances -> [Presence!Archived -> Nat]]
  BY DEF Counts
<1>5. archiving' = [archiving EXCEPT ![i] = [k \in Presence!Archived |-> 0]]
  BY DEF Presence!InstanceCrashes
<1>6. archiving' \in [Instances -> [Presence!Archived -> Nat]]
  BY <1>4, <1>5
<1>7. ASSUME NEW j \in Instances
      PROVE  ArchivesAt(j)'
  <2>1. ArchivesAt(j)
    BY DEF Counts
  <2>2. CASE j = i
    BY <1>1, <1>2, <1>3, <1>4, <1>5, <2>2 DEF ArchivesAt
  <2>3. CASE j # i
    BY <1>1, <1>2, <1>4, <1>5, <2>1, <2>3 DEF ArchivesAt
  <2> QED
    BY <2>2, <2>3
<1> QED
  BY <1>1, <1>2, <1>6, <1>7 DEF Counts

LEMMA CountsArchive ==
    ASSUME Counts, NEW i \in Instances, NEW k \in Presence!Archived, Presence!Archive(i, k)
    PROVE  Counts'
<1>1. UNCHANGED <<up, held, live, replaced, owner, spent, online, recent, sweep>>
  BY DEF Presence!Archive, Presence!socketVars
<1>2. "Connected" \in Presence!Archived /\ "Disconnected" \in Presence!Archived
  BY DEF Presence!Archived
<1>3. archiving \in [Instances -> [Presence!Archived -> Nat]] /\ spent.connects \in Nat
  BY PresenceSpends DEF Counts
<1>4. archiving[i][k] > 0 /\ archiving' = [archiving EXCEPT ![i][k] = @ - 1]
  BY DEF Presence!Archive
<1>5. archiving' \in [Instances -> [Presence!Archived -> Nat]]
  BY <1>3, <1>4
<1>6. ASSUME NEW j \in Instances
      PROVE  ArchivesAt(j)'
  <2>1. /\ archiving'[j]["Connected"] <= archiving[j]["Connected"]
        /\ archiving'[j]["Disconnected"] <= archiving[j]["Disconnected"]
        /\ archiving'[j]["Connected"] \in Nat /\ archiving'[j]["Disconnected"] \in Nat
        /\ archiving[j]["Connected"] \in Nat /\ archiving[j]["Disconnected"] \in Nat
        /\ replaced[j] \in Nat
    BY <1>2, <1>3, <1>4, <1>5 DEF Counts
  <2>2. ArchivesAt(j)
    BY DEF Counts
  <2> QED
    BY <1>1, <1>3, <2>1, <2>2 DEF ArchivesAt
<1> QED
  BY <1>1, <1>5, <1>6 DEF Counts

\* The entry a write leaves behind names an instance or nobody.
LEMMA PresenceWritten ==
    ASSUME Counts, NEW i \in Instances, NEW kind \in RegistryWrites
    PROVE  Presence!Written(i, kind) \in Instances \union {Nobody}
BY DEF Counts, Presence!Written, RegistryWrites

LEMMA CountsStep ==
    ASSUME Counts, Presence!Next
    PROVE  Counts'
<1>0. \A j \in Instances : replaced[j] \in Nat /\ replaced[j] <= replaced[j]
  BY DEF Counts
<1>1. ASSUME NEW i \in Instances, Presence!CloseReplaced(i) \/ Presence!Refresh(i),
             UNCHANGED Presence!presenceVars
      PROVE  Counts'
  <2>1. CASE Presence!CloseReplaced(i)
    <3>1. \A j \in Instances : replaced[j] \in Nat
      BY DEF Counts
    <3>2. replaced' \in [Instances -> Nat] /\ \A j \in Instances : replaced'[j] <= replaced[j]
      BY <2>1, <3>1, CountsFewer DEF Presence!CloseReplaced
    <3> QED
      BY <1>1, <2>1, <3>2, CountsKept DEF Counts, Presence!CloseReplaced, Presence!presenceVars
  <2>2. CASE Presence!Refresh(i)
    BY <1>1, <2>2, CountsKept DEF Counts, Presence!Refresh, Presence!presenceVars
  <2> QED
    BY <1>1, <2>1, <2>2
<1>2. ASSUME NEW i \in Instances, Presence!WriteEnds(i, Presence!ApplyWrite(i))
      PROVE  Counts'
  <2>1. Head(ops[i]).kind \in RegistryWrites
        /\ owner' = Presence!Written(i, Head(ops[i]).kind)
    BY <1>2 DEF Presence!WriteEnds, Presence!ApplyWrite, Presence!RegistryWrites, RegistryWrites
  <2>2. owner' \in Instances \union {Nobody}
    BY <2>1, PresenceWritten
  <2> QED
    BY <1>2, <2>2, CountsKept DEF Counts, Presence!WriteEnds, Presence!ApplyWrite
<1>3. ASSUME NEW i \in Instances, Presence!WriteEnds(i, Presence!LoseWrite(i))
      PROVE  Counts'
  BY <1>3, PresenceSpends, CountsKept DEF Counts, Presence!WriteEnds, Presence!LoseWrite
<1>4. ASSUME NEW i \in Instances, NEW h \in BOOLEAN, Presence!Message(i, h)
      PROVE  Counts'
  BY <1>4, CountsKept DEF Counts, Presence!Message, Presence!socketVars
<1>5. ASSUME NEW i \in Instances,
             \/ Presence!ProjectMessageLog(i) \/ Presence!ProjectConnected(i)
             \/ Presence!DisconnectedMarks(i)
      PROVE  Counts'
  BY <1>0, <1>5, CountsKept
  DEF Counts, Presence!ProjectMessageLog, Presence!ProjectConnected, Presence!DisconnectedMarks,
      Presence!socketVars
<1>6. ASSUME NEW i \in Instances,
             \/ Presence!ProjectHeartbeat(i) \/ Presence!DisconnectedAsks(i)
             \/ Presence!DisconnectedAnswered(i)
      PROVE  Counts'
  BY <1>0, <1>6, CountsKept
  DEF Counts, Presence!ProjectHeartbeat, Presence!DisconnectedAsks,
      Presence!DisconnectedAnswered, Presence!presenceVars
<1>7. ASSUME NEW i \in Instances, Presence!ProjectionFails(i) \/ Presence!DisconnectedUnanswered(i)
      PROVE  Counts'
  BY <1>7, PresenceSpends, CountsKept
  DEF Counts, Presence!ProjectionFails, Presence!DisconnectedUnanswered
<1>8. CASE (Presence!Vanish \/ Presence!Expire) /\ UNCHANGED Presence!presenceVars
  BY <1>8, PresenceSpends, CountsKept
  DEF Counts, Presence!Vanish, Presence!Expire, Presence!presenceVars
<1>9. CASE Presence!Age \/ Presence!SweepFinds \/ Presence!SweepMarks
  <2>1. {online, recent, sweep}' \subseteq BOOLEAN
        /\ UNCHANGED <<up, held, live, replaced, owner, spent, archiving>>
    BY <1>9 DEF Counts, Presence!Age, Presence!SweepFinds, Presence!SweepMarks, Presence!socketVars
  <2> QED
    BY <2>1, CountsKept DEF Counts
<1> QED
  BY <1>1, <1>2, <1>3, <1>4, <1>5, <1>6, <1>7, <1>8, <1>9,
     CountsConnect, CountsClose, CountsOutliving, CountsCrash, CountsArchive
  DEF Presence!Next

LEMMA PresenceInitial == Presence!Init => PresenceInv
<1> SUFFICES ASSUME Presence!Init
             PROVE  PresenceInv
  OBVIOUS
<1>1. Presence!SocketInit
  BY DEF Presence!Init
<1>2. \A i \in Instances : ops[i] = <<>> /\ lane[i] = <<>> /\ ~leaving[i] /\ i \notin held /\ replaced[i] = 0
  BY <1>1 DEF Presence!Init, Presence!SocketInit
<1>3. Lanes
  BY <1>1, <1>2
  DEF Presence!Init, Presence!SocketInit, Lanes, LaneAt, Waits, OnceIn, ToSet, Presence!AtHead
<1>4. \A i \in Instances : archiving[i]["Connected"] = 0 /\ archiving[i]["Disconnected"] = 0
  BY DEF Presence!Init, Presence!Archived
<1>5. spent = [connects |-> 0, faults |-> 0, outlived |-> 0] /\ spent \in [connects : 0 .. MaxConnects, faults : 0 .. MaxFaults, outlived : Nat]
  BY <1>1, BoundsAssumption DEF Presence!SocketInit
<1>6. \A i \in Instances : ArchivesAt(i)
  BY <1>2, <1>4, <1>5 DEF ArchivesAt
<1>7. up = Instances /\ held = {} /\ live = Nobody /\ owner = Nobody
      /\ replaced \in [Instances -> Nat] /\ archiving \in [Instances -> [Presence!Archived -> Nat]]
  BY <1>1 DEF Presence!Init, Presence!SocketInit
<1>8. Counts
  BY <1>5, <1>6, <1>7 DEF Presence!Init, Counts
<1> QED
  BY <1>3, <1>8, InvParts

LEMMA PresenceStep == PresenceInv /\ [Presence!Next]_Presence!vars => PresenceInv'
<1> SUFFICES ASSUME PresenceInv, [Presence!Next]_Presence!vars
             PROVE  PresenceInv'
  OBVIOUS
<1>1. CASE Presence!Next
  <2>1. Lanes' /\ Counts'
    BY <1>1, LanesStep, CountsStep, InvParts
  <2> QED
    BY <2>1 DEF PresenceInv, PresenceRanges, Lanes, Counts
<1>2. CASE UNCHANGED Presence!vars
  BY <1>2
  DEF Presence!vars, Presence!socketVars, Presence!presenceVars, PresenceInv, PresenceRanges,
      LaneAt, Waits, Presence!AtHead, OnceIn, ArchivesAt
<1> QED
  BY <1>1, <1>2

LEMMA PresenceInRange == PresenceInv => Presence!TypeOK
<1> SUFFICES ASSUME PresenceInv
             PROVE  Presence!TypeOK
  OBVIOUS
<1>1. ASSUME NEW i \in Instances
      PROVE  /\ \A k \in DOMAIN ops[i] : ops[i][k].kind \in Presence!OpKinds
             /\ \A k \in Presence!Archived : archiving[i][k] \in 0 .. MaxConnects
             /\ Presence!ToSet(lane[i]) \subseteq Presence!Events
             /\ leaving[i] \in BOOLEAN
             /\ leaving[i] \/ Presence!Lookup \in Presence!ToSet(ops[i])
                  => Presence!AtHead(i, "Disconnected")
  <2>1. ops[i] \in Seq(PresenceOp) /\ lane[i] \in Seq(Presence!Events) /\ leaving[i] \in BOOLEAN
        /\ ArchivesAt(i) /\ LaneAt(i) /\ archiving[i] \in [Presence!Archived -> Nat]
        /\ spent.connects \in 0 .. MaxConnects
    BY LaneParts DEF PresenceInv, PresenceRanges
  <2>2. \A op \in PresenceOp : op.kind \in Presence!OpKinds
    BY DEF PresenceOp, Presence!Lookup, Presence!HeartbeatRegister, Presence!Op, Presence!OpKinds,
           Presence!RegistryWrites, RegistryWrites
  <2>3. \A k \in DOMAIN ops[i] : ops[i][k].kind \in Presence!OpKinds
    BY <2>1, <2>2
  <2>4. \A k \in Presence!Archived : archiving[i][k] \in 0 .. MaxConnects
    <3>1. replaced[i] \in Nat
      BY DEF PresenceInv, PresenceRanges
    <3> QED
      BY <2>1, <3>1, BoundsAssumption DEF ArchivesAt, Presence!Archived
  <2>5. Presence!ToSet(lane[i]) \subseteq Presence!Events
    BY <2>1 DEF Presence!ToSet
  <2>6. leaving[i] \/ Presence!Lookup \in Presence!ToSet(ops[i]) => Presence!AtHead(i, "Disconnected")
    BY <2>1 DEF LaneAt, Waits, ToSet, Presence!ToSet
  <2> QED
    BY <2>1, <2>3, <2>4, <2>5, <2>6
<1>2. Presence!SocketTypeOK
  <2>1. ASSUME NEW i \in Instances
        PROVE  replaced[i] \in 0 .. MaxConnects /\ (replaced[i] > 0 => i \in up)
    <3>1. /\ replaced[i] \in Nat /\ ArchivesAt(i) /\ spent.connects \in 0 .. MaxConnects
          /\ archiving[i]["Disconnected"] \in Nat
      BY DEF PresenceInv, PresenceRanges, Presence!Archived
    <3> QED
      BY <3>1, BoundsAssumption DEF ArchivesAt
  <2> QED
    BY <1>1, <2>1, BoundsAssumption DEF PresenceInv, PresenceRanges, Presence!SocketTypeOK
<1> QED
  BY <1>1, <1>2 DEF PresenceInv, PresenceRanges, Presence!TypeOK

\* Every variable of the presence stays in its range, no more events wait for
\* their archive insert than connections were opened, and a projection lane
\* never moves past a Disconnected projection that waits for Redis or is about
\* to mark the station offline: what is queued behind it is projected after it.
THEOREM PresenceTypes == Presence!Spec => []Presence!TypeOK
<1>1. Presence!Spec => []PresenceInv
  BY PresenceInitial, PresenceStep, PTL DEF Presence!Spec
<1> QED
  BY <1>1, PresenceInRange, PTL
===============================================================================
