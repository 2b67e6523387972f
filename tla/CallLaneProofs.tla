--------------------------- MODULE CallLaneProofs ---------------------------
(***************************************************************************)
(* TLAPS proofs about CallLane, for every set of CALLs.                    *)
(***************************************************************************)
EXTENDS CallLane, SequenceTheorems, TLAPS

(***************************************************************************)
(* The inductive invariant.                                                *)
(***************************************************************************)

\* One CALL holds the lane, from the moment it is sent until its release ran.
LaneInv ==
    /\ \A c, d \in pending \union releasing : c = d
    /\ busy <=> pending \union releasing # {}
    /\ queue # <<>> => busy
    /\ closed => pending = {} /\ queue = <<>>

\* What the status of a CALL says about where the lane keeps it.
StatusInv ==
    /\ \A c \in Calls : status[c] = "out" <=> c \in pending
    /\ \A c \in releasing : status[c] \in Settled
    /\ \A i \in 1 .. Len(queue) : status[queue[i]] = "waiting"
    /\ \A c \in Calls : status[c] = "waiting" => \E i \in 1 .. Len(queue) : queue[i] = c

\* What the status of a CALL says about its two instants.
StampInv ==
    /\ \A c \in Calls : askedAt[c] <= now /\ sentAt[c] <= now
    /\ \A c \in Calls : status[c] = "new" => askedAt[c] = 0 /\ sentAt[c] = 0
    /\ \A c \in Calls : status[c] = "waiting" => askedAt[c] > 0 /\ sentAt[c] = 0
    /\ \A c \in Calls : status[c] = "out" => askedAt[c] > 0 /\ sentAt[c] > 0
    /\ \A c \in Calls : sentAt[c] > 0 => askedAt[c] > 0
    /\ \A c, d \in Calls : c # d /\ askedAt[c] > 0 => askedAt[c] # askedAt[d]
    /\ \A c, d \in Calls : c # d /\ askedAt[c] > 0 => askedAt[c] # sentAt[d]

\* The queue is in the order of the calls.
QueueInv ==
    \A i, j \in 1 .. Len(queue) : i < j => askedAt[queue[i]] < askedAt[queue[j]]

IInv ==
    /\ TypeOK
    /\ LaneInv
    /\ StatusInv
    /\ StampInv
    /\ QueueInv
    /\ UnsentIsUnsent
    /\ SentInOrder
    /\ OnlyDeepQueueTimesOut

LEMMA InitIInv == Init => IInv
<1> SUFFICES ASSUME Init PROVE IInv
  OBVIOUS
<1> USE DEF Init
<1>1. TypeOK
  <2>1. queue \in Seq(Calls)
    BY EmptySeq
  <2> QED
    BY <2>1 DEF TypeOK, Statuses
<1>2. LaneInv /\ StampInv
  BY DEF LaneInv, StampInv
<1>3. StatusInv /\ QueueInv
  <2>1. 1 .. Len(queue) = {}
    OBVIOUS
  <2> QED
    BY <2>1 DEF StatusInv, QueueInv
<1>4. UnsentIsUnsent /\ SentInOrder /\ OnlyDeepQueueTimesOut
  BY DEF UnsentIsUnsent, SentInOrder, OnlyDeepQueueTimesOut, SentOutcomes, UnsentOutcomes
<1> QED
  BY <1>1, <1>2, <1>3, <1>4 DEF IInv

(***************************************************************************)
(* A queue timeout stays explained as long as the instants it is explained *)
(* by stay: the reason for a verdict never goes away.                      *)
(***************************************************************************)
LEMMA ReasonStays ==
    ASSUME TypeOK, OnlyDeepQueueTimesOut,
           \A x \in Calls : status'[x] = "queueTimeout" =>
               status[x] = "queueTimeout" /\ askedAt'[x] = askedAt[x],
           \A d \in Calls : sentAt[d] > 0 =>
               askedAt'[d] = askedAt[d] /\ sentAt'[d] = sentAt[d]
    PROVE  OnlyDeepQueueTimesOut'
<1> SUFFICES ASSUME NEW x \in Calls, status'[x] = "queueTimeout"
             PROVE  \E d \in Calls : askedAt'[d] < askedAt'[x] /\ sentAt'[d] > askedAt'[x]
  BY DEF OnlyDeepQueueTimesOut
<1>1. PICK d \in Calls : askedAt[d] < askedAt[x] /\ sentAt[d] > askedAt[x]
  BY DEF OnlyDeepQueueTimesOut
<1>2. sentAt[d] > 0
  BY <1>1 DEF TypeOK
<1> QED
  BY <1>1, <1>2

(***************************************************************************)
(* Settling the pending CALL: answer, response timeout and failed write    *)
(* differ only in the verdict.                                             *)
(***************************************************************************)
LEMMA SettlesStep ==
    ASSUME IInv, Idle, NEW c \in pending, NEW o \in SentOutcomes, Settles(c, o),
           UNCHANGED <<busy, closed, queue, askedAt, sentAt, now>>
    PROVE  IInv'
<1> USE DEF IInv
<1>1. /\ c \in Calls
      /\ o \in Settled /\ o \notin UnsentOutcomes
      /\ o \notin {"new", "waiting", "out", "queueTimeout"}
      /\ pending = {c} /\ releasing = {}
      /\ pending' = {} /\ releasing' = {c}
  BY DEF TypeOK, LaneInv, Idle, Settles, SentOutcomes, UnsentOutcomes, Settled
<1>2. /\ status[c] = "out"
      /\ status' = [status EXCEPT ![c] = o]
  BY <1>1 DEF StatusInv, Settles
<1>3. TypeOK'
  BY <1>1, <1>2 DEF TypeOK, Statuses
<1>4. LaneInv'
  BY <1>1 DEF LaneInv
<1>5. StatusInv'
  <2>1. \A x \in Calls : status'[x] = "out" <=> x \in pending'
    BY <1>1, <1>2 DEF StatusInv, TypeOK
  <2>2. \A x \in releasing' : status'[x] \in Settled
    BY <1>1, <1>2 DEF TypeOK
  <2>3. \A i \in 1 .. Len(queue) : queue[i] # c
    BY <1>2 DEF StatusInv
  <2> QED
    BY <1>1, <1>2, <2>1, <2>2, <2>3 DEF StatusInv, TypeOK
<1>6. StampInv' /\ QueueInv'
  BY <1>1, <1>2 DEF StampInv, QueueInv, TypeOK
<1>7. UnsentIsUnsent' /\ SentInOrder'
  BY <1>1, <1>2 DEF UnsentIsUnsent, SentInOrder, StampInv, TypeOK
<1>8. OnlyDeepQueueTimesOut'
  BY <1>1, <1>2, ReasonStays DEF TypeOK
<1> QED
  BY <1>3, <1>4, <1>5, <1>6, <1>7, <1>8

(***************************************************************************)
(* sendCall                                                                *)
(***************************************************************************)
LEMMA SendCallClosedStep ==
    ASSUME IInv, NEW c \in Calls, SendCallClosed(c)
    PROVE  IInv'
<1> USE DEF IInv, SendCallClosed
<1>1. TypeOK'
  BY DEF TypeOK, Statuses, Settled, UnsentOutcomes
<1>2. LaneInv' /\ StatusInv'
  BY DEF LaneInv, StatusInv, TypeOK, Settled, UnsentOutcomes, SentOutcomes
<1>3. StampInv' /\ QueueInv'
  BY DEF StampInv, QueueInv, TypeOK
<1>4. UnsentIsUnsent' /\ SentInOrder'
  BY DEF UnsentIsUnsent, SentInOrder, StampInv, TypeOK, UnsentOutcomes, SentOutcomes
<1>5. OnlyDeepQueueTimesOut'
  BY ReasonStays DEF TypeOK
<1> QED
  BY <1>1, <1>2, <1>3, <1>4, <1>5

LEMMA SendCallNowStep ==
    ASSUME IInv, NEW c \in Calls, SendCallNow(c)
    PROVE  IInv'
<1> USE DEF IInv, SendCallNow, Transmits
<1>1. TypeOK'
  BY DEF TypeOK, Statuses
<1>2. /\ pending = {} /\ releasing = {} /\ queue = <<>>
      /\ pending' = {c} /\ releasing' = {}
      /\ askedAt[c] = 0 /\ sentAt[c] = 0
  BY DEF LaneInv, StampInv
<1>3. LaneInv'
  BY <1>2 DEF LaneInv
<1>4. StatusInv' /\ QueueInv'
  BY <1>2 DEF StatusInv, QueueInv, TypeOK
<1>5. StampInv'
  BY <1>2 DEF StampInv, TypeOK
<1>6. UnsentIsUnsent'
  BY DEF UnsentIsUnsent, TypeOK, UnsentOutcomes, SentOutcomes
<1>7. SentInOrder'
  BY <1>2 DEF SentInOrder, StatusInv, StampInv, TypeOK
<1>8. OnlyDeepQueueTimesOut'
  BY <1>2, ReasonStays DEF TypeOK
<1> QED
  BY <1>1, <1>3, <1>4, <1>5, <1>6, <1>7, <1>8

LEMMA SendCallQueuedStep ==
    ASSUME IInv, NEW c \in Calls, SendCallQueued(c)
    PROVE  IInv'
<1> USE DEF IInv, SendCallQueued
<1>1. /\ queue' \in Seq(Calls)
      /\ Len(queue') = Len(queue) + 1
      /\ \A i \in 1 .. Len(queue) : queue'[i] = queue[i]
      /\ queue'[Len(queue) + 1] = c
      /\ queue' # <<>>
  BY DEF TypeOK
<1>2. /\ askedAt[c] = 0 /\ sentAt[c] = 0
      /\ \A i \in 1 .. Len(queue) : queue[i] \in Calls /\ queue[i] # c
  BY DEF StatusInv, StampInv, TypeOK
<1>3. TypeOK'
  BY <1>1 DEF TypeOK, Statuses
<1>4. LaneInv'
  BY DEF LaneInv
<1>5. StatusInv'
  <2>1. \A i \in 1 .. Len(queue') : status'[queue'[i]] = "waiting"
    BY <1>1, <1>2 DEF StatusInv, TypeOK
  <2>2. ASSUME NEW x \in Calls, status'[x] = "waiting"
        PROVE  \E i \in 1 .. Len(queue') : queue'[i] = x
    <3>1. CASE x = c
      <4>1. Len(queue) + 1 \in 1 .. Len(queue')
        BY <1>1 DEF TypeOK
      <4> QED
        BY <1>1, <3>1, <4>1
    <3>2. CASE x # c
      BY <1>1, <2>2, <3>2 DEF StatusInv, TypeOK
    <3> QED
      BY <3>1, <3>2
  <2> QED
    BY <2>1, <2>2 DEF StatusInv, TypeOK, Settled, SentOutcomes, UnsentOutcomes
<1>6. StampInv'
  BY <1>2 DEF StampInv, TypeOK
<1>7. QueueInv'
  <2> SUFFICES ASSUME NEW i \in 1 .. Len(queue'), NEW j \in 1 .. Len(queue'), i < j
               PROVE  askedAt'[queue'[i]] < askedAt'[queue'[j]]
    BY DEF QueueInv
  <2>1. i \in 1 .. Len(queue) /\ queue'[i] = queue[i]
    BY <1>1 DEF TypeOK
  <2>2. askedAt'[queue[i]] = askedAt[queue[i]] /\ askedAt[queue[i]] < now + 1
    BY <1>2, <2>1 DEF StampInv, TypeOK
  <2>3. CASE j = Len(queue) + 1
    BY <1>1, <2>1, <2>2, <2>3 DEF TypeOK
  <2>4. CASE j # Len(queue) + 1
    <3>1. j \in 1 .. Len(queue) /\ queue'[j] = queue[j]
      <4>1. Len(queue) \in Nat /\ j \in 1 .. Len(queue) + 1
        BY <1>1 DEF TypeOK
      <4> QED
        BY <1>1, <2>4, <4>1
    <3>2. askedAt'[queue[j]] = askedAt[queue[j]]
      BY <1>2, <3>1 DEF TypeOK
    <3> QED
      BY <2>1, <2>2, <3>1, <3>2 DEF QueueInv
  <2> QED
    BY <2>3, <2>4
<1>8. UnsentIsUnsent'
  BY DEF UnsentIsUnsent, TypeOK, UnsentOutcomes, SentOutcomes
<1>9. SentInOrder'
  BY <1>2 DEF SentInOrder, StampInv, TypeOK
<1>10. OnlyDeepQueueTimesOut'
  BY <1>2, ReasonStays DEF TypeOK
<1> QED
  BY <1>3, <1>4, <1>5, <1>6, <1>7, <1>8, <1>9, <1>10

(***************************************************************************)
(* The queue timer.                                                        *)
(***************************************************************************)
\* A queue that loses one CALL, splice(index, 1).
LEMMA RemoveAtFacts ==
    ASSUME NEW S, NEW s \in Seq(S), NEW i \in 1 .. Len(s)
    PROVE  /\ RemoveAt(s, i) \in Seq(S)
           /\ Len(RemoveAt(s, i)) = Len(s) - 1
           /\ \A j \in 1 .. Len(s) - 1 :
                 RemoveAt(s, i)[j] = IF j < i THEN s[j] ELSE s[j + 1]
<1> DEFINE front == SubSeq(s, 1, i - 1)
           back  == SubSeq(s, i + 1, Len(s))
<1>1. Len(s) \in Nat
  OBVIOUS
<1>2. /\ front \in Seq(S)
      /\ Len(front) = i - 1
      /\ \A j \in 1 .. i - 1 : front[j] = s[j]
  BY <1>1
<1>3. /\ back \in Seq(S)
      /\ Len(back) = Len(s) - i
      /\ \A j \in 1 .. Len(s) - i : back[j] = s[i + j]
  BY <1>1
<1> HIDE DEF front, back
<1>4. /\ front \o back \in Seq(S)
      /\ Len(front \o back) = Len(front) + Len(back)
      /\ \A j \in 1 .. Len(front) + Len(back) :
            (front \o back)[j] = IF j <= Len(front) THEN front[j] ELSE back[j - Len(front)]
  BY <1>2, <1>3, ConcatProperties, ZenonT(20)
<1>5. Len(front \o back) = Len(s) - 1
  BY <1>1, <1>2, <1>3, <1>4
<1>6. ASSUME NEW j \in 1 .. Len(s) - 1
      PROVE  (front \o back)[j] = IF j < i THEN s[j] ELSE s[j + 1]
  <2>1. j \in 1 .. Len(front) + Len(back)
    BY <1>1, <1>2, <1>3
  <2>2. CASE j < i
    BY <1>1, <1>2, <1>3, <1>4, <2>1, <2>2
  <2>3. CASE ~(j < i)
    <3>1. j - Len(front) \in 1 .. Len(s) - i /\ i + (j - Len(front)) = j + 1
       BY <1>1, <1>2, <2>3
    <3>2. (front \o back)[j] = back[j - Len(front)]
       BY <1>2, <1>4, <2>1, <2>3
    <3> QED
       BY <3>1, <3>2, <2>3, <1>3
  <2> QED
    BY <2>2, <2>3
<1> QED
  BY <1>4, <1>5, <1>6 DEF RemoveAt, front, back

LEMMA QueueTimeoutStep ==
    ASSUME IInv, NEW i \in DOMAIN queue, QueueTimeout(i)
    PROVE  IInv'
<1> DEFINE c == queue[i]
<1> USE DEF IInv, QueueTimeout
<1>1. /\ i \in 1 .. Len(queue)
      /\ c = queue[i]
      /\ c \in Calls
      /\ status[c] = "waiting"
      /\ queue # <<>>
      /\ Len(queue) \in Nat
      /\ \A j \in 1 .. Len(queue) : queue[j] \in Calls
  BY DEF TypeOK, StatusInv
<1>2. /\ queue' \in Seq(Calls)
      /\ Len(queue') = Len(queue) - 1
      /\ \A j \in 1 .. Len(queue) - 1 :
            queue'[j] = IF j < i THEN queue[j] ELSE queue[j + 1]
  BY <1>1, RemoveAtFacts DEF TypeOK
<1>3. status' = [status EXCEPT ![c] = "queueTimeout"]
  OBVIOUS
<1>4. \A j \in 1 .. Len(queue) : j # i => queue[j] # c
  BY <1>1 DEF QueueInv, TypeOK
<1> HIDE DEF c
<1>5. TypeOK'
  BY <1>1, <1>2, <1>3 DEF TypeOK, Statuses, Settled, UnsentOutcomes
<1>6. LaneInv'
  <2>1. Len(queue') = 0 => queue' = <<>>
    BY <1>2
  <2> QED
    BY <1>1, <2>1 DEF LaneInv, Idle
<1>7. StatusInv'
  <2>1. ASSUME NEW j \in 1 .. Len(queue') PROVE status'[queue'[j]] = "waiting"
    <3>1. PICK k \in 1 .. Len(queue) : k # i /\ queue'[j] = queue[k]
      <4>1. j \in 1 .. Len(queue) - 1
        BY <1>2
      <4>2. CASE j < i
        <5>1. j \in 1 .. Len(queue) /\ j # i /\ queue'[j] = queue[j]
          BY <1>1, <1>2, <4>1, <4>2
        <5> QED
          BY <5>1
      <4>3. CASE ~(j < i)
        <5>1. j + 1 \in 1 .. Len(queue) /\ j + 1 # i /\ queue'[j] = queue[j + 1]
          BY <1>1, <1>2, <4>1, <4>3
        <5> QED
          BY <5>1
      <4> QED
        BY <4>2, <4>3
    <3>2. queue[k] \in Calls /\ queue[k] # c /\ status[queue[k]] = "waiting"
      BY <1>1, <1>4, <3>1 DEF StatusInv
    <3> QED
      BY <1>3, <3>1, <3>2 DEF TypeOK
  <2>2. ASSUME NEW x \in Calls, status'[x] = "waiting"
        PROVE  \E j \in 1 .. Len(queue') : queue'[j] = x
    <3>1. x # c /\ status[x] = "waiting"
      BY <1>1, <1>3, <2>2 DEF TypeOK
    <3>2. PICK k \in 1 .. Len(queue) : queue[k] = x
      BY <3>1 DEF StatusInv
    <3>3. CASE k < i
      <4>1. k \in 1 .. Len(queue) - 1 /\ k \in 1 .. Len(queue')
        BY <1>1, <1>2, <3>3
      <4> QED
        BY <1>2, <3>2, <3>3, <4>1
    <3>4. CASE k > i
      <4>1. k - 1 \in 1 .. Len(queue') /\ ~(k - 1 < i) /\ (k - 1) + 1 = k
        BY <1>1, <1>2, <3>4 DEF TypeOK
      <4> QED
        BY <1>2, <3>2, <4>1
    <3> QED
      BY <1>1, <3>1, <3>2, <3>3, <3>4
  <2> QED
    BY <1>1, <1>3, <2>1, <2>2 DEF StatusInv, TypeOK, Settled, UnsentOutcomes
<1>8. StampInv'
  BY <1>1, <1>3 DEF StampInv, TypeOK
<1>9. QueueInv'
  <2> SUFFICES ASSUME NEW j \in 1 .. Len(queue'), NEW k \in 1 .. Len(queue'), j < k
               PROVE  askedAt[queue'[j]] < askedAt[queue'[k]]
    BY DEF QueueInv
  <2> DEFINE at(n) == IF n < i THEN n ELSE n + 1
  <2>1. \A n \in 1 .. Len(queue') :
           at(n) \in 1 .. Len(queue) /\ queue'[n] = queue[at(n)]
    BY <1>1, <1>2
  <2>2. at(j) < at(k)
    BY <1>1, <1>2
  <2> HIDE DEF at
  <2> QED
    BY <2>1, <2>2 DEF QueueInv
<1>10. UnsentIsUnsent'
  BY <1>1, <1>3 DEF UnsentIsUnsent, StampInv, TypeOK, UnsentOutcomes, SentOutcomes
<1>11. SentInOrder'
  BY <1>1, <1>3 DEF SentInOrder, TypeOK
<1>12. OnlyDeepQueueTimesOut'
  <2>1. ASSUME NEW x \in Calls, x # c, status'[x] = "queueTimeout"
        PROVE  \E d \in Calls : askedAt'[d] < askedAt'[x] /\ sentAt'[d] > askedAt'[x]
    BY <1>1, <1>3, <2>1 DEF OnlyDeepQueueTimesOut, TypeOK
  <2>2. \E d \in Calls : askedAt'[d] < askedAt'[c] /\ sentAt'[d] > askedAt'[c]
    <3>1. PICK d \in pending : TRUE
      BY <1>1 DEF LaneInv, Idle
    <3>2. d \in Calls /\ d # c /\ sentAt[d] > 0 /\ askedAt[d] > 0
      BY <1>1, <3>1 DEF StatusInv, StampInv, TypeOK
    <3>3. askedAt[c] > 0 /\ sentAt[d] # askedAt[c] /\ askedAt[d] # askedAt[c]
      BY <1>1, <3>2 DEF StampInv
    <3>4. askedAt[d] < askedAt[c]
      BY <1>1, <3>2, <3>3 DEF SentInOrder, TypeOK
    <3>5. askedAt[c] <= sentAt[d]
      <4>1. QueueTimer(c) /\ ~ResponseTimer(c) /\ Expires(c)
        BY <1>1 DEF QueueTimer, ResponseTimer, ToSet, StatusInv, c
      <4> QED
        BY <3>1, <3>2, <4>1 DEF Expires, ArmedAt, ResponseTimer
    <3> QED
      BY <1>1, <3>2, <3>3, <3>4, <3>5 DEF TypeOK
  <2> QED
    BY <2>1, <2>2 DEF OnlyDeepQueueTimesOut
<1> QED
  BY <1>5, <1>6, <1>7, <1>8, <1>9, <1>10, <1>11, <1>12

(***************************************************************************)
(* release                                                                 *)
(***************************************************************************)
LEMMA ReleaseToNextStep ==
    ASSUME IInv, NEW c \in Calls, ReleaseToNext(c)
    PROVE  IInv'
<1> DEFINE h == Head(queue)
<1> USE DEF IInv, ReleaseToNext, Transmits
<1>1. /\ Len(queue) > 0
      /\ h = queue[1] /\ h \in Calls
      /\ queue' \in Seq(Calls)
      /\ Len(queue') = Len(queue) - 1
      /\ Len(queue) \in Nat
      /\ \A i \in 1 .. Len(queue) : queue[i] \in Calls
      /\ \A i \in 1 .. Len(queue') : queue'[i] = queue[i + 1]
  BY DEF TypeOK
<1>2. /\ pending' = pending \union {h}
      /\ status' = [status EXCEPT ![h] = "out"]
      /\ sentAt' = [sentAt EXCEPT ![h] = now + 1]
      /\ now' = now + 1
  OBVIOUS
<1> HIDE DEF h
<1>3. /\ status[h] = "waiting" /\ askedAt[h] > 0 /\ sentAt[h] = 0
      /\ pending = {} /\ releasing = {c}
      /\ pending' = {h} /\ releasing' = {}
  <2>1. status[h] = "waiting" /\ askedAt[h] > 0 /\ sentAt[h] = 0
    BY <1>1 DEF StatusInv, StampInv
  <2>2. status[c] # "out"
    BY DEF StatusInv, Settled, SentOutcomes, UnsentOutcomes
  <2>3. pending = {} /\ releasing = {c}
    BY <2>2 DEF LaneInv, StatusInv
  <2> QED
    BY <1>2, <2>1, <2>3
<1>4. \A i \in 1 .. Len(queue) : i # 1 => askedAt[h] < askedAt[queue[i]]
  BY <1>1 DEF QueueInv, TypeOK
<1>5. TypeOK'
  BY <1>1, <1>2, <1>3 DEF TypeOK, Statuses
<1>6. LaneInv'
  BY <1>1, <1>3 DEF LaneInv
<1>7. StatusInv'
  <2>1. ASSUME NEW i \in 1 .. Len(queue') PROVE status'[queue'[i]] = "waiting"
    <3>1. /\ i + 1 \in 1 .. Len(queue) /\ i + 1 # 1
          /\ queue'[i] = queue[i + 1]
          /\ queue[i + 1] \in Calls
      BY <1>1 DEF TypeOK
    <3>2. queue[i + 1] # h /\ status[queue[i + 1]] = "waiting"
      BY <1>1, <1>4, <3>1 DEF TypeOK, StatusInv
    <3> QED
      BY <1>2, <3>1, <3>2 DEF TypeOK
  <2>2. ASSUME NEW x \in Calls, status'[x] = "waiting"
        PROVE  \E i \in 1 .. Len(queue') : queue'[i] = x
    <3>1. x # h /\ status[x] = "waiting"
      BY <1>1, <1>2, <2>2 DEF TypeOK
    <3>2. PICK k \in 1 .. Len(queue) : queue[k] = x
      BY <3>1 DEF StatusInv
    <3>3. k # 1
      BY <1>1, <3>1, <3>2
    <3>4. k - 1 \in 1 .. Len(queue') /\ (k - 1) + 1 = k
      BY <1>1, <3>3 DEF TypeOK
    <3> QED
      BY <1>1, <3>2, <3>4
  <2>3. \A x \in Calls : status'[x] = "out" <=> x \in pending'
    BY <1>1, <1>2, <1>3 DEF StatusInv, TypeOK
  <2> QED
    BY <1>3, <2>1, <2>2, <2>3 DEF StatusInv
<1>8. StampInv'
  BY <1>1, <1>2, <1>3 DEF StampInv, TypeOK
<1>9. QueueInv'
  <2> SUFFICES ASSUME NEW i \in 1 .. Len(queue'), NEW j \in 1 .. Len(queue'), i < j
               PROVE  askedAt[queue'[i]] < askedAt[queue'[j]]
    BY DEF QueueInv
  <2>1. /\ i + 1 \in 1 .. Len(queue) /\ queue'[i] = queue[i + 1]
        /\ j + 1 \in 1 .. Len(queue) /\ queue'[j] = queue[j + 1]
        /\ i + 1 < j + 1
    BY <1>1 DEF TypeOK
  <2> QED
    BY <2>1 DEF QueueInv
<1>10. UnsentIsUnsent'
  BY <1>1, <1>2, <1>3 DEF UnsentIsUnsent, TypeOK, UnsentOutcomes, SentOutcomes
<1>11. SentInOrder'
  <2> SUFFICES ASSUME NEW x \in Calls, NEW d \in Calls,
                      sentAt'[x] > 0, 0 < askedAt[d], askedAt[d] < askedAt[x]
               PROVE  status'[d] # "waiting" /\ sentAt'[d] < sentAt'[x]
    BY DEF SentInOrder
  <2>1. CASE x = h
    <3>1. d # h /\ status[d] # "waiting"
      <4>1. \A i \in 1 .. Len(queue) : queue[i] # d
        BY <1>1, <1>4, <2>1 DEF TypeOK
      <4> QED
        BY <1>1, <2>1, <4>1 DEF StatusInv, TypeOK
    <3>2. sentAt'[d] <= now
      BY <1>1, <1>2, <3>1 DEF StampInv, TypeOK
    <3>3. sentAt'[x] = now + 1
      BY <1>1, <1>2, <2>1 DEF TypeOK
    <3> QED
      BY <1>1, <1>2, <3>1, <3>2, <3>3 DEF TypeOK
  <2>2. CASE x # h
    <3>1. sentAt[x] > 0 /\ sentAt'[x] = sentAt[x]
      BY <1>1, <1>2, <2>2 DEF TypeOK
    <3>2. status[d] # "waiting" /\ sentAt[d] < sentAt[x]
      BY <3>1 DEF SentInOrder
    <3>3. d # h
      BY <1>3, <3>2
    <3> QED
      BY <1>1, <1>2, <3>1, <3>2, <3>3 DEF TypeOK
  <2> QED
    BY <2>1, <2>2
<1>12. OnlyDeepQueueTimesOut'
  BY <1>1, <1>2, <1>3, ReasonStays DEF TypeOK
<1> QED
  BY <1>5, <1>6, <1>7, <1>8, <1>9, <1>10, <1>11, <1>12

LEMMA ReleaseToNobodyStep ==
    ASSUME IInv, NEW c \in Calls, ReleaseToNobody(c)
    PROVE  IInv'
<1> USE DEF IInv, ReleaseToNobody
<1>1. TypeOK'
  BY DEF TypeOK
<1>2. LaneInv'
  BY DEF LaneInv, StatusInv, TypeOK, Settled, SentOutcomes, UnsentOutcomes
<1>3. StatusInv' /\ StampInv' /\ QueueInv'
  BY DEF StatusInv, StampInv, QueueInv
<1>4. UnsentIsUnsent' /\ SentInOrder' /\ OnlyDeepQueueTimesOut'
  BY DEF UnsentIsUnsent, SentInOrder, OnlyDeepQueueTimesOut
<1> QED
  BY <1>1, <1>2, <1>3, <1>4

(***************************************************************************)
(* clearPending                                                            *)
(***************************************************************************)
LEMMA ClearPendingStep ==
    ASSUME IInv, ClearPending
    PROVE  IInv'
<1> USE DEF IInv, ClearPending
<1>1. /\ \A c \in Calls : c \in ToSet(queue) <=> status[c] = "waiting"
      /\ \A c \in Calls : c \in pending <=> status[c] = "out"
  <2>1. DOMAIN queue = 1 .. Len(queue)
    BY DEF TypeOK
  <2> QED
    BY <2>1 DEF ToSet, StatusInv
<1>2. \A c \in Calls :
         status'[c] = CASE status[c] = "out"     -> "closedWhileOut"
                        [] status[c] = "waiting" -> "closedUnsent"
                        [] OTHER                 -> status[c]
  BY <1>1
<1>3. TypeOK'
  <2>1. status' \in [Calls -> Statuses]
    BY <1>2 DEF TypeOK, Statuses, Settled, SentOutcomes, UnsentOutcomes
  <2> QED
    BY <2>1 DEF TypeOK
<1>4. LaneInv'
  BY DEF LaneInv, Idle
<1>5. StatusInv'
  <2>1. /\ 1 .. Len(queue') = {}
        /\ pending' = {}
        /\ \A c \in releasing' : c \in Calls /\ status[c] = "out"
    BY <1>1 DEF Idle, TypeOK
  <2> QED
    BY <1>2, <2>1 DEF StatusInv, Settled, SentOutcomes
<1>6. StampInv'
  BY <1>2 DEF StampInv
<1>7. QueueInv'
  BY DEF QueueInv
<1>8. UnsentIsUnsent'
  BY <1>2 DEF UnsentIsUnsent, StampInv, TypeOK, UnsentOutcomes, SentOutcomes
<1>9. SentInOrder'
  BY <1>2 DEF SentInOrder
<1>10. OnlyDeepQueueTimesOut'
  BY <1>2, ReasonStays
<1> QED
  BY <1>3, <1>4, <1>5, <1>6, <1>7, <1>8, <1>9, <1>10

(***************************************************************************)
(* The invariant holds in every reachable state.                           *)
(***************************************************************************)
LEMMA StepIInv == IInv /\ [Next]_vars => IInv'
<1> SUFFICES ASSUME IInv, [Next]_vars PROVE IInv'
  OBVIOUS
<1>1. ASSUME NEW c \in Calls, SendCallClosed(c) PROVE IInv'
  BY <1>1, SendCallClosedStep
<1>2. ASSUME NEW c \in Calls, SendCallNow(c) PROVE IInv'
  BY <1>2, SendCallNowStep
<1>3. ASSUME NEW c \in Calls, SendCallQueued(c) PROVE IInv'
  BY <1>3, SendCallQueuedStep
<1>4. ASSUME NEW c \in Calls,
             NEW o \in Answers, HandleResponse(c, o)
      PROVE  IInv'
  BY <1>4, SettlesStep DEF HandleResponse, Answers, SentOutcomes
<1>5. ASSUME NEW c \in Calls, ResponseTimeout(c) PROVE IInv'
  BY <1>5, SettlesStep DEF ResponseTimeout, ResponseTimer, SentOutcomes
<1>6. ASSUME NEW c \in Calls, SendFailed(c) PROVE IInv'
  BY <1>6, SettlesStep DEF SendFailed, SentOutcomes
<1>7. ASSUME NEW i \in DOMAIN queue, QueueTimeout(i) PROVE IInv'
  BY <1>7, QueueTimeoutStep
<1>8. ASSUME NEW c \in Calls, ReleaseToNext(c) PROVE IInv'
  BY <1>8, ReleaseToNextStep
<1>9. ASSUME NEW c \in Calls, ReleaseToNobody(c) PROVE IInv'
  BY <1>9, ReleaseToNobodyStep
<1>10. CASE ClearPending
  BY <1>10, ClearPendingStep
<1>11. CASE UNCHANGED vars
  BY <1>11 DEF vars, IInv, TypeOK, LaneInv, StatusInv, StampInv, QueueInv, UnsentIsUnsent,
               SentInOrder, OnlyDeepQueueTimesOut
<1> QED
  BY <1>1, <1>2, <1>3, <1>4, <1>5, <1>6, <1>7, <1>8, <1>9, <1>10, <1>11 DEF Next

LEMMA Inductive == Spec => []IInv
<1> QED
  BY InitIInv, StepIInv, PTL DEF Spec

\* Every variable of the lane stays in its range.
THEOREM TypeCorrect == Spec => []TypeOK
<1>1. IInv => TypeOK
  BY DEF IInv
<1> QED
  BY <1>1, Inductive, PTL

\* The station never has two CALLs of the server open.
THEOREM OneOutstandingHolds == Spec => []OneOutstanding
<1>1. IInv => OneOutstanding
  BY DEF IInv, LaneInv, OneOutstanding
<1> QED
  BY <1>1, Inductive, PTL

\* The lane is never lost, and nothing stays in it after a close.
THEOREM LaneNeverLost == Spec => [](NoLostHandOver /\ NothingAfterClose)
<1>1. IInv => NoLostHandOver /\ NothingAfterClose
  BY DEF IInv, LaneInv, NoLostHandOver, NothingAfterClose
<1> QED
  BY <1>1, Inductive, PTL

\* CALLs go out in the order they were made, and a CALL reported as never
\* sent was never sent.
THEOREM OrderAndHonesty == Spec => [](SentInOrder /\ UnsentIsUnsent)
<1>1. IInv => SentInOrder /\ UnsentIsUnsent
  BY DEF IInv
<1> QED
  BY <1>1, Inductive, PTL

\* The CALL directly behind the outstanding one always gets its turn.
THEOREM FirstInQueueIsServed == Spec => []OnlyDeepQueueTimesOut
<1>1. IInv => OnlyDeepQueueTimesOut
  BY DEF IInv
<1> QED
  BY <1>1, Inductive, PTL

\* No step changes the verdict a caller was given.
THEOREM VerdictStays == Spec => VerdictIsFinal
<1> DEFINE Keeps == \A c \in Calls : status[c] \in Settled => status'[c] = status[c]
<1>1. IInv /\ [Next]_vars => [Keeps]_vars
  <2> SUFFICES ASSUME IInv, Next, NEW c \in Calls, status[c] \in Settled
               PROVE  status'[c] = status[c]
    BY DEF Keeps
  <2> USE DEF IInv, Settled, SentOutcomes, UnsentOutcomes
  <2>1. status[c] \notin {"new", "waiting", "out"} /\ c \notin pending
    BY DEF StatusInv
  <2>2. \A i \in DOMAIN queue : queue[i] # c
    <3>1. DOMAIN queue = 1 .. Len(queue)
      BY DEF TypeOK
    <3> QED
      BY <2>1, <3>1 DEF StatusInv
  <2>3. ASSUME NEW x \in Calls,
               \/ SendCallClosed(x)
               \/ SendCallNow(x)
               \/ SendCallQueued(x)
        PROVE  status'[c] = status[c]
    BY <2>1, <2>3 DEF TypeOK, SendCallClosed, SendCallNow, SendCallQueued, Transmits
  <2>4. ASSUME NEW x \in Calls,
               \/ \E o \in Answers : HandleResponse(x, o)
               \/ ResponseTimeout(x)
               \/ SendFailed(x)
        PROVE  status'[c] = status[c]
    BY <2>1, <2>4 DEF TypeOK, HandleResponse, Answers, ResponseTimeout, ResponseTimer, SendFailed, Settles
  <2>5. ASSUME NEW x \in Calls, ReleaseToNext(x) PROVE status'[c] = status[c]
    <3>1. queue # <<>> /\ status' = [status EXCEPT ![Head(queue)] = "out"]
      BY <2>5 DEF ReleaseToNext, Transmits
    <3>2. Head(queue) = queue[1] /\ 1 \in DOMAIN queue
      BY <3>1 DEF TypeOK
    <3> QED
      BY <2>2, <3>1, <3>2 DEF TypeOK
  <2>6. ASSUME NEW x \in Calls, ReleaseToNobody(x) PROVE status'[c] = status[c]
    BY <2>6 DEF ReleaseToNobody
  <2>7. ASSUME NEW i \in DOMAIN queue, QueueTimeout(i) PROVE status'[c] = status[c]
    BY <2>2, <2>7 DEF TypeOK, QueueTimeout
  <2>8. ASSUME ClearPending PROVE status'[c] = status[c]
    <3>1. c \notin ToSet(queue)
      BY <2>2 DEF ToSet
    <3> QED
      BY <2>1, <2>8, <3>1 DEF ClearPending
  <2> QED
    BY <2>3, <2>4, <2>5, <2>6, <2>7, <2>8 DEF Next
<1> QED
  BY <1>1, Inductive, PTL DEF Spec, VerdictIsFinal

(***************************************************************************)
(* Refinement: the lane implements OutboundCalls.                          *)
(***************************************************************************)
LEMMA InitRefines == Init => Promise!OCInit
<1> SUFFICES ASSUME Init PROVE Promise!OCInit
  OBVIOUS
<1>1. Heard = {} /\ Verdict = [c \in Calls |-> "new"]
  BY DEF Init, Heard, Verdict
<1> QED
  BY <1>1 DEF Init, Promise!OCInit

\* How the verdict the callers see follows the status of one CALL.
LEMMA VerdictFollows ==
    ASSUME TypeOK, NEW c \in Calls, NEW o \in Statuses,
           status' = [status EXCEPT ![c] = o]
    PROVE  Verdict' = [Verdict EXCEPT ![c] =
                          CASE o = "new"                -> "new"
                            [] o \in {"waiting", "out"} -> "open"
                            [] OTHER                    -> "settled"]
<1>1. \A x \in Calls : status'[x] = IF x = c THEN o ELSE status[x]
  BY DEF TypeOK
<1> QED
  BY <1>1 DEF Verdict

LEMMA VerdictSettles ==
    ASSUME TypeOK, NEW c \in Calls, NEW o \in Settled,
           status' = [status EXCEPT ![c] = o]
    PROVE  Verdict' = [Verdict EXCEPT ![c] = "settled"]
<1>1. o \in Statuses /\ o \notin {"new", "waiting", "out"}
  BY DEF Statuses, Settled, SentOutcomes, UnsentOutcomes
<1> QED
  BY <1>1, VerdictFollows

LEMMA HeardFollows ==
    ASSUME TypeOK, NEW c \in Calls, sentAt' = [sentAt EXCEPT ![c] = now + 1]
    PROVE  Heard' = Heard \union {c}
<1>1. \A x \in Calls : sentAt'[x] = IF x = c THEN now + 1 ELSE sentAt[x]
  BY DEF TypeOK
<1>2. now + 1 > 0
  BY DEF TypeOK
<1> QED
  BY <1>1, <1>2 DEF Heard

LEMMA SettleRefines ==
    ASSUME IInv, Idle, NEW c \in pending, NEW o \in SentOutcomes, Settles(c, o),
           UNCHANGED <<queue, sentAt>>
    PROVE  Promise!Settle(c)
<1>1. c \in Calls /\ pending' = {}
  BY DEF IInv, TypeOK, LaneInv, Settles
<1>2. o \in Settled /\ status' = [status EXCEPT ![c] = o]
  BY DEF Settled, Settles
<1>3. Verdict' = [Verdict EXCEPT ![c] = "settled"]
  BY <1>1, <1>2, VerdictSettles DEF IInv
<1>4. Heard' = Heard
  BY DEF Heard
<1> QED
  BY <1>1, <1>3, <1>4 DEF Promise!Settle

LEMMA StepRefines == IInv /\ [Next]_vars => [Promise!OCNext]_(Promise!ocVars)
<1> SUFFICES ASSUME IInv, [Next]_vars
             PROVE  [Promise!OCNext]_(Promise!ocVars)
  OBVIOUS
<1>0. TypeOK
  BY DEF IInv
<1>1. ASSUME NEW c \in Calls, SendCallClosed(c) PROVE Promise!Refuse(c)
  <2>1. Verdict' = [Verdict EXCEPT ![c] = "settled"]
    BY <1>0, <1>1, VerdictSettles DEF SendCallClosed, Settled, UnsentOutcomes
  <2>2. Verdict[c] = "new" /\ Heard' = Heard
    BY <1>1 DEF SendCallClosed, Verdict, Heard
  <2> QED
    BY <1>1, <2>1, <2>2 DEF SendCallClosed, Promise!Refuse
<1>2. ASSUME NEW c \in Calls, SendCallNow(c) PROVE Promise!HandOverAndTransmit(c)
  <2>1. queue = <<>> /\ pending = {}
    BY <1>2 DEF IInv, LaneInv, SendCallNow
  <2>2. Verdict[c] = "new" /\ Verdict' = [Verdict EXCEPT ![c] = "open"]
    BY <1>0, <1>2, VerdictFollows DEF SendCallNow, Transmits, Verdict, Statuses
  <2>3. Heard' = Heard \union {c}
    BY <1>0, <1>2, HeardFollows DEF SendCallNow, Transmits
  <2> QED
    BY <1>2, <2>1, <2>2, <2>3 DEF SendCallNow, Transmits, Promise!HandOverAndTransmit
<1>3. ASSUME NEW c \in Calls, SendCallQueued(c) PROVE Promise!HandOver(c)
  <2>1. Verdict[c] = "new" /\ Verdict' = [Verdict EXCEPT ![c] = "open"] /\ Heard' = Heard
    BY <1>0, <1>3, VerdictFollows DEF SendCallQueued, Verdict, Heard, Statuses
  <2> QED
    BY <1>3, <2>1 DEF SendCallQueued, Promise!HandOver
<1>4. ASSUME NEW c \in Calls,
             \/ \E o \in Answers : HandleResponse(c, o)
             \/ ResponseTimeout(c)
             \/ SendFailed(c)
      PROVE  Promise!Settle(c)
  BY <1>4, SettleRefines
     DEF HandleResponse, ResponseTimeout, ResponseTimer, SendFailed, Answers, SentOutcomes
<1>5. ASSUME NEW i \in DOMAIN queue, QueueTimeout(i) PROVE Promise!Drop(i)
  <2>1. queue[i] \in Calls
    BY <1>0 DEF TypeOK
  <2>2. Verdict' = [Verdict EXCEPT ![queue[i]] = "settled"]
    BY <1>0, <1>5, <2>1, VerdictSettles DEF QueueTimeout, Settled, UnsentOutcomes
  <2>3. Heard' = Heard
    BY <1>5 DEF QueueTimeout, Heard
  <2>4. i \in DOMAIN queue /\ queue' = RemoveAt(queue, i) /\ pending' = pending
    BY <1>5 DEF QueueTimeout
  <2> QED
    BY <2>2, <2>3, <2>4, Zenon DEF Promise!Drop, Promise!RemoveAt, RemoveAt
<1>6. ASSUME NEW c \in Calls, ReleaseToNext(c) PROVE Promise!Transmit
  <2> DEFINE h == Head(queue)
  <2>1. h \in Calls /\ h = queue[1] /\ 1 \in 1 .. Len(queue)
    BY <1>0, <1>6 DEF TypeOK, ReleaseToNext
  <2>2. status[h] = "waiting" /\ status[c] \in Settled
    BY <1>6, <2>1 DEF IInv, StatusInv, ReleaseToNext
  <2>3. pending = {}
    BY <1>6, <2>2 DEF IInv, LaneInv, StatusInv, ReleaseToNext, Settled, SentOutcomes, UnsentOutcomes
  <2>4. /\ status' = [status EXCEPT ![h] = "out"]
        /\ sentAt' = [sentAt EXCEPT ![h] = now + 1]
        /\ pending' = pending \union {h}
        /\ queue # <<>> /\ queue' = Tail(queue)
    BY <1>6 DEF ReleaseToNext, Transmits
  <2> HIDE DEF h
  <2>5. Verdict' = [Verdict EXCEPT ![h] = "open"] /\ Heard' = Heard \union {h}
    BY <1>0, <2>1, <2>4, VerdictFollows, HeardFollows DEF Statuses
  <2>6. Verdict' = Verdict
    BY <2>1, <2>2, <2>5 DEF Verdict
  <2> QED
    BY <2>3, <2>4, <2>5, <2>6 DEF Promise!Transmit, h
<1>7. ASSUME NEW c \in Calls, ReleaseToNobody(c) PROVE UNCHANGED Promise!ocVars
  BY <1>7 DEF ReleaseToNobody, Promise!ocVars, Verdict, Heard
<1>8. ASSUME ClearPending PROVE Promise!HangUp
  <2>1. Verdict' = [c \in Calls |->
                     IF c \in pending \/ c \in ToSet(queue) THEN "settled" ELSE Verdict[c]]
    BY <1>8 DEF ClearPending, Verdict
  <2>2. Heard' = Heard
    BY <1>8 DEF ClearPending, Heard
  <2>3. queue' = <<>> /\ pending' = {}
    BY <1>8 DEF ClearPending
  <2> QED
    BY <2>1, <2>2, <2>3, Zenon DEF Promise!HangUp, Promise!ToSet, ToSet
<1>9. ASSUME UNCHANGED vars PROVE UNCHANGED Promise!ocVars
  BY <1>9 DEF vars, Promise!ocVars, Verdict, Heard
<1> QED
  BY <1>1, <1>2, <1>3, <1>4, <1>5, <1>6, <1>7, <1>8, <1>9 DEF Next, Promise!OCNext

\* The lane does for its callers what OutboundCalls says: one open CALL, in
\* order, one verdict each, and a dropped CALL is never transmitted.
THEOREM Refinement == Spec => ImplementsPromise
<1> QED
  BY Inductive, InitRefines, StepRefines, PTL DEF Spec, ImplementsPromise, Promise!OCSpec
=============================================================================
