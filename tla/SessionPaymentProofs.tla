------------------------- MODULE SessionPaymentProofs -------------------------
(***************************************************************************)
(* TLAPS proofs about SessionPayment, for every hold, all costs and every  *)
(* bound: every value keeps its type; no interleaving of the settlement,   *)
(* the operator, the retries and the webhooks lets a refund overtake the   *)
(* capture it gives back, or separates the record from what the provider   *)
(* took without a log line; and what the record counts as refunded, the    *)
(* provider has given back.  A fact about the sum over every finite set is *)
(* proved by induction on the set, as the absence of a least               *)
(* counterexample under the strict subset order (Induct).                  *)
(***************************************************************************)
EXTENDS SessionPayment, FiniteSetTheorems, TLAPS

\* Induction over a finite set, stated without an operator: a family of sets
\* that has the empty set, and a set whenever it has the set less one element.
LEMMA Induct ==
  ASSUME NEW S, IsFiniteSet(S), NEW F, {} \in F,
         \A T \in SUBSET S : T # {} /\ (\A x \in T : T \ {x} \in F) => T \in F
  PROVE  S \in F
<1> SUFFICES ASSUME S \notin F PROVE FALSE
  OBVIOUS
<1> DEFINE Bad == {T \in SUBSET S : T \notin F}
<1>1. Bad \subseteq FiniteSubsetsOf(S) /\ Bad # {}
  BY FS_Subset DEF FiniteSubsetsOf
<1>2. PICK T \in Bad : \A U \in Bad : <<U, T>> \notin StrictSubsetOrdering(S)
  <2> HIDE DEF Bad
  <2> QED
    BY <1>1, FS_StrictSubsetOrderingWellFounded, WFMin
<1>3. PICK x \in T : T \ {x} \notin F
  OBVIOUS
<1>4. T \ {x} \in Bad
  BY <1>3
<1>5. <<T \ {x}, T>> \in StrictSubsetOrdering(S)
  BY <1>3 DEF StrictSubsetOrdering
<1> QED
  BY <1>2, <1>4, <1>5

Pick(s) == CHOOSE x \in s : TRUE

\* One step of the sum over s, which starts with the element picked first.
FirstPlus(w, g, s) == IF s = {} THEN 0 ELSE w[Pick(s)] + g[s \ {Pick(s)}]

\* g holds the sums of the weights over all subsets of S.
Sums(w, S, g) == g = [s \in SUBSET S |-> FirstPlus(w, g, s)]

LEMMA PickIs == \A s : s # {} => Pick(s) \in s
BY DEF Pick

LEMMA SumsExist ==
  ASSUME NEW S, IsFiniteSet(S), NEW w
  PROVE  \E g : Sums(w, S, g)
<1> DEFINE Level(n) == {s \in SUBSET S : Cardinality(s) <= n}
           Ok(g, n) == g = [s \in Level(n) |-> FirstPlus(w, g, s)]
           F == {T \in SUBSET S : \E g : Ok(g, Cardinality(T))}
<1>0. \A s \in SUBSET S : IsFiniteSet(s) /\ Cardinality(s) \in Nat /\ Cardinality(s) <= Cardinality(S)
  BY FS_Subset, FS_CardinalityType
<1>1. {} \in F
  <2>1. \A s \in SUBSET S : Cardinality(s) <= 0 <=> s = {}
    BY <1>0, FS_EmptySet
  <2> DEFINE g == [s \in Level(0) |-> 0]
  <2>2. Level(0) = {{}}
    BY <2>1
  <2>3. Ok(g, 0)
    BY <2>2 DEF FirstPlus
  <2> QED
    BY <2>3, FS_EmptySet
<1>2. ASSUME NEW T \in SUBSET S, T # {}, \A y \in T : T \ {y} \in F
      PROVE  T \in F
  <2>0. PICK x \in T : T \ {x} \in F
    BY <1>2
  <2> DEFINE n == Cardinality(T \ {x})
  <2>1. PICK g : Ok(g, n)
    BY <2>0
  <2>2. Cardinality(T) = n + 1 /\ n \in Nat
    BY <1>0, FS_RemoveElement
  <2> DEFINE h == [s \in Level(n + 1) |-> IF Cardinality(s) <= n THEN g[s] ELSE FirstPlus(w, g, s)]
  <2>3. \A s \in Level(n + 1) : s # {} => s \ {Pick(s)} \in Level(n)
    <3> SUFFICES ASSUME NEW s \in Level(n + 1), s # {}
                 PROVE  s \ {Pick(s)} \in Level(n)
      OBVIOUS
    <3>1. Pick(s) \in s /\ IsFiniteSet(s)
      BY <1>0, PickIs
    <3>2. Cardinality(s \ {Pick(s)}) = Cardinality(s) - 1 /\ Cardinality(s) \in Nat
      BY <1>0, <3>1, FS_RemoveElement
    <3> QED
      BY <2>2, <3>2
  <2>4. \A s \in Level(n) : s \in Level(n + 1) /\ h[s] = g[s]
    BY <1>0, <2>2
  <2>5. ASSUME NEW s \in Level(n + 1)
        PROVE  h[s] = FirstPlus(w, h, s)
    <3>1. CASE s \in Level(n)
      <4>1. g[s] = FirstPlus(w, g, s)
        BY <2>1, <3>1
      <4>2. s # {} => h[s \ {Pick(s)}] = g[s \ {Pick(s)}]
        BY <2>3, <2>4, <2>5
      <4> QED
        BY <2>4, <3>1, <4>1, <4>2 DEF FirstPlus
    <3>2. CASE s \notin Level(n)
      <4>1. h[s] = FirstPlus(w, g, s)
        BY <2>5, <3>2
      <4>2. s # {} => h[s \ {Pick(s)}] = g[s \ {Pick(s)}]
        BY <2>3, <2>4, <2>5
      <4> QED
        BY <4>1, <4>2 DEF FirstPlus
    <3> QED
      BY <3>1, <3>2
  <2>6. Ok(h, n + 1)
    BY <2>5
  <2> QED
    BY <2>2, <2>6
<1>3. S \in F
  <2> HIDE DEF F
  <2> QED
    BY <1>1, <1>2, Induct
<1>4. PICK g : Ok(g, Cardinality(S))
  BY <1>3
<1>5. Level(Cardinality(S)) = SUBSET S
  BY <1>0
<1> QED
  BY <1>4, <1>5 DEF Sums

LEMMA TotalIs ==
  ASSUME NEW w, NEW S
  PROVE  Total(w, S) = (CHOOSE g : Sums(w, S, g))[S]
BY DEF Total, SumFunctionOnSet, FoldFunctionOnSet, MapThenFoldSet, Sums, FirstPlus, Pick

LEMMA SumsAgree ==
  ASSUME NEW S, IsFiniteSet(S), NEW T \in SUBSET S, NEW w, NEW g, NEW h,
         Sums(w, S, g), Sums(w, T, h)
  PROVE  g[T] = h[T]
<1> DEFINE F == {U \in SUBSET T : g[U] = h[U]}
<1>1. \A U \in SUBSET T : g[U] = FirstPlus(w, g, U) /\ h[U] = FirstPlus(w, h, U)
  BY DEF Sums
<1>2. {} \in F
  BY <1>1 DEF FirstPlus
<1>3. ASSUME NEW U \in SUBSET T, U # {}, \A x \in U : U \ {x} \in F
      PROVE  U \in F
  BY <1>1, <1>3, PickIs DEF FirstPlus
<1>4. IsFiniteSet(T)
  BY FS_Subset
<1>5. T \in F
  <2> HIDE DEF F
  <2> QED
    BY <1>2, <1>3, <1>4, Induct
<1> QED
  BY <1>5

LEMMA TotalEmpty ==
  ASSUME NEW w
  PROVE  Total(w, {}) = 0
<1>1. \E g : Sums(w, {}, g)
  BY SumsExist, FS_EmptySet
<1>2. (CHOOSE g : Sums(w, {}, g))[{}] = 0
  BY <1>1 DEF Sums, FirstPlus
<1> QED
  BY <1>2, TotalIs

LEMMA TotalPick ==
  ASSUME NEW S, IsFiniteSet(S), S # {}, NEW w
  PROVE  Total(w, S) = w[Pick(S)] + Total(w, S \ {Pick(S)})
<1> DEFINE T == S \ {Pick(S)}
           g == CHOOSE f : Sums(w, S, f)
           h == CHOOSE f : Sums(w, T, f)
<1>1. IsFiniteSet(T) /\ T \in SUBSET S
  BY FS_Subset
<1>2. Sums(w, S, g) /\ Sums(w, T, h)
  BY <1>1, SumsExist
<1>3. Total(w, S) = g[S] /\ Total(w, T) = h[T]
  BY TotalIs
<1>4. g[S] = w[Pick(S)] + g[T]
  BY <1>2 DEF Sums, FirstPlus
<1> HIDE DEF g, h
<1>5. g[T] = h[T]
  BY <1>1, <1>2, SumsAgree
<1> QED
  BY <1>3, <1>4, <1>5

LEMMA TotalInt ==
  ASSUME NEW S, IsFiniteSet(S), NEW w, \A x \in S : w[x] \in Int
  PROVE  Total(w, S) \in Int
<1> DEFINE F == {T \in SUBSET S : Total(w, T) \in Int}
<1>1. {} \in F
  BY TotalEmpty
<1>2. ASSUME NEW T \in SUBSET S, T # {}, \A x \in T : T \ {x} \in F
      PROVE  T \in F
  <2>1. IsFiniteSet(T) /\ Pick(T) \in T
    BY <1>2, FS_Subset, PickIs
  <2>2. Total(w, T) = w[Pick(T)] + Total(w, T \ {Pick(T)})
    BY <1>2, <2>1, TotalPick
  <2> QED
    BY <1>2, <2>1, <2>2
<1>3. S \in F
  <2> HIDE DEF F
  <2> QED
    BY <1>1, <1>2, Induct
<1> QED
  BY <1>3

LEMMA TotalRemove ==
  ASSUME NEW S, IsFiniteSet(S), NEW w, \A y \in S : w[y] \in Int, NEW x \in S
  PROVE  Total(w, S) = w[x] + Total(w, S \ {x})
<1> DEFINE F == {T \in SUBSET S : \A y \in T : Total(w, T) = w[y] + Total(w, T \ {y})}
<1>1. {} \in F
  OBVIOUS
<1>2. ASSUME NEW T \in SUBSET S, T # {}, \A y \in T : T \ {y} \in F
      PROVE  T \in F
  <2> DEFINE p == Pick(T)
  <2>1. IsFiniteSet(T) /\ p \in T
    BY <1>2, FS_Subset, PickIs
  <2>2. Total(w, T) = w[p] + Total(w, T \ {p})
    BY <1>2, <2>1, TotalPick
  <2> HIDE DEF p
  <2>3. ASSUME NEW y \in T, y # p
        PROVE  Total(w, T) = w[y] + Total(w, T \ {y})
    <3>1. Total(w, T \ {p}) = w[y] + Total(w, (T \ {p}) \ {y})
      BY <1>2, <2>1, <2>3
    <3>2. Total(w, T \ {y}) = w[p] + Total(w, (T \ {y}) \ {p})
      BY <1>2, <2>1, <2>3
    <3>3. (T \ {p}) \ {y} = (T \ {y}) \ {p}
      OBVIOUS
    <3>4. Total(w, (T \ {p}) \ {y}) \in Int
      <4>1. IsFiniteSet((T \ {p}) \ {y})
        BY <2>1, FS_Subset
      <4> QED
        BY <4>1, TotalInt
    <3>5. w[y] \in Int /\ w[p] \in Int
      BY <2>1
    <3>6. Total(w, (T \ {y}) \ {p}) = Total(w, (T \ {p}) \ {y})
      BY <3>3
    <3> QED
      BY <2>2, <3>1, <3>2, <3>4, <3>5, <3>6
  <2> QED
    BY <2>1, <2>2, <2>3
<1>3. S \in F
  <2> HIDE DEF F
  <2> QED
    BY <1>1, <1>2, Induct
<1> QED
  BY <1>3

LEMMA TotalMono ==
  ASSUME NEW S, IsFiniteSet(S), NEW w, NEW v,
         \A x \in S : w[x] \in Int /\ v[x] \in Int /\ w[x] <= v[x]
  PROVE  Total(w, S) <= Total(v, S)
<1> DEFINE F == {T \in SUBSET S : Total(w, T) <= Total(v, T)}
<1>1. {} \in F
  BY TotalEmpty
<1>2. ASSUME NEW T \in SUBSET S, T # {}, \A x \in T : T \ {x} \in F
      PROVE  T \in F
  <2>1. IsFiniteSet(T) /\ Pick(T) \in T /\ IsFiniteSet(T \ {Pick(T)})
    BY <1>2, FS_Subset, PickIs
  <2>2. /\ Total(w, T) = w[Pick(T)] + Total(w, T \ {Pick(T)})
        /\ Total(v, T) = v[Pick(T)] + Total(v, T \ {Pick(T)})
    BY <1>2, <2>1, TotalPick
  <2>3. Total(w, T \ {Pick(T)}) \in Int /\ Total(v, T \ {Pick(T)}) \in Int
    BY <2>1, TotalInt
  <2>4. Total(w, T \ {Pick(T)}) <= Total(v, T \ {Pick(T)})
    BY <1>2, <2>1
  <2> QED
    BY <2>1, <2>2, <2>3, <2>4
<1>3. S \in F
  <2> HIDE DEF F
  <2> QED
    BY <1>1, <1>2, Induct
<1> QED
  BY <1>3

LEMMA TotalZero ==
  ASSUME NEW S, IsFiniteSet(S), NEW w, \A x \in S : w[x] = 0
  PROVE  Total(w, S) = 0
<1> DEFINE F == {T \in SUBSET S : Total(w, T) = 0}
<1>1. {} \in F
  BY TotalEmpty
<1>2. ASSUME NEW T \in SUBSET S, T # {}, \A x \in T : T \ {x} \in F
      PROVE  T \in F
  <2>1. IsFiniteSet(T) /\ Pick(T) \in T
    BY <1>2, FS_Subset, PickIs
  <2>2. Total(w, T) = w[Pick(T)] + Total(w, T \ {Pick(T)})
    BY <1>2, <2>1, TotalPick
  <2>3. Total(w, T \ {Pick(T)}) = 0 /\ w[Pick(T)] = 0
    BY <1>2, <2>1
  <2> QED
    BY <2>2, <2>3
<1>3. S \in F
  <2> HIDE DEF F
  <2> QED
    BY <1>1, <1>2, Induct
<1> QED
  BY <1>3

\* ... and so does the sum of other weights that agree on the set.
LEMMA TotalSame ==
  ASSUME NEW S, IsFiniteSet(S), NEW w, NEW v, \A x \in S : w[x] \in Int /\ w[x] = v[x]
  PROVE  Total(w, S) = Total(v, S)
<1>1. Total(w, S) \in Int /\ Total(v, S) \in Int
  BY TotalInt
<1> QED
  BY <1>1, TotalMono

LEMMA TotalNat ==
  ASSUME NEW S, IsFiniteSet(S), NEW w, \A x \in S : w[x] \in Nat
  PROVE  Total(w, S) \in Nat
<1> DEFINE zero == [x \in S |-> 0]
<1>1. Total(zero, S) = 0 /\ Total(w, S) \in Int
  BY TotalZero, TotalInt
<1>2. \A x \in S : zero[x] \in Int /\ zero[x] <= w[x]
  OBVIOUS
<1> HIDE DEF zero
<1>3. Total(zero, S) <= Total(w, S)
  BY <1>2, TotalMono
<1> QED
  BY <1>1, <1>3

LEMMA TotalSubset ==
  ASSUME NEW S, IsFiniteSet(S), NEW w, \A x \in S : w[x] \in Nat, NEW U \in SUBSET S
  PROVE  Total(w, U) <= Total(w, S)
<1> DEFINE F == {T \in SUBSET S : Total(w, T \cap U) <= Total(w, T)}
<1>1. {} \in F
  BY TotalEmpty
<1>2. ASSUME NEW T \in SUBSET S, T # {}, \A x \in T : T \ {x} \in F
      PROVE  T \in F
  <2>0. PICK x \in T : TRUE
    BY <1>2
  <2>1. IsFiniteSet(T) /\ IsFiniteSet(T \cap U) /\ IsFiniteSet(T \ {x}) /\ IsFiniteSet((T \ {x}) \cap U)
    BY FS_Subset
  <2>2. Total(w, T) = w[x] + Total(w, T \ {x})
    BY <2>0, <2>1, TotalRemove
  <2>3. Total(w, T \ {x}) \in Nat /\ Total(w, (T \ {x}) \cap U) \in Nat
    BY <2>1, TotalNat
  <2>4. Total(w, (T \ {x}) \cap U) <= Total(w, T \ {x})
    BY <1>2, <2>0
  <2>5. CASE x \in U
    <3>1. (T \cap U) \ {x} = (T \ {x}) \cap U /\ x \in T \cap U
      BY <2>5
    <3>2. Total(w, T \cap U) = w[x] + Total(w, (T \ {x}) \cap U)
      BY <2>1, <3>1, TotalRemove
    <3> QED
      BY <2>0, <2>2, <2>3, <2>4, <3>2
  <2>6. CASE x \notin U
    <3>1. T \cap U = (T \ {x}) \cap U
      BY <2>6
    <3>2. Total(w, T \cap U) = Total(w, (T \ {x}) \cap U) /\ w[x] \in Nat
      BY <2>0, <3>1
    <3> QED
      BY <2>2, <2>3, <2>4, <3>2
  <2> QED
    BY <2>5, <2>6
<1>3. S \in F
  <2> HIDE DEF F
  <2> QED
    BY <1>1, <1>2, Induct
<1>4. S \cap U = U
  OBVIOUS
<1> QED
  BY <1>3, <1>4

\* One weight less, or more.
LEMMA TotalChange ==
  ASSUME NEW S, IsFiniteSet(S), NEW w, NEW v, NEW x \in S,
         \A y \in S : w[y] \in Int /\ v[y] \in Int,
         \A y \in S \ {x} : v[y] = w[y]
  PROVE  Total(v, S) = Total(w, S) + v[x] - w[x]
<1>1. IsFiniteSet(S \ {x})
  BY FS_Subset
<1>2. Total(v, S) = v[x] + Total(v, S \ {x}) /\ Total(w, S) = w[x] + Total(w, S \ {x})
  BY TotalRemove
<1>3. Total(v, S \ {x}) = Total(w, S \ {x}) /\ Total(w, S \ {x}) \in Int
  BY <1>1, TotalSame, TotalInt
<1> QED
  BY <1>2, <1>3

LEMMA SumIs ==
  ASSUME NEW S, IsFiniteSet(S)
  PROVE  Sum(S) = Total([r \in S |-> r.amount], S)
<1> DEFINE w == [r \in S |-> r.amount]
           P(g) == g = [s \in SUBSET S |-> IF s = {} THEN 0 ELSE Pick(s).amount + g[s \ {Pick(s)}]]
<1>1. Sum(S) = (CHOOSE g : P(g))[S]
  BY DEF Sum, MapThenSumSet, MapThenFoldSet, Pick
<1>2. \A g : P(g) <=> Sums(w, S, g)
  <2> SUFFICES ASSUME NEW g PROVE P(g) <=> Sums(w, S, g)
    OBVIOUS
  <2>1. \A s \in SUBSET S : s # {} => w[Pick(s)] = Pick(s).amount
    BY PickIs
  <2>2. \A s \in SUBSET S :
           (IF s = {} THEN 0 ELSE Pick(s).amount + g[s \ {Pick(s)}]) = FirstPlus(w, g, s)
    BY <2>1 DEF FirstPlus
  <2> QED
    BY <2>2 DEF Sums
<1>3. (CHOOSE g : P(g)) = (CHOOSE g : Sums(w, S, g))
  <2> HIDE DEF P, w
  <2> QED
    BY <1>2
<1> QED
  BY <1>1, <1>3, TotalIs


\* The hold was collected, and possibly returned later.
Collected == pay.hold \in {"captured", "returned"}

\* The fields of the records; their ranges do not matter here.
Has(r, fields) == DOMAIN r = fields /\ r = [f \in fields |-> r[f]]

RecordFields ==
    {"status", "captured", "refunded", "pending", "ref", "declined", "tops", "topRefunded", "refunds"}

Shape ==
    /\ mode \in {"sync", "async"}
    /\ Has(record, RecordFields)
    /\ Has(pay, {"hold", "asked", "taken", "refunds", "reported"})
    /\ Has(pay.asked, {"capture", "cancel"})
    /\ Has(task, Tasks)
    /\ \A t \in Tasks : Has(task[t], {"pc", "op", "amount", "top", "declined"})

\* A task that has begun captures or cancels, and only captures are applied
\* in two steps.
Kinds ==
    /\ \A t \in Tasks : task[t].pc \in {"ask", "topup", "record"} => task[t].op \in {"capture", "cancel"}
    /\ \A e \in applying : e.op = "capture"

\* Until the hold is collected nothing says it is: no refund, no capture done,
\* no good news on the way, and a record that is captured says that this has
\* to be confirmed.
CaptureInv ==
    \/ Collected
    \/ /\ pay.refunds = {}
       /\ mode = "sync" =>
             /\ pay.asked.capture = -1
             /\ \A t \in Tasks : task[t].pc \in {"topup", "record"} => task[t].op = "cancel"
       /\ \A e \in events \union applying : ~(e.op = "capture" /\ e.ok)
       /\ record.status \in {"captured", "partially_refunded", "refunded"} => record.pending = "capture"

IInv == Shape /\ Kinds /\ CaptureInv

LEMMA Initial == Init => IInv
<1> SUFFICES ASSUME Init PROVE IInv
  OBVIOUS
<1>1. Shape
  BY DEF Init, Shape, Has, RecordFields, Idle
<1>2. Kinds
  BY DEF Init, Kinds, Idle
<1>3. CaptureInv
  BY DEF Init, CaptureInv, Collected, Idle
<1> QED
  BY <1>1, <1>2, <1>3 DEF IInv

(***************************************************************************)
(* What the steps write.                                                   *)
(***************************************************************************)

\* Each write of the record keeps its fields, and says what it does to the
\* status and to the reference that waits for a confirmation.
LEMMA RecordWrites ==
    ASSUME Shape
    PROVE  /\ \A amount, declined, top, ref :
                 LET r == Captured(amount, declined, top, ref)
                 IN  Has(r, RecordFields) /\ r.pending = ref
           /\ \A ref : Has(Cancelled(ref), RecordFields) /\ Cancelled(ref).status = "cancelled"
           /\ Has(HoldFailed, RecordFields) /\ HoldFailed.status = "failed"
           /\ Has(CaptureFailed, RecordFields) /\ CaptureFailed.status = "failed"
           /\ Has(Confirmed, RecordFields) /\ Confirmed.status = record.status
<1> USE DEF Shape, Has, RecordFields
<1>1. ASSUME NEW amount, NEW declined, NEW top, NEW ref
      PROVE  LET r == Captured(amount, declined, top, ref)
             IN  Has(r, RecordFields) /\ r.pending = ref
  BY DEF Captured
<1>2. \A ref : Has(Cancelled(ref), RecordFields) /\ Cancelled(ref).status = "cancelled"
  BY DEF Cancelled
<1>3. /\ Has(HoldFailed, RecordFields) /\ HoldFailed.status = "failed"
      /\ Has(CaptureFailed, RecordFields) /\ CaptureFailed.status = "failed"
      /\ Has(Confirmed, RecordFields) /\ Confirmed.status = record.status
  BY DEF HoldFailed, CaptureFailed, Confirmed
<1> QED
  BY <1>1, <1>2, <1>3

\* The provider only ever moves an open hold, and a collected one is returned
\* at most; what it keeps of the requests are refunds of its own.
PaySame == Has(pay', {"hold", "asked", "taken", "refunds", "reported"}) /\ Has(pay'.asked, {"capture", "cancel"})

LEMMA ProviderStep ==
    ASSUME Shape, NEW op \in {"capture", "cancel"}, NEW amount, ProviderTakes(op, amount)
    PROVE  /\ PaySame
           /\ pay'.refunds = pay.refunds
           /\ Collected => Collected'
           /\ mode = "sync" /\ pay.asked.capture = -1 =>
                 IF op = "capture" THEN Collected' ELSE pay'.asked.capture = -1
<1> USE DEF Shape, Has, PaySame, Collected
<1>1. CASE Done(op, amount)
  <2>1. CASE UNCHANGED pay /\ pay.asked[op] >= 0
    <3>1. op = "capture" => pay.asked.capture # -1
      BY <2>1
    <3> QED
      BY <2>1, <3>1
  <2>2. CASE /\ pay.hold = "held"
             /\ pay' = [pay EXCEPT !.asked[op] = amount,
                                   !.hold = IF op = "capture" THEN "captured" ELSE "cancelled",
                                   !.taken[HoldCharge] = IF op = "capture" THEN amount ELSE 0]
    BY <2>2
  <2> QED
    BY <1>1, <2>1, <2>2 DEF Done
<1>2. CASE Accepted(op, amount)
  BY <1>2 DEF Accepted
<1> QED
  BY <1>1, <1>2 DEF ProviderTakes

LEMMA ChargeStep ==
    ASSUME Shape, NEW c, NEW amount, ChargedOnce(c, amount)
    PROVE  /\ PaySame
           /\ pay'.refunds = pay.refunds /\ pay'.hold = pay.hold /\ pay'.asked = pay.asked
BY DEF Shape, Has, PaySame, ChargedOnce

LEMMA ResolveStep ==
    ASSUME Shape, NEW op \in {"capture", "cancel"}, Resolve(op)
    PROVE  /\ PaySame
           /\ pay'.refunds = pay.refunds /\ mode = "async"
           /\ Collected => Collected'
           /\ \A e \in events' \ events : e.op = "capture" /\ e.ok => Collected'
<1> USE DEF Shape, Has, PaySame, Collected
<1>1. PICK ok \in BOOLEAN :
         /\ ok => pay.hold = "held"
         /\ pay' = [pay EXCEPT
               !.reported = @ \cup {op},
               !.hold = IF ~ok THEN @ ELSE IF op = "capture" THEN "captured" ELSE "cancelled",
               !.taken[HoldCharge] = IF ok /\ op = "capture" THEN pay.asked[op] ELSE @]
         /\ events' = events \cup {[op |-> op, ok |-> ok]}
  BY DEF Resolve
<1>2. /\ PaySame
      /\ pay'.refunds = pay.refunds /\ pay'.asked = pay.asked
      /\ pay'.hold = IF ~ok THEN pay.hold ELSE IF op = "capture" THEN "captured" ELSE "cancelled"
  BY <1>1
<1> QED
  BY <1>1, <1>2 DEF Resolve

\* One task moves, the other stays where it is.
TaskFields == {"pc", "op", "amount", "top", "declined"}
TasksSame == Has(task', Tasks) /\ \A u \in Tasks : Has(task'[u], TaskFields)

LEMMA TaskStep ==
    ASSUME Shape, NEW t \in Tasks, NEW v, Has(v, TaskFields),
           task' = [task EXCEPT ![t] = v]
    PROVE  TasksSame /\ task'[t] = v /\ \A u \in Tasks \ {t} : task'[u] = task[u]
BY DEF Shape, Has, TasksSame, TaskFields

LEMMA TaskMoves ==
    ASSUME Shape, NEW t \in Tasks, NEW pc, task' = [task EXCEPT ![t].pc = pc]
    PROVE  /\ TasksSame
           /\ task'[t].pc = pc /\ task'[t].op = task[t].op
           /\ \A u \in Tasks \ {t} : task'[u] = task[u]
<1>1. Has([task[t] EXCEPT !.pc = pc], TaskFields)
  BY DEF Shape, Has, TaskFields
<1>2. task' = [task EXCEPT ![t] = [task[t] EXCEPT !.pc = pc]]
  OBVIOUS
<1>3. TasksSame /\ task'[t] = [task[t] EXCEPT !.pc = pc] /\ \A u \in Tasks \ {t} : task'[u] = task[u]
  BY <1>1, <1>2, TaskStep
<1> QED
  BY <1>3 DEF Shape, Has

LEMMA IdleFacts == Has(Idle, TaskFields) /\ Idle.pc = "idle"
BY DEF Idle, Has, TaskFields

\* What no step changes or takes away; a step of the invariant has to say only
\* what it does while the hold is not collected.
LEMMA StepFrame ==
    ASSUME IInv, mode' = mode,
           Has(record', RecordFields), PaySame, TasksSame, Kinds',
           Collected => Collected',
           ~Collected /\ ~Collected' =>
              /\ pay'.refunds = {}
              /\ mode = "sync" =>
                    /\ pay'.asked.capture = -1
                    /\ \A t \in Tasks : task'[t].pc \in {"topup", "record"} => task'[t].op = "cancel"
              /\ \A e \in events' \union applying' : ~(e.op = "capture" /\ e.ok)
              /\ record'.status \in {"captured", "partially_refunded", "refunded"} => record'.pending = "capture"
    PROVE  IInv'
<1>1. Shape'
  BY DEF IInv, Shape, PaySame, TasksSame, TaskFields
<1>2. CaptureInv'
  BY DEF CaptureInv
<1> QED
  BY <1>1, <1>2 DEF IInv

\* Refunds are asked for only once the hold is collected.
Follows == pay'.refunds # pay.refunds => Collected

\* A step that leaves the provider, the record and the webhooks alone.
LEMMA TaskOnly ==
    ASSUME IInv, UNCHANGED <<mode, record, pay, events, applying>>, TasksSame, Kinds',
           ~Collected /\ mode = "sync" =>
              \A t \in Tasks : task'[t].pc \in {"topup", "record"} => task'[t].op = "cancel"
    PROVE  IInv' /\ Follows
<1>1. Has(record', RecordFields) /\ PaySame /\ (Collected <=> Collected')
  BY DEF IInv, Shape, PaySame, Collected
<1> QED
  BY <1>1, StepFrame DEF IInv, CaptureInv, Follows

\* A step that leaves the tasks and the provider alone.
LEMMA RecordOnly ==
    ASSUME IInv, UNCHANGED <<mode, pay, task>>, Kinds',
           Has(record', RecordFields),
           ~Collected =>
              /\ \A e \in events' \union applying' : ~(e.op = "capture" /\ e.ok)
              /\ record'.status \in {"captured", "partially_refunded", "refunded"} => record'.pending = "capture"
    PROVE  IInv' /\ Follows
<1>1. TasksSame /\ PaySame /\ (Collected <=> Collected')
  BY DEF IInv, Shape, PaySame, TasksSame, TaskFields, Collected
<1> QED
  BY <1>1, StepFrame DEF IInv, CaptureInv, Follows

(***************************************************************************)
(* The settlement and the operator's capture.                              *)
(***************************************************************************)
LEMMA BeginStep ==
    ASSUME IInv, NEW t \in Tasks, NEW amount, Begin(t, amount)
    PROVE  IInv' /\ Follows
<1> DEFINE v == [Idle EXCEPT !.pc = "ask", !.amount = amount,
                             !.op = IF amount = 0 THEN "cancel" ELSE "capture"]
<1>1. Has(v, TaskFields) /\ v.pc = "ask" /\ v.op \in {"capture", "cancel"}
  BY DEF Idle, Has, TaskFields
<1>2. task' = [task EXCEPT ![t] = v]
  BY DEF Begin
<1> HIDE DEF v
<1>3. TasksSame /\ task'[t] = v /\ \A u \in Tasks \ {t} : task'[u] = task[u]
  BY <1>1, <1>2, TaskStep DEF IInv
<1>4. Kinds'
  BY <1>1, <1>3 DEF Begin, IInv, Kinds
<1> QED
  BY <1>1, <1>3, <1>4, TaskOnly DEF Begin, IInv, CaptureInv

\* An error sends the settlement to mark the hold failed, the operator home.
LEMMA ThrowFacts ==
    ASSUME IInv, NEW t \in Tasks, AskThrows(t), applying' = applying
    PROVE  /\ TasksSame /\ task'[t].pc \in {"fail", "idle"}
           /\ \A u \in Tasks \ {t} : task'[u] = task[u]
           /\ Kinds'
<1> DEFINE v == IF t = "settle" THEN [task[t] EXCEPT !.pc = "fail"] ELSE Idle
<1>1. Has(v, TaskFields) /\ v.pc \in {"fail", "idle"}
  BY IdleFacts DEF IInv, Shape, Has, TaskFields
<1>2. task' = [task EXCEPT ![t] = v]
  BY DEF AskThrows
<1> HIDE DEF v
<1>3. TasksSame /\ task'[t] = v /\ \A u \in Tasks \ {t} : task'[u] = task[u]
  BY <1>1, <1>2, TaskStep DEF IInv
<1> QED
  BY <1>1, <1>3 DEF IInv, Kinds

LEMMA AskStep ==
    ASSUME IInv, NEW t \in Tasks, Ask(t) \/ AskRefused(t) \/ AskAnswerLost(t)
    PROVE  IInv' /\ Follows
<1> DEFINE op == task[t].op
<1>0. op \in {"capture", "cancel"} /\ Shape
  BY DEF Ask, AskRefused, AskAnswerLost, IInv, Kinds
<1>1. CASE Ask(t)
  <2>1. /\ PaySame
        /\ pay'.refunds = pay.refunds
        /\ Collected => Collected'
        /\ mode = "sync" /\ pay.asked.capture = -1 =>
              IF op = "capture" THEN Collected' ELSE pay'.asked.capture = -1
    BY <1>0, <1>1, ProviderStep DEF Ask
  <2>2. /\ TasksSame /\ task'[t].op = op
        /\ \A u \in Tasks \ {t} : task'[u] = task[u]
    BY <1>0, <1>1, TaskMoves DEF Ask
  <2>3. Kinds'
    BY <1>0, <1>1, <2>2 DEF Ask, IInv, Kinds
  <2>4. UNCHANGED <<mode, record, events, applying>> /\ Has(record', RecordFields)
    BY <1>0, <1>1 DEF Ask, Shape
  <2>5. ~Collected /\ ~Collected' =>
           /\ pay'.refunds = {}
           /\ mode = "sync" =>
                 /\ pay'.asked.capture = -1
                 /\ \A u \in Tasks : task'[u].pc \in {"topup", "record"} => task'[u].op = "cancel"
           /\ \A e \in events' \union applying' : ~(e.op = "capture" /\ e.ok)
           /\ record'.status \in {"captured", "partially_refunded", "refunded"} => record'.pending = "capture"
    BY <1>0, <2>1, <2>2, <2>4 DEF IInv, CaptureInv
  <2> QED
    BY <2>1, <2>2, <2>3, <2>4, <2>5, StepFrame DEF Follows
<1>2. CASE AskRefused(t)
  <2>1. /\ TasksSame /\ Kinds' /\ task'[t].pc \in {"fail", "idle"}
        /\ \A u \in Tasks \ {t} : task'[u] = task[u]
    BY <1>2, ThrowFacts DEF AskRefused
  <2> QED
    BY <1>2, <2>1, TaskOnly DEF AskRefused, IInv, CaptureInv
<1>3. CASE AskAnswerLost(t)
  <2>1. /\ PaySame
        /\ pay'.refunds = pay.refunds
        /\ Collected => Collected'
        /\ mode = "sync" /\ pay.asked.capture = -1 =>
              IF op = "capture" THEN Collected' ELSE pay'.asked.capture = -1
    BY <1>0, <1>3, ProviderStep DEF AskAnswerLost
  <2>2. /\ TasksSame /\ Kinds' /\ task'[t].pc \in {"fail", "idle"}
        /\ \A u \in Tasks \ {t} : task'[u] = task[u]
    BY <1>3, ThrowFacts DEF AskAnswerLost
  <2>3. UNCHANGED <<mode, record, events, applying>> /\ Has(record', RecordFields)
    BY <1>0, <1>3 DEF AskAnswerLost, Shape
  <2>4. ~Collected /\ ~Collected' =>
           /\ pay'.refunds = {}
           /\ mode = "sync" =>
                 /\ pay'.asked.capture = -1
                 /\ \A u \in Tasks : task'[u].pc \in {"topup", "record"} => task'[u].op = "cancel"
           /\ \A e \in events' \union applying' : ~(e.op = "capture" /\ e.ok)
           /\ record'.status \in {"captured", "partially_refunded", "refunded"} => record'.pending = "capture"
    BY <1>0, <2>1, <2>2, <2>3 DEF IInv, CaptureInv
  <2> QED
    BY <2>1, <2>2, <2>3, <2>4, StepFrame DEF Follows
<1> QED
  BY <1>1, <1>2, <1>3

\* A task goes home.
LEMMA HomeFacts ==
    ASSUME IInv, NEW t \in Tasks, task' = [task EXCEPT ![t] = Idle], applying' = applying
    PROVE  /\ TasksSame /\ Kinds' /\ task'[t].pc = "idle"
           /\ \A u \in Tasks \ {t} : task'[u] = task[u]
<1>1. TasksSame /\ task'[t] = Idle /\ \A u \in Tasks \ {t} : task'[u] = task[u]
  BY IdleFacts, TaskStep DEF IInv
<1> QED
  BY <1>1, IdleFacts DEF IInv, Kinds

LEMMA EndStep ==
    ASSUME IInv, NEW t \in Tasks, MarkFailed(t) \/ Record(t) \/ RecordFails(t)
    PROVE  IInv' /\ Follows
<1>0. Shape /\ UNCHANGED <<mode, pay, events, applying>> /\ task' = [task EXCEPT ![t] = Idle]
  BY DEF MarkFailed, Record, RecordFails, IInv
<1>1. /\ TasksSame /\ Kinds' /\ task'[t].pc = "idle"
      /\ \A u \in Tasks \ {t} : task'[u] = task[u]
  BY <1>0, HomeFacts
<1>2. PaySame /\ (Collected <=> Collected')
  BY <1>0 DEF Shape, PaySame, Collected
<1>3. /\ Has(record', RecordFields)
      /\ ~Collected /\ record'.status \in {"captured", "partially_refunded", "refunded"}
           => record'.pending = "capture"
  <2>1. CASE record' = record
    BY <1>0, <2>1 DEF Shape, IInv, CaptureInv
  <2>2. CASE record' = HoldFailed
    BY <1>0, <2>2, RecordWrites
  <2>3. CASE Record(t) /\ record' = Outcome(t)
    <3>1. CASE task[t].op = "cancel"
      BY <1>0, <2>3, <3>1, RecordWrites DEF Outcome
    <3>2. CASE task[t].op # "cancel"
      <4>1. Has(record', RecordFields) /\ record'.pending = Refs("capture")
        BY <1>0, <2>3, <3>2, RecordWrites DEF Outcome
      <4>2. ~Collected => mode = "async"
        BY <1>0, <2>3, <3>2 DEF Record, IInv, CaptureInv, Shape
      <4> QED
        BY <4>1, <4>2 DEF Refs
    <3> QED
      BY <3>1, <3>2
  <2> QED
    BY <2>1, <2>2, <2>3 DEF MarkFailed, Record, RecordFails
<1> QED
  BY <1>0, <1>1, <1>2, <1>3, StepFrame DEF IInv, CaptureInv, Follows

LEMMA TopUpStep ==
    ASSUME IInv, ChargeTopUp \/ TopUpDeclined
    PROVE  IInv' /\ Follows
<1> DEFINE s == task["settle"]
           charged == [s EXCEPT !.pc = "record", !.top = TRUE]
           declined == [s EXCEPT !.pc = "record", !.declined = TRUE]
<1>0. Shape /\ "settle" \in Tasks /\ s.pc = "topup"
      /\ UNCHANGED <<mode, record, events, applying>>
  BY DEF ChargeTopUp, TopUpDeclined, IInv, Tasks
<1>1. /\ Has(charged, TaskFields) /\ charged.pc = "record" /\ charged.op = s.op
      /\ Has(declined, TaskFields) /\ declined.pc = "record" /\ declined.op = s.op
  BY <1>0 DEF Shape, Has, TaskFields
<1>2. \/ task' = [task EXCEPT !["settle"] = charged]
      \/ task' = [task EXCEPT !["settle"] = declined]
  BY DEF ChargeTopUp, TopUpDeclined
<1> HIDE DEF charged, declined
<1>3. /\ TasksSame /\ task'["settle"].pc = "record" /\ task'["settle"].op = s.op
      /\ \A u \in Tasks \ {"settle"} : task'[u] = task[u]
  BY <1>0, <1>1, <1>2, TaskStep
<1>4. Kinds'
  BY <1>0, <1>3 DEF IInv, Kinds
<1>5. /\ PaySame /\ (Collected <=> Collected')
      /\ pay'.refunds = pay.refunds /\ pay'.asked = pay.asked
  <2>1. UNCHANGED pay \/ ChargedOnce(TopUp, cost - s.amount)
    BY DEF ChargeTopUp, TopUpDeclined
  <2> QED
    BY <1>0, <2>1, ChargeStep DEF Shape, PaySame, Collected
<1>6. Has(record', RecordFields)
  BY <1>0 DEF Shape
<1> QED
  BY <1>0, <1>3, <1>4, <1>5, <1>6, StepFrame DEF IInv, CaptureInv, Follows

(***************************************************************************)
(* The retries.                                                            *)
(***************************************************************************)
LEMMA RetryStep ==
    ASSUME IInv, NEW r \in Retries,
           RetrySelects \/ RetryReads(r) \/ RetryCharges(r) \/ RetryDeclined(r) \/ RetryRecords(r)
    PROVE  IInv' /\ Follows
<1>0. Shape /\ UNCHANGED <<mode, task, events, applying>>
  BY DEF RetrySelects, RetryReads, RetryCharges, RetryDeclined, RetryRecords, IInv
<1>1. /\ PaySame /\ (Collected <=> Collected')
      /\ pay'.refunds = pay.refunds /\ pay'.asked = pay.asked
  <2>1. UNCHANGED pay \/ ChargedOnce(RetryKey(r), cost - retry[r].captured)
    BY DEF RetrySelects, RetryReads, RetryCharges, RetryDeclined, RetryRecords
  <2> QED
    BY <1>0, <2>1, ChargeStep DEF Shape, PaySame, Collected
<1>2. Has(record', RecordFields) /\ record'.status = record.status /\ record'.pending = record.pending
  <2>1. CASE UNCHANGED record
    BY <1>0, <2>1 DEF Shape
  <2>2. CASE RetryDeclined(r)
    BY <1>0, <2>2 DEF RetryDeclined, Shape, Has, RecordFields
  <2>3. CASE RetryRecords(r)
    BY <1>0, <2>3 DEF RetryRecords, Shape, Has, RecordFields
  <2> QED
    BY <2>1, <2>2, <2>3 DEF RetrySelects, RetryReads, RetryCharges, RetryDeclined, RetryRecords
<1>3. TasksSame /\ Kinds'
  BY <1>0 DEF Shape, TasksSame, TaskFields, IInv, Kinds
<1> QED
  BY <1>0, <1>1, <1>2, <1>3, StepFrame DEF IInv, CaptureInv, Follows

(***************************************************************************)
(* The provider on its own.                                                *)
(***************************************************************************)
LEMMA ProviderOwnStep ==
    ASSUME IInv, Resolve("capture") \/ Resolve("cancel") \/ CaptureReturned \/ Expire
    PROVE  IInv' /\ Follows
<1>0. Shape /\ UNCHANGED <<mode, record, task, applying>>
  BY DEF Resolve, CaptureReturned, Expire, IInv
<1>1. TasksSame /\ Kinds' /\ Has(record', RecordFields)
  BY <1>0 DEF Shape, TasksSame, TaskFields, IInv, Kinds
<1>2. ASSUME NEW op \in {"capture", "cancel"}, Resolve(op)
      PROVE  IInv' /\ Follows
  BY <1>0, <1>1, <1>2, ResolveStep, StepFrame DEF IInv, CaptureInv, Follows
<1>3. CASE CaptureReturned
  <2>1. PaySame /\ Collected /\ Collected' /\ pay'.refunds = pay.refunds
    BY <1>0, <1>3 DEF CaptureReturned, Shape, Has, PaySame, Collected
  <2> QED
    BY <1>0, <1>1, <2>1, StepFrame DEF Follows
<1>4. CASE Expire
  <2>1. PaySame /\ ~Collected /\ pay'.refunds = pay.refunds /\ pay'.asked = pay.asked
    BY <1>0, <1>4 DEF Expire, Shape, Has, PaySame, Collected
  <2>2. \A e \in events' : e \in events \/ e.op = "expire"
    BY <1>4 DEF Expire
  <2>3. \A e \in events' \union applying' : ~(e.op = "capture" /\ e.ok)
    BY <1>0, <2>1, <2>2 DEF IInv, CaptureInv
  <2> QED
    BY <1>0, <1>1, <2>1, <2>3, StepFrame DEF IInv, CaptureInv, Follows
<1> QED
  BY <1>2, <1>3, <1>4

(***************************************************************************)
(* Refunds.                                                                *)
(***************************************************************************)
LEMMA RefundStep ==
    ASSUME IInv, Refund \/ ResolveRefund
    PROVE  IInv' /\ Follows
<1>0. Shape /\ UNCHANGED <<mode, task, applying>>
  BY DEF Refund, ResolveRefund, IInv
<1>1. TasksSame /\ Kinds'
  BY <1>0 DEF Shape, TasksSame, TaskFields, IInv, Kinds
<1>2. Collected
  <2>1. CASE Refund
    BY <2>1 DEF Refund, CanBeRefunded, Refundable, IInv, CaptureInv
  <2>2. CASE ResolveRefund
    BY <2>2 DEF ResolveRefund, IInv, CaptureInv
  <2> QED
    BY <2>1, <2>2
<1>3. PaySame /\ pay'.hold = pay.hold
  <2>1. ASSUME NEW made, RefundAsked(made)
        PROVE  PaySame /\ pay'.hold = pay.hold
    BY <1>0, <2>1 DEF RefundAsked, Shape, Has, PaySame
  <2>2. CASE Refund
    BY <2>1, <2>2 DEF Refund
  <2>3. CASE ResolveRefund
    BY <1>0, <2>3 DEF ResolveRefund, Shape, Has, PaySame
  <2> QED
    BY <2>2, <2>3
<1>4. Has(record', RecordFields)
  <2>1. ASSUME NEW made
        PROVE  Has(RefundWritten(made), RecordFields)
    BY <1>0 DEF RefundWritten, Shape, Has, RecordFields
  <2>2. CASE UNCHANGED record
    BY <1>0, <2>2 DEF Shape
  <2> QED
    BY <2>1, <2>2 DEF Refund, ResolveRefund
<1> QED
  BY <1>0, <1>1, <1>2, <1>3, <1>4, StepFrame DEF Collected, Follows

(***************************************************************************)
(* Webhooks.                                                               *)
(***************************************************************************)
LEMMA WebhookStep ==
    ASSUME IInv, NEW e \in events,
           \/ WebhookAnswers(e) \/ WebhookFindsHold(e) \/ WebhookMovesHold(e)
           \/ WebhookEndsHold(e) \/ WebhookIgnored(e)
    PROVE  IInv' /\ Follows
<1>0. Shape /\ UNCHANGED <<mode, pay, task>>
  BY DEF WebhookAnswers, WebhookFindsHold, WebhookMovesHold, WebhookEndsHold, WebhookIgnored, IInv
<1>1. events' \subseteq events /\ applying' \subseteq applying \union {e}
  BY DEF WebhookAnswers, WebhookFindsHold, WebhookMovesHold, WebhookEndsHold, WebhookIgnored, EventLeaves
<1>2. Kinds' /\ (e \in applying => e.op = "capture")
  BY <1>0 DEF WebhookAnswers, WebhookFindsHold, WebhookMovesHold, WebhookEndsHold, WebhookIgnored,
              IInv, Kinds
<1>3. ~Collected =>
         /\ \A f \in events \union applying \union {e} : ~(f.op = "capture" /\ f.ok)
         /\ record.status \in {"captured", "partially_refunded", "refunded"} => record.pending = "capture"
  BY DEF IInv, CaptureInv
<1>4. /\ Has(record', RecordFields)
      /\ ~Collected /\ record'.status \in {"captured", "partially_refunded", "refunded"}
           => record'.pending = "capture"
  <2>1. CASE record' = record
    BY <1>0, <1>3, <2>1 DEF Shape
  <2>2. CASE record' \in {CaptureFailed, HoldFailed, Cancelled("none")}
    BY <1>0, <2>2, RecordWrites
  <2>3. CASE record' = Confirmed /\ record.pending = "cancel"
    BY <1>0, <1>3, <2>3, RecordWrites
  <2>4. CASE record' = Confirmed /\ e.op = "capture" /\ e.ok
    BY <1>0, <1>3, <2>4, RecordWrites
  <2>5. CASE WebhookMovesHold(e) /\ record' = Captured(pay.asked["capture"], FALSE, 0, "none") /\ e.ok
    <3>1. Collected
      BY <1>2, <1>3, <2>5 DEF WebhookMovesHold
    <3>2. Has(record', RecordFields)
      BY <1>0, <2>5, RecordWrites
    <3> QED
      BY <3>1, <3>2
  <2>6. CASE WebhookAnswers(e)
    BY <2>2, <2>3, <2>4, <2>6 DEF WebhookAnswers, Answers, CanConfirm
  <2>7. CASE WebhookEndsHold(e)
    BY <2>1, <2>2, <2>3, <2>7 DEF WebhookEndsHold, AuthorisationEnded
  <2> QED
    BY <2>1, <2>2, <2>5, <2>6, <2>7 DEF WebhookFindsHold, WebhookMovesHold, WebhookIgnored
<1> QED
  BY <1>0, <1>1, <1>2, <1>3, <1>4, RecordOnly

LEMMA SettleRefundStep ==
    ASSUME IInv, NEW e \in events, SettleRefund(e) \/ SettleRefundedTotal(e)
    PROVE  IInv' /\ Follows
<1>0. Shape /\ UNCHANGED <<mode, pay, task, applying>>
  BY DEF SettleRefund, SettleRefundedTotal, IInv
<1>1. events' \subseteq events
  BY DEF SettleRefund, SettleRefundedTotal, EventLeaves
<1>2. Kinds'
  BY <1>0 DEF IInv, Kinds
<1>3. /\ Has(record', RecordFields) /\ record'.pending = record.pending
      /\ record'.status = record.status \/ Refundable
  <2>1. CASE SettleRefund(e)
    BY <1>0, <2>1 DEF SettleRefund, Shape, Has, RecordFields
  <2>2. CASE SettleRefundedTotal(e)
    BY <1>0, <2>2 DEF SettleRefundedTotal, Shape, Has, RecordFields
  <2> QED
    BY <2>1, <2>2
<1>4. ~Collected =>
         /\ \A f \in events' \union applying' : ~(f.op = "capture" /\ f.ok)
         /\ record'.status \in {"captured", "partially_refunded", "refunded"} => record'.pending = "capture"
  BY <1>0, <1>1, <1>3 DEF IInv, CaptureInv, Refundable
<1> QED
  BY <1>0, <1>2, <1>3, <1>4, RecordOnly

(***************************************************************************)
(* The theorem.                                                            *)
(***************************************************************************)
LEMMA Step == IInv /\ Next => IInv' /\ Follows
<1> SUFFICES ASSUME IInv, Next PROVE IInv' /\ Follows
  OBVIOUS
<1>1. {"settle", "operator"} = Tasks /\ Retries # {}
  BY DEF Tasks, Retries
<1>2. CASE SettleBegins \/ OperatorBegins
  BY <1>1, <1>2, BeginStep DEF SettleBegins, OperatorBegins
<1>3. CASE RetrySelects
  BY <1>1, <1>3, RetryStep
<1> QED
  BY <1>2, <1>3, AskStep, EndStep, TopUpStep, RetryStep, ProviderOwnStep, RefundStep, WebhookStep,
     SettleRefundStep DEF Next

\* A refund is asked for only once the capture is done at the provider, which
\* may return it later: no settlement, operator's capture, retry or webhook
\* makes the record refundable, or leaves it so, before the money is there.
THEOREM RefundAfterCapture == Spec => RefundsFollowCapture
<1>1. IInv /\ [Next]_vars => IInv'
  <2> SUFFICES ASSUME IInv, UNCHANGED vars PROVE IInv'
    BY Step
  <2> QED
    BY DEF vars, IInv, Shape, Kinds, CaptureInv, Collected
<1>2. IInv /\ [Next]_vars => [pay'.refunds # pay.refunds => pay.hold \in {"captured", "returned"}]_vars
  BY Step DEF Follows, Collected
<1> QED
  BY Initial, <1>1, <1>2, PTL DEF Spec, RefundsFollowCapture

(***************************************************************************)
(* Types.                                                                  *)
(***************************************************************************)
Words == {"none", "capture", "cancel"}
Most == Max({MaxCost, Hold})

\* The key of a refund, and an entry of a ledger of refunds
Ids == Nat \X Nat \X Nat \X Charges
Entries ==
    [id : Ids, charge : Charges, amount : Nat \ {0}, state : {"pending", "done", "failed"}]

Records ==
    [status : Statuses, captured : 0..Most, refunded : Nat, pending : Words, ref : Words,
     declined : BOOLEAN, tops : [TopUps -> Nat], topRefunded : [TopUps -> Nat],
     refunds : SUBSET Entries]

Pays ==
    [hold : {"held", "captured", "cancelled", "returned"},
     asked : [capture : -1..Hold, cancel : -1..Hold],
     taken : [Charges -> Nat], refunds : SUBSET Entries,
     reported : SUBSET {"capture", "cancel"}]

TaskStates ==
    [pc : {"idle", "ask", "topup", "record", "fail"}, op : Words, amount : 0..Hold,
     top : BOOLEAN, declined : BOOLEAN]

RetryStates == [pc : {"idle", "selected", "charge", "record"}, captured : 0..Most]

Webhooks ==
    [op : {"capture", "cancel"}, ok : BOOLEAN]
    \cup [op : {"expire"}, ok : {TRUE}]
    \cup [op : {"refund"}, id : Ids, charge : Charges, amount : Nat \ {0}, ok : BOOLEAN]
    \cup [op : {"refunded"}, charge : Charges, total : Nat]

Logged == {"lost", "refund lost", "moved on", "not recorded", "not applied",
           "not collected", "stray"}

RecordTyped == record \in Records /\ IsFiniteSet(record.refunds)

\* What was captured was asked for first.
PayTyped ==
    /\ pay \in Pays /\ IsFiniteSet(pay.refunds)
    /\ pay.hold = "captured" => pay.asked.capture >= 0

\* Only the settlement charges a top-up, for what its capture left.
TasksTyped ==
    /\ task \in [Tasks -> TaskStates]
    /\ \A t \in Tasks : task[t].pc \in {"ask", "topup", "record"} => task[t].op \in {"capture", "cancel"}
    /\ task["settle"].amount <= cost
    /\ task["settle"].pc = "topup" => task["settle"].amount < cost
    /\ ~task["operator"].top

\* A retry charges what is missing.
RetriesTyped ==
    /\ retry \in [Retries -> RetryStates]
    /\ \A r \in Retries : retry[r].pc \in {"charge", "record"} => retry[r].captured < cost

\* A capture that is reported was asked for.
EventsTyped ==
    /\ events \subseteq Webhooks /\ applying \subseteq events
    /\ \A e \in applying : e.op = "capture"
    /\ \A e \in events : e.op = "capture" => pay.asked.capture >= 0

Typed ==
    /\ mode \in {"sync", "async"} /\ cost \in Costs /\ told \subseteq Logged
    /\ RecordTyped /\ PayTyped /\ TasksTyped /\ RetriesTyped /\ EventsTyped

\* The largest of two, and the largest cost.
LEMMA MaxIs ==
    ASSUME NEW a \in Int, NEW b \in Int
    PROVE  /\ Max({a, b}) \in {a, b} /\ Max({a, b}) >= a /\ Max({a, b}) >= b
           /\ Min({a, b}) \in {a, b} /\ Min({a, b}) <= a /\ Min({a, b}) <= b
<1> DEFINE top(m) == m \in {a, b} /\ \A y \in {a, b} : m >= y
           low(m) == m \in {a, b} /\ \A y \in {a, b} : m <= y
<1>1. top(IF a >= b THEN a ELSE b) /\ low(IF a <= b THEN a ELSE b)
  OBVIOUS
<1>2. Max({a, b}) = CHOOSE m : top(m)
  BY DEF Max
<1>3. Min({a, b}) = CHOOSE m : low(m)
  BY DEF Min
<1>4. top(Max({a, b})) /\ low(Min({a, b}))
  <2> HIDE DEF top, low
  <2> QED
    BY <1>1, <1>2, <1>3
<1> QED
  BY <1>4

LEMMA NatMax ==
    ASSUME NEW a \in Nat, NEW b \in Nat
    PROVE  Max({a, b}) \in Nat /\ Min({a, b}) \in Nat
<1>1. Max({a, b}) \in {a, b} /\ Min({a, b}) \in {a, b}
  BY MaxIs
<1> QED
  BY <1>1

LEMMA Amounts ==
    /\ Hold \in Nat \ {0} /\ MaxCost \in Costs /\ Costs \subseteq 0..MaxCost /\ MaxCost \in Nat
    /\ Most \in Nat /\ Costs \subseteq 0..Most /\ 0..Hold \subseteq 0..Most
    /\ TopUps = 1..(2 + MaxCost) /\ Charges = 0..(2 + MaxCost)
    /\ IsFiniteSet(TopUps) /\ IsFiniteSet(Charges)
<1>1. PICK most \in Costs : \A c \in Costs : c <= most
  BY CostsAssumption
<1>2. MaxCost \in Costs /\ \A c \in Costs : MaxCost >= c
  <2> DEFINE top(m) == m \in Costs /\ \A c \in Costs : m >= c
  <2>1. top(most)
    BY <1>1, CostsAssumption
  <2>2. MaxCost = CHOOSE m : top(m)
    BY DEF MaxCost, Max
  <2>3. top(MaxCost)
    <3> HIDE DEF top
    <3> QED
      BY <2>1, <2>2
  <2> QED
    BY <2>3
<1>3. Hold \in Nat \ {0} /\ MaxCost \in Nat /\ Costs \subseteq 0..MaxCost
  BY <1>2, CostsAssumption, HoldAssumption
<1>4. Most \in Nat /\ MaxCost <= Most /\ Hold <= Most
  <2>1. /\ Max({MaxCost, Hold}) \in {MaxCost, Hold}
        /\ Max({MaxCost, Hold}) >= MaxCost /\ Max({MaxCost, Hold}) >= Hold
    <3>1. MaxCost \in Int /\ Hold \in Int
      BY <1>3
    <3> QED
      BY <3>1, MaxIs
  <2> QED
    BY <1>3, <2>1 DEF Most
<1>5. TopUps = 1..(2 + MaxCost) /\ Charges = 0..(2 + MaxCost)
  BY <1>3 DEF TopUps, Charges, HoldCharge, TopUp, RetryOf
<1>6. IsFiniteSet(1..(2 + MaxCost)) /\ IsFiniteSet(0..(2 + MaxCost))
  BY <1>3, FS_Interval
<1> QED
  BY <1>2, <1>3, <1>4, <1>5, <1>6

LEMMA TypedInit == Init => Typed
<1> SUFFICES ASSUME Init PROVE Typed
  OBVIOUS
<1> USE Amounts, FS_EmptySet
<1>1. RecordTyped
  <2> DEFINE zero == [c \in TopUps |-> 0]
  <2>1. zero \in [TopUps -> Nat]
    OBVIOUS
  <2> HIDE DEF zero
  <2>2. record = [status |-> "pre_authorized", captured |-> 0, refunded |-> 0,
                  pending |-> "none", ref |-> "none", declined |-> FALSE,
                  tops |-> zero, topRefunded |-> zero, refunds |-> {}]
    BY DEF Init, zero
  <2> QED
    BY <2>1, <2>2 DEF RecordTyped, Records, Statuses, Words
<1>2. PayTyped
  <2> DEFINE zero == [c \in Charges |-> 0]
  <2>1. zero \in [Charges -> Nat]
    OBVIOUS
  <2> HIDE DEF zero
  <2>2. pay = [hold |-> "held", asked |-> [capture |-> -1, cancel |-> -1],
               taken |-> zero, refunds |-> {}, reported |-> {}]
    BY DEF Init, zero
  <2> QED
    BY <2>1, <2>2 DEF PayTyped, Pays
<1>3. TasksTyped
  BY CostsAssumption DEF Init, TasksTyped, TaskStates, Idle, Words, Tasks
<1>4. RetriesTyped
  BY DEF Init, RetriesTyped, RetryStates, RetryIdle
<1> QED
  BY <1>1, <1>2, <1>3, <1>4 DEF Typed, EventsTyped, Init

\* The parts nobody touched.
LEMMA PartsKept ==
    /\ RecordTyped /\ record' = record => RecordTyped'
    /\ PayTyped /\ pay' = pay => PayTyped'
    /\ TasksTyped /\ UNCHANGED <<task, cost>> => TasksTyped'
    /\ RetriesTyped /\ UNCHANGED <<retry, cost>> => RetriesTyped'
    /\ EventsTyped /\ UNCHANGED <<events, applying>>
         /\ (pay.asked.capture >= 0 => pay'.asked.capture >= 0) => EventsTyped'
BY DEF RecordTyped, PayTyped, TasksTyped, RetriesTyped, EventsTyped

\* The writes of the record.
LEMMA WritesTyped ==
    ASSUME RecordTyped
    PROVE  /\ \A amount \in 0..Most, declined \in BOOLEAN, top \in Nat, ref \in Words :
                 Captured(amount, declined, top, ref) \in Records
           /\ \A ref \in Words : Cancelled(ref) \in Records
           /\ HoldFailed \in Records /\ CaptureFailed \in Records /\ Confirmed \in Records
<1> USE DEF RecordTyped, Records, Statuses, Words
<1>1. ASSUME NEW amount \in 0..Most, NEW declined \in BOOLEAN, NEW top \in Nat, NEW ref \in Words
      PROVE  Captured(amount, declined, top, ref) \in Records
  <2> DEFINE tops == IF top > 0 THEN Listed(record.tops, TopUp, top) ELSE record.tops
  <2>1. tops \in [TopUps -> Nat]
    BY DEF Listed
  <2> HIDE DEF tops
  <2>2. Captured(amount, declined, top, ref) =
          [record EXCEPT !.status = "captured", !.captured = amount, !.declined = declined,
                         !.tops = tops, !.pending = ref, !.ref = ref]
    BY DEF Captured, tops
  <2> QED
    BY <2>1, <2>2
<1>2. \A ref \in Words : Cancelled(ref) \in Records
  <2>1. 0 \in 0..Most
    BY Amounts
  <2> QED
    BY <2>1 DEF Cancelled
<1>3. HoldFailed \in Records /\ CaptureFailed \in Records /\ Confirmed \in Records
  BY DEF HoldFailed, CaptureFailed, Confirmed
<1> QED
  BY <1>1, <1>2, <1>3

LEMMA WritesKeepRefunds ==
    /\ RecordTyped =>
         /\ \A amount, declined, top, ref : Captured(amount, declined, top, ref).refunds = record.refunds
         /\ \A ref : Cancelled(ref).refunds = record.refunds
         /\ HoldFailed.refunds = record.refunds /\ CaptureFailed.refunds = record.refunds
         /\ Confirmed.refunds = record.refunds
BY DEF RecordTyped, Records, Captured, Cancelled, HoldFailed, CaptureFailed, Confirmed

LEMMA PayFacts ==
    ASSUME PayTyped
    PROVE  /\ \A op \in {"capture", "cancel"} : pay.asked[op] \in -1..Hold
           /\ Hold \in Nat /\ HoldCharge \in Charges
           /\ pay.taken \in [Charges -> Nat] /\ pay.reported \subseteq {"capture", "cancel"}
<1>1. pay.asked["capture"] \in -1..Hold /\ pay.asked["cancel"] \in -1..Hold
  BY DEF PayTyped, Pays
<1>2. Hold \in Nat /\ HoldCharge \in Charges
  BY Amounts DEF HoldCharge
<1> QED
  BY <1>1, <1>2 DEF PayTyped, Pays

\* A request reaches the provider: what was asked for stays asked for.
LEMMA AskTyped ==
    ASSUME Typed, NEW op \in {"capture", "cancel"}, NEW amount \in 0..Hold,
           ProviderTakes(op, amount)
    PROVE  PayTyped' /\ (pay.asked.capture >= 0 => pay'.asked.capture >= 0)
<1>0. PayTyped /\ pay.asked[op] \in -1..Hold /\ Hold \in Nat /\ HoldCharge \in Charges
  BY Amounts DEF Typed, PayTyped, Pays, HoldCharge
<1>1. CASE UNCHANGED pay
  BY <1>0, <1>1, PartsKept
<1>2. ASSUME NEW new \in 0..Hold, NEW asked, asked = [pay.asked EXCEPT ![op] = new],
             NEW taken \in [Charges -> Nat], NEW hold \in {"captured", "cancelled", pay.hold},
             hold = "captured" => op = "capture" \/ hold = pay.hold,
             pay' = [pay EXCEPT !.asked = asked, !.hold = hold, !.taken = taken]
      PROVE  PayTyped' /\ (pay.asked.capture >= 0 => pay'.asked.capture >= 0)
  <2>1. /\ asked \in [capture : -1..Hold, cancel : -1..Hold]
        /\ asked.capture = IF op = "capture" THEN new ELSE pay.asked.capture
    BY <1>0, <1>2 DEF PayTyped, Pays
  <2>2. /\ pay'.asked = asked /\ pay'.hold = hold /\ pay'.refunds = pay.refunds
        /\ pay' \in Pays
    BY <1>0, <1>2, <2>1 DEF PayTyped, Pays
  <2> QED
    BY <1>0, <1>2, <2>1, <2>2 DEF PayTyped
<1>3. CASE Done(op, amount) /\ ~UNCHANGED pay
  <2> DEFINE taken == [pay.taken EXCEPT ![HoldCharge] = IF op = "capture" THEN amount ELSE 0]
             hold == IF op = "capture" THEN "captured" ELSE "cancelled"
             asked == [pay.asked EXCEPT ![op] = amount]
  <2>1. taken \in [Charges -> Nat]
    BY <1>0 DEF PayTyped, Pays
  <2>2. pay' = [pay EXCEPT !.asked = asked, !.hold = hold, !.taken = taken]
    BY <1>3 DEF Done
  <2>3. hold \in {"captured", "cancelled", pay.hold} /\ (hold = "captured" => op = "capture" \/ hold = pay.hold)
    OBVIOUS
  <2> HIDE DEF taken, hold
  <2> QED
    BY <1>2, <2>1, <2>2, <2>3
<1>4. CASE Accepted(op, amount)
  <2> DEFINE new == IF pay.asked[op] >= 0 THEN pay.asked[op] ELSE amount
             asked == [pay.asked EXCEPT ![op] = new]
  <2>1. new \in 0..Hold
    BY <1>0
  <2>2. pay' = [pay EXCEPT !.asked = asked]
    BY <1>4 DEF Accepted
  <2> HIDE DEF new
  <2>3. pay' = [pay EXCEPT !.asked = asked, !.hold = pay.hold, !.taken = pay.taken]
    BY <1>0, <2>2 DEF PayTyped, Pays
  <2>4. pay.taken \in [Charges -> Nat]
    BY <1>0 DEF PayTyped, Pays
  <2> QED
    BY <1>2, <2>1, <2>3, <2>4
<1> QED
  BY <1>1, <1>3, <1>4 DEF ProviderTakes

LEMMA ChargeTyped ==
    ASSUME PayTyped, NEW c, NEW amount \in Nat, ChargedOnce(c, amount)
    PROVE  PayTyped' /\ pay'.asked = pay.asked
<1> DEFINE taken == [pay.taken EXCEPT ![c] = IF @ > 0 THEN @ ELSE amount]
<1>1. taken \in [Charges -> Nat]
  BY DEF PayTyped, Pays
<1>2. pay' = [pay EXCEPT !.taken = taken]
  BY DEF ChargedOnce
<1> HIDE DEF taken
<1> QED
  BY <1>1, <1>2 DEF PayTyped, Pays

(***************************************************************************)
(* The tasks.                                                              *)
(***************************************************************************)
LEMMA BeginTyped ==
    ASSUME Typed, NEW t \in Tasks, NEW amount \in 0..Hold, t = "settle" => amount <= cost,
           Begin(t, amount)
    PROVE  Typed'
<1> DEFINE v == [Idle EXCEPT !.pc = "ask", !.amount = amount,
                             !.op = IF amount = 0 THEN "cancel" ELSE "capture"]
<1>1. v \in TaskStates /\ v.pc = "ask" /\ v.op \in {"capture", "cancel"} /\ v.amount = amount /\ ~v.top
  BY DEF Idle, TaskStates, Words
<1>2. task' = [task EXCEPT ![t] = v]
  BY DEF Begin
<1> HIDE DEF v
<1>3. TasksTyped'
  BY <1>1, <1>2 DEF Typed, TasksTyped, Tasks, Begin
<1> QED
  BY <1>3, PartsKept DEF Typed, Begin

LEMMA ThrowTyped ==
    ASSUME Typed, NEW t \in Tasks, AskThrows(t) \/ task' = [task EXCEPT ![t] = Idle], cost' = cost
    PROVE  TasksTyped'
<1> DEFINE v == IF t = "settle" THEN [task[t] EXCEPT !.pc = "fail"] ELSE Idle
<1>1. cost \in Nat
  BY CostsAssumption DEF Typed
<1>2. /\ Idle \in TaskStates /\ Idle.pc = "idle" /\ Idle.amount = 0 /\ ~Idle.top
      /\ v \in TaskStates /\ v.pc \in {"idle", "fail"}
      /\ v.amount \in {task[t].amount, 0} /\ v.top \in {task[t].top, FALSE}
  BY Amounts DEF Typed, TasksTyped, TaskStates, Idle, Words
<1>3. task' = [task EXCEPT ![t] = v] \/ task' = [task EXCEPT ![t] = Idle]
  BY DEF AskThrows
<1> HIDE DEF v
<1>4. ASSUME NEW w \in TaskStates, w.pc \in {"idle", "fail"}, w.amount \in {task[t].amount, 0},
             w.top \in {task[t].top, FALSE}, task' = [task EXCEPT ![t] = w]
      PROVE  TasksTyped'
  <2>1. /\ task \in [Tasks -> TaskStates] /\ "settle" \in Tasks /\ "operator" \in Tasks
        /\ task["settle"].amount <= cost /\ ~task["operator"].top
        /\ \A u \in Tasks : task'[u] = IF u = t THEN w ELSE task[u]
    BY <1>4 DEF Typed, TasksTyped, Tasks
  <2>2. task' \in [Tasks -> TaskStates]
    BY <1>4, <2>1
  <2>3. \A u \in Tasks : task'[u].pc \in {"ask", "topup", "record"} => task'[u].op \in {"capture", "cancel"}
    BY <1>4, <2>1 DEF Typed, TasksTyped
  <2>4. task'["settle"].amount <= cost' /\ ~task'["operator"].top
    <3>1. task'["settle"].amount \in {task["settle"].amount, 0}
      BY <1>4, <2>1
    <3>2. task'["operator"].top \in {task["operator"].top, FALSE}
      BY <1>4, <2>1
    <3>3. task["operator"].top = FALSE
      BY <2>1 DEF TaskStates
    <3>4. task'["operator"].top = FALSE
      BY <3>2, <3>3
    <3>5. task'["settle"].amount <= cost'
      BY <1>1, <2>1, <3>1
    <3> QED
      BY <3>4, <3>5
  <2>5. task'["settle"].pc = "topup" => task'["settle"].amount < cost'
    BY <1>4, <2>1 DEF Typed, TasksTyped
  <2> QED
    BY <2>2, <2>3, <2>4, <2>5 DEF TasksTyped
<1>5. CASE task' = [task EXCEPT ![t] = v]
  BY <1>2, <1>4, <1>5
<1>6. CASE task' = [task EXCEPT ![t] = Idle]
  <2>1. /\ Idle.pc \in {"idle", "fail"} /\ Idle.amount \in {task[t].amount, 0}
        /\ Idle.top \in {task[t].top, FALSE}
    BY DEF Idle
  <2> QED
    BY <1>2, <1>4, <1>6, <2>1
<1> QED
  BY <1>3, <1>5, <1>6

LEMMA AsksTyped ==
    ASSUME Typed, NEW t \in Tasks, Ask(t) \/ AskRefused(t) \/ AskAnswerLost(t)
    PROVE  Typed'
<1>1. task[t].op \in {"capture", "cancel"} /\ task[t].amount \in 0..Hold
  BY DEF Typed, TasksTyped, TaskStates, Ask, AskRefused, AskAnswerLost
<1>2. PayTyped' /\ (pay.asked.capture >= 0 => pay'.asked.capture >= 0)
  BY <1>1, AskTyped, PartsKept DEF Typed, Ask, AskRefused, AskAnswerLost
<1>3. TasksTyped'
  <2>1. CASE Ask(t)
    <3>1. AfterCapture(t) \in {"topup", "record"}
          /\ (AfterCapture(t) = "topup" => t = "settle" /\ task[t].amount < cost)
      BY CostsAssumption, Amounts DEF AfterCapture, Typed, TasksTyped, TaskStates
    <3>2. task' = [task EXCEPT ![t].pc = AfterCapture(t)]
      BY <2>1 DEF Ask
    <3> QED
      BY <1>1, <2>1, <3>1, <3>2 DEF Typed, TasksTyped, TaskStates, Tasks, Ask
  <2>2. CASE AskRefused(t) \/ AskAnswerLost(t)
    BY <2>2, ThrowTyped DEF AskRefused, AskAnswerLost
  <2> QED
    BY <2>1, <2>2
<1>4. UNCHANGED <<mode, cost, record, retry, events, applying>> /\ told' \subseteq Logged
  BY DEF Typed, Ask, AskRefused, AskAnswerLost, Logged
<1> QED
  BY <1>2, <1>3, <1>4, PartsKept DEF Typed

LEMMA OutcomeTyped ==
    ASSUME Typed, NEW t \in Tasks
    PROVE  Outcome(t) \in Records /\ Outcome(t).refunds = record.refunds
<1> DEFINE s == task[t]
           top == IF s.top THEN cost - s.amount ELSE 0
<1>1. s \in TaskStates /\ (s.top => s.amount <= cost) /\ cost \in 0..Most
  BY Amounts DEF Typed, TasksTyped, Tasks
<1>2. top \in Nat /\ s.amount + top \in 0..Most /\ s.declined \in BOOLEAN
  BY <1>1, Amounts DEF TaskStates
<1>3. Refs("cancel") \in Words /\ Refs("capture") \in Words
  BY DEF Refs, Words
<1>4. Outcome(t) = IF s.op = "cancel" THEN Cancelled(Refs("cancel"))
                   ELSE Captured(s.amount + top, s.declined, top, Refs("capture"))
  BY DEF Outcome
<1> HIDE DEF top
<1> QED
  BY <1>2, <1>3, <1>4, WritesTyped, WritesKeepRefunds DEF Typed

LEMMA EndsTyped ==
    ASSUME Typed, NEW t \in Tasks, MarkFailed(t) \/ Record(t) \/ RecordFails(t)
    PROVE  Typed'
<1>1. TasksTyped'
  BY ThrowTyped DEF MarkFailed, Record, RecordFails
<1>2. record' \in {record, HoldFailed, Outcome(t)}
  BY DEF MarkFailed, Record, RecordFails
<1>3. RecordTyped'
  BY <1>2, OutcomeTyped, WritesTyped, WritesKeepRefunds DEF Typed, RecordTyped
<1>4. UNCHANGED <<mode, cost, pay, retry, events, applying>> /\ told' \subseteq Logged
  BY DEF Typed, MarkFailed, Record, RecordFails, Logged
<1> QED
  BY <1>1, <1>3, <1>4, PartsKept DEF Typed

LEMMA TopUpTyped ==
    ASSUME Typed, ChargeTopUp \/ TopUpDeclined
    PROVE  Typed'
<1> DEFINE s == task["settle"]
           charged == [s EXCEPT !.pc = "record", !.top = TRUE]
           declined == [s EXCEPT !.pc = "record", !.declined = TRUE]
<1>1. s \in TaskStates /\ s.pc = "topup" /\ s.op \in {"capture", "cancel"} /\ s.amount < cost
      /\ cost - s.amount \in Nat
  BY CostsAssumption DEF Typed, TasksTyped, Tasks, TaskStates, ChargeTopUp, TopUpDeclined
<1>2. PayTyped' /\ pay'.asked = pay.asked
  BY <1>1, ChargeTyped, PartsKept DEF Typed, ChargeTopUp, TopUpDeclined
<1>3. /\ charged \in TaskStates /\ charged.pc = "record" /\ charged.op = s.op /\ charged.amount = s.amount
      /\ declined \in TaskStates /\ declined.pc = "record" /\ declined.op = s.op
      /\ declined.amount = s.amount
  BY <1>1 DEF TaskStates
<1>4. task' = [task EXCEPT !["settle"] = charged] \/ task' = [task EXCEPT !["settle"] = declined]
  BY DEF ChargeTopUp, TopUpDeclined
<1>5. UNCHANGED <<mode, cost, record, retry, events, applying>> /\ told' \subseteq Logged
  BY DEF Typed, ChargeTopUp, TopUpDeclined, Logged
<1> HIDE DEF charged, declined
<1>6. TasksTyped'
  BY <1>1, <1>3, <1>4, <1>5 DEF Typed, TasksTyped, Tasks
<1> QED
  BY <1>2, <1>5, <1>6, PartsKept DEF Typed

(***************************************************************************)
(* The retries, the provider, the webhooks of the hold.                    *)
(***************************************************************************)
LEMMA RetriesMove ==
    ASSUME Typed, NEW r \in Retries, NEW v \in RetryStates, cost' = cost,
           v.pc \in {"charge", "record"} => v.captured < cost,
           retry' = [retry EXCEPT ![r] = v]
    PROVE  RetriesTyped'
BY DEF Typed, RetriesTyped

LEMMA RetryTyped ==
    ASSUME Typed, NEW r \in Retries,
           RetrySelects \/ RetryReads(r) \/ RetryCharges(r) \/ RetryDeclined(r) \/ RetryRecords(r)
    PROVE  Typed'
<1> DEFINE mine == IF RetrySelects THEN "cron" ELSE r
<1>0. mine \in Retries /\ retry[mine] \in RetryStates /\ cost \in 0..Most
      /\ (retry[mine].pc \in {"charge", "record"} => retry[mine].captured < cost)
  BY Amounts DEF Retries, Typed, RetriesTyped
<1>1. RetriesTyped' /\ cost' = cost
  <2>1. CASE RetrySelects
    <3> DEFINE v == [retry["cron"] EXCEPT !.pc = "selected"]
    <3>1. v \in RetryStates /\ v.pc = "selected" /\ retry' = [retry EXCEPT !["cron"] = v]
          /\ cost' = cost /\ "cron" \in Retries
      BY <1>0, <2>1 DEF RetrySelects, RetryStates, Retries
    <3> HIDE DEF v
    <3> QED
      BY <3>1, RetriesMove
  <2>2. CASE RetryReads(r)
    <3> DEFINE v == IF cost > record.captured
                    THEN [pc |-> "charge", captured |-> record.captured] ELSE RetryIdle
    <3>1. v \in RetryStates /\ (v.pc \in {"charge", "record"} => v.captured < cost)
      BY Amounts DEF RetryStates, RetryIdle, Typed, RecordTyped, Records
    <3>2. retry' = [retry EXCEPT ![r] = v] /\ cost' = cost
      BY <2>2 DEF RetryReads
    <3> HIDE DEF v
    <3> QED
      BY <3>1, <3>2, RetriesMove
  <2>3. CASE RetryCharges(r)
    <3> DEFINE v == [retry[r] EXCEPT !.pc = "record"]
    <3>1. retry[r] \in RetryStates /\ retry[r].captured < cost
      BY <2>3 DEF RetryCharges, Typed, RetriesTyped
    <3>2. v \in RetryStates /\ v.captured < cost /\ retry' = [retry EXCEPT ![r] = v] /\ cost' = cost
      BY <2>3, <3>1 DEF RetryCharges, RetryStates
    <3> HIDE DEF v
    <3> QED
      BY <3>2, RetriesMove
  <2>4. CASE RetryDeclined(r) \/ RetryRecords(r)
    <3>1. RetryIdle \in RetryStates /\ RetryIdle.pc = "idle"
          /\ retry' = [retry EXCEPT ![r] = RetryIdle] /\ cost' = cost
      BY <2>4, Amounts DEF RetryDeclined, RetryRecords, RetryIdle, RetryStates
    <3> QED
      BY <3>1, RetriesMove
  <2> QED
    BY <2>1, <2>2, <2>3, <2>4
<1>2. PayTyped' /\ pay'.asked = pay.asked
  <2>1. retry[r].pc = "charge" => cost - retry[r].captured \in Nat
    BY CostsAssumption DEF Typed, RetriesTyped, RetryStates
  <2> QED
    BY <2>1, ChargeTyped, PartsKept
       DEF Typed, RetrySelects, RetryReads, RetryCharges, RetryDeclined, RetryRecords
<1>3. RecordTyped'
  <2>1. CASE record' = record
    BY <2>1, PartsKept DEF Typed
  <2>2. CASE record' = [record EXCEPT !.declined = TRUE]
    BY <2>2 DEF Typed, RecordTyped, Records
  <2>3. CASE RetryRecords(r) /\ record.status = "captured"
    <3> DEFINE tops == Listed(record.tops, RetryKey(r), pay.taken[RetryKey(r)])
    <3>1. retry[r].captured \in 0..cost /\ retry[r].captured < cost /\ cost \in 0..MaxCost
      BY <2>3, Amounts DEF RetryRecords, Typed, RetriesTyped, RetryStates
    <3>2. RetryKey(r) \in Charges
      BY <3>1, Amounts DEF RetryKey, RetryOf
    <3>3. tops \in [TopUps -> Nat]
      BY <3>2 DEF Listed, Typed, RecordTyped, Records, PayTyped, Pays
    <3>4. record' = [record EXCEPT !.captured = cost, !.declined = FALSE, !.tops = tops]
      BY <2>3 DEF RetryRecords
    <3> HIDE DEF tops
    <3> QED
      BY <1>0, <3>3, <3>4 DEF Typed, RecordTyped, Records
  <2> QED
    BY <2>1, <2>2, <2>3 DEF RetrySelects, RetryReads, RetryCharges, RetryDeclined, RetryRecords
<1>4. UNCHANGED <<mode, cost, task, events, applying>> /\ told' \subseteq Logged
  BY DEF Typed, RetrySelects, RetryReads, RetryCharges, RetryDeclined, RetryRecords, Logged
<1> QED
  BY <1>1, <1>2, <1>3, <1>4, PartsKept DEF Typed

LEMMA OwnTyped ==
    ASSUME Typed, Resolve("capture") \/ Resolve("cancel") \/ CaptureReturned \/ Expire
    PROVE  Typed'
<1>0. UNCHANGED <<mode, cost, record, task, retry, applying, told>>
  BY DEF Resolve, CaptureReturned, Expire
<1>1. ASSUME NEW op \in {"capture", "cancel"}, Resolve(op)
      PROVE  PayTyped' /\ EventsTyped'
  <2>1. PICK ok \in BOOLEAN :
           /\ pay' = [pay EXCEPT
                 !.reported = @ \cup {op},
                 !.hold = IF ~ok THEN @ ELSE IF op = "capture" THEN "captured" ELSE "cancelled",
                 !.taken[HoldCharge] = IF ok /\ op = "capture" THEN pay.asked[op] ELSE @]
           /\ events' = events \cup {[op |-> op, ok |-> ok]}
    BY <1>1 DEF Resolve
  <2> DEFINE hold == IF ~ok THEN pay.hold ELSE IF op = "capture" THEN "captured" ELSE "cancelled"
             taken == [pay.taken EXCEPT ![HoldCharge] =
                          IF ok /\ op = "capture" THEN pay.asked[op] ELSE @]
             reported == pay.reported \cup {op}
  <2>2. pay.asked[op] >= 0 /\ pay.asked[op] \in Nat
    <3>1. pay.asked[op] >= 0
      BY <1>1 DEF Resolve
    <3>2. pay.asked[op] \in -1..Hold /\ Hold \in Nat
      BY PayFacts DEF Typed
    <3> QED
      BY <3>1, <3>2
  <2>3. taken \in [Charges -> Nat] /\ reported \in SUBSET {"capture", "cancel"}
        /\ hold \in {"captured", "cancelled", pay.hold}
        /\ (hold = "captured" => hold = pay.hold \/ op = "capture")
    <3>1. taken \in [Charges -> Nat]
      BY <2>2, PayFacts DEF Typed
    <3>2. reported \in SUBSET {"capture", "cancel"}
      BY PayFacts DEF Typed
    <3> QED
      BY <3>1, <3>2
  <2>4. pay' = [pay EXCEPT !.reported = reported, !.hold = hold, !.taken = taken]
    BY <2>1
  <2> HIDE DEF hold, taken, reported
  <2>5. pay' \in Pays /\ pay'.asked = pay.asked /\ pay'.hold = hold /\ pay'.refunds = pay.refunds
    BY <2>3, <2>4 DEF Typed, PayTyped, Pays
  <2>6. PayTyped'
    BY <2>2, <2>3, <2>5 DEF Typed, PayTyped
  <2>7. [op |-> op, ok |-> ok] \in Webhooks
    BY DEF Webhooks
  <2>8. EventsTyped'
    BY <1>0, <2>1, <2>2, <2>5, <2>7 DEF Typed, EventsTyped
  <2> QED
    BY <2>6, <2>8
<1>2. CASE CaptureReturned
  <2> DEFINE taken == [pay.taken EXCEPT ![HoldCharge] = 0]
  <2>1. taken \in [Charges -> Nat] /\ pay.asked.capture >= 0
    BY <1>2 DEF Typed, PayTyped, Pays, CaptureReturned
  <2>2. pay' = [pay EXCEPT !.hold = "returned", !.taken = taken]
    BY <1>2 DEF CaptureReturned
  <2> HIDE DEF taken
  <2>3. PayTyped' /\ pay'.asked = pay.asked
    BY <2>1, <2>2 DEF Typed, PayTyped, Pays
  <2>4. [op |-> "capture", ok |-> FALSE] \in Webhooks
    BY DEF Webhooks
  <2>5. EventsTyped'
    BY <1>0, <1>2, <2>1, <2>3, <2>4 DEF Typed, EventsTyped, CaptureReturned
  <2> QED
    BY <1>0, <2>3, <2>5, PartsKept DEF Typed
<1>3. CASE Expire
  <2>1. PayTyped' /\ pay'.asked = pay.asked
    BY <1>3 DEF Typed, PayTyped, Pays, Expire
  <2>2. [op |-> "expire", ok |-> TRUE] \in Webhooks
    BY DEF Webhooks
  <2>3. \A e \in events' : e \in events \/ e = [op |-> "expire", ok |-> TRUE]
    BY <1>3 DEF Expire
  <2>4. events \subseteq events'
    BY <1>3 DEF Expire
  <2>5. EventsTyped'
    <3>1. events' \subseteq Webhooks /\ applying' \subseteq events' /\ \A e \in applying' : e.op = "capture"
      BY <1>0, <2>2, <2>3, <2>4 DEF Typed, EventsTyped
    <3>2. \A e \in events' : e.op = "capture" => pay'.asked.capture >= 0
      <4>1. \A e \in events' : e.op = "capture" => e \in events
        BY <2>3
      <4> QED
        BY <2>1, <4>1 DEF Typed, EventsTyped
    <3> QED
      BY <3>1, <3>2 DEF EventsTyped
  <2> QED
    BY <1>0, <2>1, <2>5, PartsKept DEF Typed
<1> QED
  BY <1>0, <1>1, <1>2, <1>3, PartsKept DEF Typed

LEMMA LeavesTyped ==
    ASSUME Typed, NEW e \in events \ applying, EventLeaves(e), UNCHANGED <<pay, applying>>
    PROVE  EventsTyped'
BY DEF Typed, EventsTyped, EventLeaves

LEMMA WebhookTyped ==
    ASSUME Typed, NEW e \in events,
           \/ WebhookAnswers(e) \/ WebhookFindsHold(e) \/ WebhookMovesHold(e)
           \/ WebhookEndsHold(e) \/ WebhookIgnored(e)
    PROVE  Typed'
<1>0. UNCHANGED <<mode, cost, pay, task, retry>> /\ told' \subseteq Logged
  BY DEF Typed, Logged, WebhookAnswers, WebhookFindsHold, WebhookMovesHold, WebhookEndsHold, WebhookIgnored
<1>1. EventsTyped'
  <2>1. CASE WebhookAnswers(e) \/ WebhookIgnored(e) \/ WebhookEndsHold(e)
    <3>1. e \in events \ applying /\ EventLeaves(e) /\ UNCHANGED <<pay, applying>>
      BY <2>1 DEF WebhookAnswers, WebhookIgnored, WebhookEndsHold, Typed, EventsTyped
    <3> QED
      BY <3>1, LeavesTyped
  <2>2. CASE WebhookFindsHold(e)
    BY <2>2 DEF WebhookFindsHold, Typed, EventsTyped
  <2>3. CASE WebhookMovesHold(e)
    BY <2>3 DEF WebhookMovesHold, EventLeaves, Typed, EventsTyped
  <2> QED
    BY <2>1, <2>2, <2>3
<1>2. RecordTyped'
  <2>1. "none" \in Words /\ FALSE \in BOOLEAN /\ 0 \in Nat
    BY DEF Words
  <2>2. CASE WebhookMovesHold(e)
    <3>1. pay.asked["capture"] \in 0..Most
      <4>1. e.op = "capture" /\ pay.asked["capture"] >= 0
        BY <2>2 DEF WebhookMovesHold, Typed, EventsTyped
      <4>2. pay.asked["capture"] \in 0..Hold
        BY <4>1, PayFacts DEF Typed
      <4> QED
        BY <4>2, Amounts
    <3> DEFINE new == Captured(pay.asked["capture"], FALSE, 0, "none")
    <3>2. new \in Records /\ new.refunds = record.refunds
      BY <2>1, <3>1, WritesTyped, WritesKeepRefunds DEF Typed
    <3>3. record' \in {record, new, HoldFailed}
      BY <2>2 DEF WebhookMovesHold
    <3> HIDE DEF new
    <3> QED
      BY <3>2, <3>3, WritesTyped, WritesKeepRefunds DEF Typed, RecordTyped
  <2>3. CASE record' \in {record, CaptureFailed, Confirmed, Cancelled("none")}
    BY <2>1, <2>3, WritesTyped, WritesKeepRefunds DEF Typed, RecordTyped
  <2> QED
    BY <2>2, <2>3 DEF WebhookAnswers, WebhookFindsHold, WebhookEndsHold, WebhookIgnored, AuthorisationEnded
<1> QED
  BY <1>0, <1>1, <1>2, PartsKept DEF Typed

(***************************************************************************)
(* Sums of refunds.                                                        *)
(***************************************************************************)
LEMMA SumNat ==
    ASSUME NEW S, IsFiniteSet(S), \A r \in S : r.amount \in Nat
    PROVE  Sum(S) \in Nat
<1> DEFINE w == [r \in S |-> r.amount]
<1>1. \A r \in S : w[r] \in Nat
  OBVIOUS
<1>2. Sum(S) = Total(w, S)
  BY SumIs
<1> HIDE DEF w
<1> QED
  BY <1>1, <1>2, TotalNat

LEMMA LedgerSums ==
    ASSUME NEW S \in SUBSET Entries, IsFiniteSet(S)
    PROVE  /\ \A T \in SUBSET S : IsFiniteSet(T) /\ Sum(T) \in Nat
           /\ \A T \in SUBSET S : \A U \in SUBSET T : Sum(U) <= Sum(T)
<1>1. \A T \in SUBSET S : IsFiniteSet(T)
  BY FS_Subset
<1>2. \A r \in S : r.amount \in Nat
  BY DEF Entries
<1>3. ASSUME NEW T \in SUBSET S
      PROVE  Sum(T) \in Nat
  BY <1>1, <1>2, SumNat
<1>4. ASSUME NEW T \in SUBSET S, NEW U \in SUBSET T
      PROVE  Sum(U) <= Sum(T)
  <2> DEFINE w == [r \in T |-> r.amount]
             v == [r \in U |-> r.amount]
  <2>1. Sum(T) = Total(w, T) /\ Sum(U) = Total(v, U)
    BY <1>1, SumIs
  <2>2. (\A r \in T : w[r] \in Nat) /\ (\A r \in U : v[r] \in Int /\ v[r] = w[r])
    BY <1>2
  <2> HIDE DEF w, v
  <2>3. Total(v, U) = Total(w, U)
    BY <1>1, <2>2, TotalSame
  <2>4. Total(w, U) <= Total(w, T)
    BY <1>1, <2>2, TotalSubset
  <2> QED
    BY <2>1, <2>3, <2>4
<1> QED
  BY <1>1, <1>3, <1>4

\* What is left on a set of charges.
LEMMA LeftIs ==
    ASSUME NEW S, IsFiniteSet(S)
    PROVE  MapThenSumSet(LeftOf, S) = Total([c \in S |-> LeftOf(c)], S)
<1> DEFINE w == [c \in S |-> LeftOf(c)]
           P(g) == g = [s \in SUBSET S |-> IF s = {} THEN 0 ELSE LeftOf(Pick(s)) + g[s \ {Pick(s)}]]
<1>1. MapThenSumSet(LeftOf, S) = (CHOOSE g : P(g))[S]
  BY DEF MapThenSumSet, MapThenFoldSet, Pick
<1>2. \A g : P(g) <=> Sums(w, S, g)
  <2> SUFFICES ASSUME NEW g PROVE P(g) <=> Sums(w, S, g)
    OBVIOUS
  <2>1. \A s \in SUBSET S : s # {} => w[Pick(s)] = LeftOf(Pick(s))
    BY PickIs
  <2>2. \A s \in SUBSET S :
           (IF s = {} THEN 0 ELSE LeftOf(Pick(s)) + g[s \ {Pick(s)}]) = FirstPlus(w, g, s)
    BY <2>1 DEF FirstPlus
  <2> QED
    BY <2>2 DEF Sums
<1>3. (CHOOSE g : P(g)) = (CHOOSE g : Sums(w, S, g))
  <2> HIDE DEF P, w
  <2> QED
    BY <1>2
<1> QED
  BY <1>1, <1>3, TotalIs

(***************************************************************************)
(* Refunds.                                                                *)
(***************************************************************************)
LEMMA TotalOfTops ==
    ASSUME NEW f \in [TopUps -> Nat]
    PROVE  Total(f, TopUps) \in Nat
BY Amounts, TotalNat

LEMMA LeftTyped ==
    ASSUME RecordTyped
    PROVE  /\ PendingRefunds \in Nat /\ Cardinality(record.refunds) \in Nat
           /\ \A c \in Charges : /\ TakenFor(c) \in Nat /\ RefundedFor(c) \in Nat
                                 /\ PendingOf(c) \in Nat /\ LeftOf(c) \in Int
<1>1. record.refunds \in SUBSET Entries /\ IsFiniteSet(record.refunds)
      /\ record.tops \in [TopUps -> Nat] /\ record.topRefunded \in [TopUps -> Nat]
      /\ record.captured \in Nat /\ record.refunded \in Nat
  BY Amounts DEF RecordTyped, Records
<1>2. PendingRefunds \in Nat
  BY <1>1, LedgerSums DEF PendingRefunds
<1>3. Cardinality(record.refunds) \in Nat
  BY <1>1, FS_CardinalityType
<1>4. ASSUME NEW c \in Charges
      PROVE  /\ TakenFor(c) \in Nat /\ RefundedFor(c) \in Nat
             /\ PendingOf(c) \in Nat /\ LeftOf(c) \in Int
  <2>1. PendingOf(c) \in Nat
    BY <1>1, LedgerSums DEF PendingOf
  <2>2. TakenFor(c) \in Nat /\ RefundedFor(c) \in Nat
    <3>1. CASE c = HoldCharge
      <4>1. /\ record.captured - Total(record.tops, TopUps) \in Int
            /\ record.refunded - Total(record.topRefunded, TopUps) \in Int
        BY <1>1, TotalOfTops
      <4>2. /\ Max({0, record.captured - Total(record.tops, TopUps)}) \in Nat
            /\ Max({0, record.refunded - Total(record.topRefunded, TopUps)}) \in Nat
        <5>1. ASSUME NEW x \in Int
              PROVE  Max({0, x}) \in Nat
          <6>1. Max({0, x}) \in {0, x} /\ Max({0, x}) >= 0
            BY MaxIs
          <6> QED
            BY <6>1
        <5> QED
          BY <4>1, <5>1
      <4> QED
        BY <3>1, <4>2 DEF TakenFor, RefundedFor
    <3>2. CASE c # HoldCharge
      <4>1. c \in TopUps
        BY <3>2 DEF Charges
      <4> QED
        BY <1>1, <3>2, <4>1 DEF TakenFor, RefundedFor
    <3> QED
      BY <3>1, <3>2
  <2> QED
    BY <2>1, <2>2 DEF LeftOf
<1> QED
  BY <1>2, <1>3, <1>4

LEMMA PieceTyped ==
    ASSUME RecordTyped, NEW amount \in Nat, NEW c \in Charges
    PROVE  /\ OpenCharges \subseteq Charges /\ IsFiniteSet(OpenCharges)
           /\ Piece(c, amount) \in Int /\ Piece(c, amount) <= LeftOf(c)
<1>1. OpenCharges \subseteq Charges
  BY DEF OpenCharges, Charges
<1>2. IsFiniteSet(OpenCharges)
  BY <1>1, Amounts, FS_Subset
<1> DEFINE D == {d \in OpenCharges : d < c}
           w == [d \in D |-> LeftOf(d)]
<1>3. IsFiniteSet(D)
  BY <1>2, FS_Subset
<1>4. \A d \in D : w[d] \in Int
  BY <1>1, LeftTyped
<1>5. MapThenSumSet(LeftOf, D) = Total(w, D)
  BY <1>3, LeftIs
<1> DEFINE before == MapThenSumSet(LeftOf, D)
<1>6. before \in Int
  <2> HIDE DEF w, D
  <2> QED
    BY <1>3, <1>4, <1>5, TotalInt
<1>7. Piece(c, amount) = Min({LeftOf(c), amount - before})
  BY DEF Piece
<1> HIDE DEF before
<1>8. LeftOf(c) \in Int /\ amount - before \in Int
  BY <1>6, LeftTyped
<1> QED
  BY <1>1, <1>2, <1>7, <1>8, MaxIs

\* The refunds asked for with an amount, of some of the charges.
LEMMA MadeTyped ==
    ASSUME Typed, NEW amount \in Nat,
           NEW D \in SUBSET OpenCharges, \A c \in D : Piece(c, amount) > 0
    PROVE  LET made == {RefundOf(c, amount) : c \in D}
           IN  made \in SUBSET Entries /\ IsFiniteSet(made)
<1> DEFINE made == {RefundOf(c, amount) : c \in D}
           f == [c \in D |-> RefundOf(c, amount)]
<1>1. D \subseteq Charges /\ IsFiniteSet(D)
  <2>1. 0 \in Charges
    BY Amounts
  <2> QED
    BY <2>1, PieceTyped, FS_Subset DEF Typed
<1>2. ASSUME NEW c \in D
      PROVE  RefundOf(c, amount) \in Entries
  <2>1. Piece(c, amount) \in Nat \ {0} /\ c \in Charges
    BY <1>1, PieceTyped DEF Typed
  <2>2. RefundKey(c, amount) \in Ids
    <3>1. PendingRefunds \in Nat /\ Cardinality(record.refunds) \in Nat /\ record.refunded \in Nat
      BY LeftTyped DEF Typed, RecordTyped, Records
    <3>2. record.refunded + PendingRefunds \in Nat
      BY <3>1
    <3> QED
      BY <2>1, <3>1, <3>2 DEF RefundKey, Ids
  <2> QED
    BY <2>1, <2>2 DEF RefundOf, Entries
<1>3. f \in Surjection(D, made)
  BY DEF Surjection
<1>4. IsFiniteSet(made)
  BY <1>1, <1>3, FS_Surjection
<1> QED
  BY <1>2, <1>4

LEMMA WrittenTyped ==
    ASSUME Typed, NEW made \in SUBSET Entries, IsFiniteSet(made)
    PROVE  RefundWritten(made) \in Records /\ IsFiniteSet(RefundWritten(made).refunds)
<1> DEFINE now == Sum(made)
           OfCharge(c) == Sum({r \in made : r.charge = c})
           topRefunded == [c \in TopUps |-> record.topRefunded[c] + OfCharge(c)]
           refunds == record.refunds \cup made
<1>1. now \in Nat /\ \A c : OfCharge(c) \in Nat
  BY LedgerSums
<1>2. topRefunded \in [TopUps -> Nat]
  <2> HIDE DEF OfCharge
  <2> QED
    BY <1>1 DEF Typed, RecordTyped, Records
<1>3. refunds \in SUBSET Entries /\ IsFiniteSet(refunds)
  BY FS_Union DEF Typed, RecordTyped, Records
<1>4. record.refunded + now \in Nat /\ AfterRefund(record.refunded + now) \in Statuses
  BY <1>1 DEF Typed, RecordTyped, Records, AfterRefund, Statuses
<1>5. RefundWritten(made) =
        IF mode = "async" THEN [record EXCEPT !.refunds = refunds]
        ELSE [record EXCEPT !.refunds = refunds, !.refunded = record.refunded + now,
                            !.status = AfterRefund(record.refunded + now),
                            !.topRefunded = topRefunded]
  BY DEF RefundWritten, Typed, RecordTyped, Records
<1> HIDE DEF now, topRefunded, refunds
<1> QED
  BY <1>2, <1>3, <1>4, <1>5 DEF Typed, RecordTyped, Records

LEMMA AskedTyped ==
    ASSUME Typed, NEW made \in SUBSET Entries, IsFiniteSet(made), RefundAsked(made)
    PROVE  /\ PayTyped' /\ pay'.asked = pay.asked
           /\ \A c : RefundedAt(c)' \in Nat
<1> DEFINE refunds == pay.refunds \cup {r \in made : ~Known(r)}
<1>1. IsFiniteSet({r \in made : ~Known(r)})
  BY FS_Subset
<1>2. refunds \in SUBSET Entries /\ IsFiniteSet(refunds)
  BY <1>1, FS_Union DEF Typed, PayTyped, Pays
<1>3. pay' = [pay EXCEPT !.refunds = refunds]
  BY DEF RefundAsked
<1> HIDE DEF refunds
<1>4. PayTyped' /\ pay'.asked = pay.asked /\ pay'.refunds = refunds
  BY <1>2, <1>3 DEF Typed, PayTyped, Pays
<1>5. \A c : RefundedAt(c)' \in Nat
  BY <1>2, <1>4, LedgerSums DEF RefundedAt
<1> QED
  BY <1>4, <1>5

LEMMA RefundTyped ==
    ASSUME Typed, Refund
    PROVE  Typed'
<1>1. PICK amount \in {1, Remaining} \cap 1..Remaining :
        LET reached == {c \in OpenCharges : Piece(c, amount) > 0}
        IN  \E last \in reached :
            LET made == {RefundOf(c, amount) : c \in {d \in reached : d <= last}}
            IN  /\ RefundAsked(made)
                /\ \/ record' = RefundWritten(made) /\ UNCHANGED told
                   \/ /\ record' = RefundWritten({r \in made : r.charge < last})
                      /\ told' = told \cup {"refund lost"}
                   \/ told' = told \cup {"refund lost"} /\ UNCHANGED record
                /\ events' = events \cup RefundReports(made)
  BY DEF Refund
<1> DEFINE reached == {c \in OpenCharges : Piece(c, amount) > 0}
<1>2. PICK last \in reached :
        LET made == {RefundOf(c, amount) : c \in {d \in reached : d <= last}}
        IN  /\ RefundAsked(made)
            /\ \/ record' = RefundWritten(made) /\ UNCHANGED told
               \/ /\ record' = RefundWritten({r \in made : r.charge < last})
                  /\ told' = told \cup {"refund lost"}
               \/ told' = told \cup {"refund lost"} /\ UNCHANGED record
            /\ events' = events \cup RefundReports(made)
  BY <1>1
<1> DEFINE D == {d \in reached : d <= last}
           made == {RefundOf(c, amount) : c \in D}
<1>3. amount \in Nat /\ D \in SUBSET OpenCharges /\ \A c \in D : Piece(c, amount) > 0
  OBVIOUS
<1>4. made \in SUBSET Entries /\ IsFiniteSet(made)
  <2> HIDE DEF D
  <2> QED
    BY <1>3, MadeTyped
<1> HIDE DEF made
<1>5. /\ RefundAsked(made)
      /\ record' \in {RefundWritten(made), RefundWritten({r \in made : r.charge < last}), record}
      /\ told' \in {told, told \cup {"refund lost"}}
      /\ events' = events \cup RefundReports(made)
  BY <1>2 DEF made
<1>6. UNCHANGED <<mode, cost, task, retry, applying>> /\ told' \subseteq Logged
  BY <1>5 DEF Refund, Typed, Logged
<1>7. PayTyped' /\ pay'.asked = pay.asked /\ \A c : RefundedAt(c)' \in Nat
  BY <1>4, <1>5, AskedTyped
<1>8. RecordTyped'
  <2>1. {r \in made : r.charge < last} \in SUBSET Entries /\ IsFiniteSet({r \in made : r.charge < last})
    BY <1>4, FS_Subset
  <2> QED
    BY <1>4, <1>5, <2>1, WrittenTyped DEF RecordTyped, Typed
<1>9. EventsTyped'
  <2>1. ASSUME NEW e \in RefundReports(made)
        PROVE  e \in Webhooks /\ e.op = "refunded"
    <3>1. PICK r \in made : e = [op |-> "refunded", charge |-> r.charge, total |-> RefundedAt(r.charge)']
      BY <2>1 DEF RefundReports
    <3>2. r.charge \in Charges /\ RefundedAt(r.charge)' \in Nat
      BY <1>4, <1>7 DEF Entries
    <3> QED
      BY <3>1, <3>2 DEF Webhooks
  <2> QED
    BY <1>5, <1>6, <1>7, <2>1 DEF Typed, EventsTyped
<1> QED
  BY <1>6, <1>7, <1>8, <1>9, PartsKept DEF Typed

LEMMA ResolveRefundTyped ==
    ASSUME Typed, ResolveRefund
    PROVE  Typed'
<1>1. PICK r \in pay.refunds, ok \in BOOLEAN :
          /\ pay' = [pay EXCEPT !.refunds =
                (@ \ {r}) \cup {[r EXCEPT !.state = IF ok THEN "done" ELSE "failed"]}]
          /\ events' = events \cup {[op |-> "refund", id |-> r.id, charge |-> r.charge,
                                     amount |-> r.amount, ok |-> ok]}
  BY DEF ResolveRefund
<1> DEFINE new == [r EXCEPT !.state = IF ok THEN "done" ELSE "failed"]
           refunds == (pay.refunds \ {r}) \cup {new}
           event == [op |-> "refund", id |-> r.id, charge |-> r.charge, amount |-> r.amount, ok |-> ok]
<1>2. r \in Entries
  BY DEF Typed, PayTyped, Pays
<1>3. new \in Entries /\ event \in Webhooks /\ event.op # "capture"
  BY <1>2 DEF Entries, Webhooks
<1>4. IsFiniteSet(pay.refunds \ {r}) /\ IsFiniteSet({new})
  BY FS_Subset, FS_Singleton DEF Typed, PayTyped
<1>5. refunds \in SUBSET Entries /\ IsFiniteSet(refunds)
  BY <1>3, <1>4, FS_Union DEF Typed, PayTyped, Pays
<1>6. pay' = [pay EXCEPT !.refunds = refunds] /\ events' = events \cup {event}
  BY <1>1
<1> HIDE DEF refunds, event
<1>7. PayTyped' /\ pay'.asked = pay.asked
  BY <1>5, <1>6 DEF Typed, PayTyped, Pays
<1>8. EventsTyped'
  BY <1>3, <1>6, <1>7 DEF Typed, EventsTyped, ResolveRefund
<1> QED
  BY <1>7, <1>8, PartsKept DEF Typed, ResolveRefund

LEMMA SettleTyped ==
    ASSUME Typed, NEW e \in events, SettleRefund(e)
    PROVE  Typed'
<1> DEFINE listed == {r \in record.refunds : r.id = e.id}
           entry == [id |-> e.id, charge |-> e.charge, amount |-> e.amount,
                     state |-> IF e.ok THEN "done" ELSE "failed"]
           total == record.refunded + e.amount
           ledger == (record.refunds \ listed) \cup {entry}
           topRefunded == [c \in TopUps |-> IF c = e.charge
                             THEN Min({record.tops[c], record.topRefunded[c] + e.amount})
                             ELSE record.topRefunded[c]]
<1>1. e.op = "refund" /\ e \in Webhooks
  BY DEF SettleRefund, Typed, EventsTyped
<1>2. e.id \in Ids /\ e.charge \in Charges /\ e.amount \in Nat \ {0} /\ e.ok \in BOOLEAN
  BY <1>1 DEF Webhooks
<1>3. ledger \in SUBSET Entries /\ IsFiniteSet(ledger)
  <2>1. entry \in Entries
    BY <1>2 DEF Entries
  <2>2. IsFiniteSet(record.refunds \ listed) /\ IsFiniteSet({entry})
    BY FS_Subset, FS_Singleton DEF Typed, RecordTyped
  <2> QED
    BY <2>1, <2>2, FS_Union DEF Typed, RecordTyped, Records
<1>4. total \in Nat /\ AfterRefund(total) \in Statuses
  BY <1>2 DEF Typed, RecordTyped, Records, AfterRefund, Statuses
<1>5. topRefunded \in [TopUps -> Nat]
  <2>1. ASSUME NEW c \in TopUps
        PROVE  Min({record.tops[c], record.topRefunded[c] + e.amount}) \in Nat
    <3>1. record.tops[c] \in Nat /\ record.topRefunded[c] + e.amount \in Nat
      BY <1>2 DEF Typed, RecordTyped, Records
    <3> QED
      BY <3>1, NatMax
  <2> QED
    BY <2>1 DEF Typed, RecordTyped, Records
<1>6. \/ record' = record
      \/ record' = [record EXCEPT !.refunds = ledger]
      \/ record' = [record EXCEPT !.refunds = ledger, !.refunded = total,
                                  !.status = AfterRefund(total), !.topRefunded = topRefunded]
  BY DEF SettleRefund, Typed, RecordTyped, Records
<1> HIDE DEF ledger, topRefunded, total
<1>7. RecordTyped'
  BY <1>3, <1>4, <1>5, <1>6 DEF Typed, RecordTyped, Records
<1>8. EventsTyped'
  <2>1. e \notin applying
    BY <1>1 DEF Typed, EventsTyped
  <2> QED
    BY <2>1, LeavesTyped DEF SettleRefund
<1> QED
  BY <1>7, <1>8, PartsKept DEF Typed, SettleRefund

LEMMA SettleTotalTyped ==
    ASSUME Typed, NEW e \in events, SettleRefundedTotal(e)
    PROVE  Typed'
<1> DEFINE before == RefundedFor(e.charge)
           now == IF Total(record.tops, TopUps) = 0 THEN e.total
                  ELSE Min({TakenFor(e.charge), Max({before, e.total})})
           total == record.refunded + now - before
           topRefunded == [c \in TopUps |-> IF c = e.charge THEN now ELSE record.topRefunded[c]]
<1>1. e.op = "refunded" /\ e \in Webhooks
  BY DEF SettleRefundedTotal, Typed, EventsTyped
<1>2. e.charge \in Charges /\ e.total \in Nat
  BY <1>1 DEF Webhooks
<1>3. before \in Nat /\ now \in Nat
  <2>1. before \in Nat /\ TakenFor(e.charge) \in Nat
    BY <1>2, LeftTyped DEF Typed
  <2> HIDE DEF before
  <2>2. Max({before, e.total}) \in Nat
    BY <1>2, <2>1, NatMax
  <2>3. Min({TakenFor(e.charge), Max({before, e.total})}) \in Nat
    BY <2>1, <2>2, NatMax
  <2> QED
    BY <1>2, <2>1, <2>3
<1> HIDE DEF before, now
<1>4. \/ record' = record
      \/ /\ now > before
         /\ record' = [record EXCEPT !.refunded = total, !.status = AfterRefund(total),
                                     !.topRefunded = topRefunded]
  BY DEF SettleRefundedTotal, Typed, RecordTyped, Records, before, now
<1>5. topRefunded \in [TopUps -> Nat] /\ AfterRefund(total) \in Statuses
      /\ (now > before => total \in Nat)
  BY <1>3 DEF Typed, RecordTyped, Records, AfterRefund, Statuses
<1> HIDE DEF total, topRefunded
<1>6. RecordTyped'
  BY <1>4, <1>5 DEF Typed, RecordTyped, Records
<1>7. EventsTyped'
  <2>1. e \notin applying
    BY <1>1 DEF Typed, EventsTyped
  <2> QED
    BY <2>1, LeavesTyped DEF SettleRefundedTotal
<1> QED
  BY <1>6, <1>7, PartsKept DEF Typed, SettleRefundedTotal

LEMMA TypedStep == Typed /\ [Next]_vars => Typed'
<1> SUFFICES ASSUME Typed, [Next]_vars PROVE Typed'
  OBVIOUS
<1>1. CASE UNCHANGED vars
  BY <1>1, PartsKept DEF vars, Typed
<1>2. CASE SettleBegins
  <2>1. cost \in Nat
    BY CostsAssumption DEF Typed
  <2>2. Min({cost, Hold}) \in 0..Hold /\ Min({cost, Hold}) <= cost
    BY <2>1, HoldAssumption, MaxIs
  <2> QED
    BY <1>2, <2>2, BeginTyped DEF SettleBegins, Tasks
<1>3. CASE OperatorBegins
  BY <1>3, AmountsAssumption, BeginTyped DEF OperatorBegins, Tasks
<1>4. CASE RetrySelects
  BY <1>4, RetryTyped DEF Retries
<1> QED
  BY <1>1, <1>2, <1>3, <1>4, AsksTyped, EndsTyped, TopUpTyped, RetryTyped, OwnTyped, RefundTyped,
     ResolveRefundTyped, WebhookTyped, SettleTyped, SettleTotalTyped DEF Next

LEMMA TypedHolds == Spec => []Typed
BY TypedInit, TypedStep, PTL DEF Spec

\* The record, the provider's side, the tasks, the retries and the webhooks
\* stay in their ranges; no capture, top-up or retry takes the captured total
\* past the larger of the hold and the final cost.
THEOREM PaymentTypes == Spec => []TypeOK
<1>1. Typed => TypeOK
  BY DEF Typed, TypeOK, RecordTyped, Records, Most, Words, PayTyped, Pays, TasksTyped, TaskStates,
         RetriesTyped, RetryStates, EventsTyped, Logged
<1> QED
  BY <1>1, TypedHolds, PTL

(***************************************************************************)
(* The books agree.                                                        *)
(***************************************************************************)

\* The hold's charge is the capture asked for, as long as it stands.
HoldTaken ==
    /\ pay.taken[HoldCharge] = IF pay.hold = "captured" THEN pay.asked.capture ELSE 0
    /\ pay.hold = "returned" => pay.asked.capture >= 0
    /\ mode = "sync" =>
          /\ pay.asked.capture >= 0 => pay.hold = "captured"
          /\ \A e \in events : e.op # "capture"

\* Only a capture is followed by a top-up.
TopsAreCaptures ==
    \A t \in Tasks :
       /\ task[t].pc = "topup" \/ task[t].top => task[t].op = "capture"
       /\ task[t].top => task[t].pc = "record"

\* The tasks the provider has answered, and that have not been recorded.
Flying == {t \in Tasks : task[t].pc \in {"topup", "record"}}

CaptureWent(ok) == [op |-> "capture", ok |-> ok]

\* Good news on its way is true, unless bad news follows it.
NewsIsTrue == CaptureWent(TRUE) \in events => pay.hold = "captured" \/ CaptureWent(FALSE) \in events

NoRetry == \A r \in Retries : retry[r].pc = "idle"
Untouched == NoRetry /\ pay.asked.capture = -1 /\ \A c \in TopUps : pay.taken[c] = 0

\* One task has asked: the provider did what it was asked, and no more.
AskedBy(t) ==
    /\ NoRetry /\ NewsIsTrue
    /\ pay.asked.capture = IF task[t].op = "capture" THEN task[t].amount ELSE -1
    /\ \A c \in TopUps :
          pay.taken[c] = IF c = TopUp /\ task[t].top THEN cost - task[t].amount ELSE 0

\* What the settlement or the operator captured, before any retry.
Base == pay.asked.capture + pay.taken[TopUp]

\* The record has the base, or the cost once a retry has charged what was
\* missing; a retry's charge is on the record, or in the hands of a retry.
Accounted ==
    /\ NewsIsTrue /\ pay.asked.capture >= 0 /\ record.pending # "cancel"
    /\ record.pending = "none" => pay.hold = "captured" \/ CaptureWent(FALSE) \in events
    /\ \/ record.captured = Base
       \/ Base < cost /\ record.captured = cost /\ pay.taken[RetryOf(Base)] = cost - Base
    /\ \A c \in TopUps \ {TopUp} :
          \/ pay.taken[c] = 0
          \/ /\ Base < cost /\ c = RetryOf(Base) /\ pay.taken[c] = cost - Base
             /\ record.captured = cost \/ \E r \in Retries : retry[r].pc = "record"
    /\ \A r \in Retries :
          /\ retry[r].pc \in {"charge", "record"} => Base < cost /\ retry[r].captured = Base
          /\ retry[r].pc = "record" => pay.taken[RetryOf(Base)] = cost - Base

Booking ==
    /\ IsHold /\ Flying = {} => Untouched
    /\ IsHold => \A t \in Tasks : Flying = {t} => AskedBy(t)
    /\ ~IsHold /\ Flying = {} =>
          IF record.status \in {"failed", "cancelled"} THEN Untouched ELSE Accounted

BookInv == Typed /\ HoldTaken /\ TopsAreCaptures /\ (told = {} => Booking)

LEMMA BaseFacts ==
    ASSUME Typed
    PROVE  /\ cost \in Nat /\ TopUp \in TopUps /\ HoldCharge \notin TopUps /\ TopUps \subseteq Charges
           /\ pay.taken \in [Charges -> Nat] /\ pay.asked.capture \in -1..Hold /\ Hold \in Nat
           /\ pay.asked.capture >= 0 =>
                 /\ Base \in Nat
                 /\ Base < cost => RetryOf(Base) \in TopUps \ {TopUp}
<1>1. /\ cost \in 0..MaxCost /\ MaxCost \in Nat /\ TopUps = 1..(2 + MaxCost)
      /\ Charges = 0..(2 + MaxCost)
  BY Amounts DEF Typed
<1>2. /\ TopUp \in TopUps /\ HoldCharge \notin TopUps /\ TopUps \subseteq Charges
  BY <1>1 DEF TopUp, HoldCharge
<1>3. pay.taken \in [Charges -> Nat] /\ pay.asked.capture \in -1..Hold /\ Hold \in Nat
  BY PayFacts DEF Typed
<1>4. pay.taken[TopUp] \in Nat
  BY <1>2, <1>3
<1>5. ASSUME pay.asked.capture >= 0
      PROVE  /\ Base \in Nat
             /\ Base < cost => RetryOf(Base) \in TopUps \ {TopUp}
  <2>1. Base \in Nat
    BY <1>3, <1>4, <1>5 DEF Base
  <2>2. Base < cost => RetryOf(Base) \in TopUps \ {TopUp}
    BY <1>1, <2>1 DEF RetryOf, TopUp
  <2> QED
    BY <2>1, <2>2
<1> QED
  BY <1>1, <1>2, <1>3, <1>5

Closed == record.status \in {"failed", "cancelled"}

\* A step that leaves the tasks, the retries and the top-ups alone.
LEMMA BooksKept ==
    ASSUME Typed, Booking, UNCHANGED <<task, retry, cost>>,
           pay'.asked = pay.asked, \A c \in TopUps : pay'.taken[c] = pay.taken[c],
           IsHold' <=> IsHold, Closed' <=> Closed, record'.captured = record.captured,
           NewsIsTrue => NewsIsTrue',
           ~IsHold /\ ~Closed /\ Accounted =>
              /\ record'.pending # "cancel"
              /\ record'.pending = "none" => pay'.hold = "captured" \/ CaptureWent(FALSE) \in events'
    PROVE  Booking'
<1>1. Flying' = Flying /\ (NoRetry' <=> NoRetry) /\ (Untouched <=> Untouched')
  BY DEF Flying, NoRetry, Untouched
<1>2. \A t \in Tasks : AskedBy(t) => AskedBy(t)'
  BY <1>1 DEF AskedBy
<1>3. ASSUME ~IsHold, ~Closed, Accounted
      PROVE  Accounted'
  <2>1. Base' = Base
    BY BaseFacts DEF Base
  <2>2. Base < cost => RetryOf(Base) \in TopUps
    BY <1>3, BaseFacts DEF Accounted
  <2>3. Base < cost => pay'.taken[RetryOf(Base)] = pay.taken[RetryOf(Base)]
    BY <2>2
  <2>4. RetryOf(Base)' = RetryOf(Base)
    BY <2>1 DEF RetryOf
  <2> HIDE DEF Base, RetryOf
  <2>5. /\ NewsIsTrue' /\ pay'.asked.capture >= 0 /\ record'.pending # "cancel"
        /\ record'.pending = "none" => pay'.hold = "captured" \/ CaptureWent(FALSE)' \in events'
    BY <1>3 DEF Accounted, CaptureWent
  <2>6. \/ record'.captured = Base
        \/ Base < cost /\ record'.captured = cost /\ pay'.taken[RetryOf(Base)] = cost - Base
    BY <1>3, <2>3 DEF Accounted
  <2>7. \A c \in TopUps \ {TopUp} :
          \/ pay'.taken[c] = 0
          \/ /\ Base < cost /\ c = RetryOf(Base) /\ pay'.taken[c] = cost - Base
             /\ record'.captured = cost \/ \E r \in Retries : retry'[r].pc = "record"
    BY <1>3 DEF Accounted
  <2>8. \A r \in Retries :
          /\ retry'[r].pc \in {"charge", "record"} => Base < cost /\ retry'[r].captured = Base
          /\ retry'[r].pc = "record" => pay'.taken[RetryOf(Base)] = cost - Base
    BY <1>3, <2>3 DEF Accounted
  <2> QED
    BY <2>1, <2>4, <2>5, <2>6, <2>7, <2>8 DEF Accounted
<1> QED
  BY <1>1, <1>2, <1>3 DEF Booking, Closed

\* A step of a task that is not one of those the provider has answered.
LEMMA OthersKept ==
    ASSUME Booking, UNCHANGED <<record, pay, retry, events, cost>>,
           Flying' = Flying, \A t \in Flying : task'[t] = task[t]
    PROVE  Booking'
<1>1. NoRetry' <=> NoRetry
  BY DEF NoRetry
<1>2. \A t \in Flying : AskedBy(t) => AskedBy(t)'
  BY <1>1 DEF AskedBy, NewsIsTrue
<1>3. (Untouched => Untouched') /\ (Accounted => Accounted') /\ (IsHold' <=> IsHold)
  BY DEF Untouched, NoRetry, Accounted, NewsIsTrue, Base, IsHold
<1> QED
  BY <1>2, <1>3 DEF Booking

LEMMA BookInit == Init => BookInv
<1> SUFFICES ASSUME Init PROVE BookInv
  OBVIOUS
<1>1. Typed
  BY TypedInit
<1>2. /\ pay.hold = "held" /\ pay.asked.capture = -1 /\ pay.taken = [c \in Charges |-> 0]
      /\ events = {} /\ IsHold
      /\ \A t \in Tasks : task[t].pc = "idle" /\ ~task[t].top
      /\ \A r \in Retries : retry[r].pc = "idle"
  BY DEF Init, Idle, RetryIdle, IsHold
<1>3. HoldTaken /\ TopsAreCaptures
  BY <1>1, <1>2, BaseFacts, PayFacts DEF HoldTaken, TopsAreCaptures, Typed
<1>4. Flying = {} /\ Untouched
  BY <1>1, <1>2, BaseFacts DEF Flying, Untouched, NoRetry
<1> QED
  BY <1>1, <1>2, <1>3, <1>4 DEF BookInv, Booking

LEMMA HoldKept ==
    ASSUME HoldTaken, mode' = mode, pay'.hold = pay.hold, pay'.asked = pay.asked,
           pay'.taken[HoldCharge] = pay.taken[HoldCharge],
           \A e \in events' : e \in events \/ e.op # "capture"
    PROVE  HoldTaken'
BY DEF HoldTaken

\* A request: the provider carries it out, or keeps it for later.
LEMMA AskHold ==
    ASSUME Typed, HoldTaken, NEW op \in {"capture", "cancel"}, NEW amount \in 0..Hold,
           ProviderTakes(op, amount), UNCHANGED <<mode, events>>
    PROVE  /\ HoldTaken'
           /\ \A c \in TopUps : pay'.taken[c] = pay.taken[c]
           /\ pay'.asked.capture = IF op = "capture" /\ pay.asked.capture < 0
                                   THEN amount ELSE pay.asked.capture
<1>0. pay \in Pays /\ HoldCharge \notin TopUps /\ HoldCharge \in Charges /\ TopUps \subseteq Charges
      /\ pay.asked.capture \in Int /\ pay.asked.cancel \in Int
      /\ (pay.hold = "captured" => pay.asked.capture >= 0)
  BY BaseFacts, PayFacts DEF Typed, PayTyped
<1>1. CASE UNCHANGED pay /\ pay.asked[op] >= 0
  BY <1>0, <1>1, HoldKept
<1>2. CASE Done(op, amount) /\ ~(pay.asked[op] >= 0)
  <2>1. /\ mode = "sync" /\ pay.hold = "held"
        /\ pay' = [pay EXCEPT !.asked[op] = amount,
                              !.hold = IF op = "capture" THEN "captured" ELSE "cancelled",
                              !.taken[HoldCharge] = IF op = "capture" THEN amount ELSE 0]
    BY <1>2 DEF Done
  <2>2. CASE op = "capture"
    <3>1. /\ pay'.hold = "captured" /\ pay'.asked.capture = amount /\ pay'.taken[HoldCharge] = amount
          /\ \A c \in TopUps : pay'.taken[c] = pay.taken[c]
      BY <1>0, <2>1, <2>2 DEF Pays
    <3> QED
      BY <1>0, <1>2, <2>1, <2>2, <3>1 DEF HoldTaken
  <2>3. CASE op = "cancel"
    <3>1. /\ pay'.hold = "cancelled" /\ pay'.asked.capture = pay.asked.capture /\ pay'.taken[HoldCharge] = 0
          /\ \A c \in TopUps : pay'.taken[c] = pay.taken[c]
      BY <1>0, <2>1, <2>3 DEF Pays
    <3> QED
      BY <1>0, <2>1, <2>3, <3>1 DEF HoldTaken
  <2> QED
    BY <2>2, <2>3
<1>3. CASE Accepted(op, amount)
  <2>1. /\ mode = "async"
        /\ pay' = [pay EXCEPT !.asked[op] = IF @ >= 0 THEN @ ELSE amount]
    BY <1>3 DEF Accepted
  <2>2. /\ pay'.hold = pay.hold /\ pay'.taken = pay.taken
        /\ pay'.asked.capture = IF op = "capture" /\ pay.asked.capture < 0
                                THEN amount ELSE pay.asked.capture
    <3>1. CASE op = "capture"
      BY <1>0, <2>1, <3>1 DEF Pays
    <3>2. CASE op = "cancel"
      BY <1>0, <2>1, <3>2 DEF Pays
    <3> QED
      BY <3>1, <3>2
  <2>3. pay.hold \in {"captured", "returned"} => pay.asked.capture >= 0
    BY <1>0 DEF HoldTaken
  <2> QED
    BY <1>0, <2>1, <2>2, <2>3 DEF HoldTaken
<1> QED
  BY <1>1, <1>2, <1>3 DEF ProviderTakes, Done

\* A charge of a top-up, once.
LEMMA ChargeHold ==
    ASSUME Typed, HoldTaken, NEW c \in TopUps, NEW amount, ChargedOnce(c, amount),
           UNCHANGED <<mode, events>>
    PROVE  /\ HoldTaken'
           /\ pay'.asked = pay.asked /\ pay'.hold = pay.hold
           /\ \A d \in Charges : pay'.taken[d] = IF d # c \/ pay.taken[d] > 0 THEN pay.taken[d] ELSE amount
<1>1. /\ pay'.asked = pay.asked /\ pay'.hold = pay.hold
      /\ \A d \in Charges : pay'.taken[d] = IF d # c \/ pay.taken[d] > 0 THEN pay.taken[d] ELSE amount
  BY DEF ChargedOnce, Typed, PayTyped, Pays
<1>2. HoldCharge \in Charges /\ HoldCharge # c
  BY BaseFacts, PayFacts DEF Typed
<1> QED
  BY <1>1, <1>2, HoldKept

(***************************************************************************)
(* The tasks.                                                              *)
(***************************************************************************)
Books == HoldTaken /\ TopsAreCaptures /\ (told = {} => Booking)

LEMMA BeginBooks ==
    ASSUME BookInv, NEW t \in Tasks, NEW amount, Begin(t, amount)
    PROVE  Books'
<1> DEFINE v == [Idle EXCEPT !.pc = "ask", !.amount = amount,
                             !.op = IF amount = 0 THEN "cancel" ELSE "capture"]
<1>1. v.pc = "ask" /\ ~v.top /\ task' = [task EXCEPT ![t] = v]
  BY DEF Idle, Begin
<1> HIDE DEF v
<1>2. \A u \in Tasks : task'[u] = IF u = t THEN v ELSE task[u]
  BY <1>1 DEF BookInv, Typed, TasksTyped
<1>3. Flying' = Flying /\ (\A u \in Flying : task'[u] = task[u]) /\ TopsAreCaptures'
  BY <1>1, <1>2 DEF Flying, Begin, BookInv, TopsAreCaptures
<1> QED
  BY <1>3, OthersKept, HoldKept DEF BookInv, Books, Begin

LEMMA ThrowBooks ==
    ASSUME BookInv, NEW t \in Tasks,
           (task[t].pc = "ask" /\ AskThrows(t)) \/ task' = [task EXCEPT ![t] = Idle]
    PROVE  /\ TopsAreCaptures' /\ Flying' = Flying \ {t}
           /\ \A u \in Tasks \ {t} : task'[u] = task[u]
<1> DEFINE v == IF t = "settle" THEN [task[t] EXCEPT !.pc = "fail"] ELSE Idle
<1>0. Idle \in TaskStates /\ v \in TaskStates
  BY Amounts DEF TaskStates, Idle, Words, BookInv, Typed, TasksTyped
<1>1. \A w : task' = [task EXCEPT ![t] = w] => \A u \in Tasks : task'[u] = IF u = t THEN w ELSE task[u]
  BY DEF BookInv, Typed, TasksTyped
<1>2. ASSUME NEW w \in TaskStates, w.pc \in {"fail", "idle"}, ~w.top, task' = [task EXCEPT ![t] = w]
      PROVE  /\ TopsAreCaptures' /\ Flying' = Flying \ {t}
             /\ \A u \in Tasks \ {t} : task'[u] = task[u]
  <2>1. \A u \in Tasks : task'[u] = IF u = t THEN w ELSE task[u]
    BY <1>1, <1>2
  <2>2. TopsAreCaptures'
    <3>1. ASSUME NEW u \in Tasks
          PROVE  /\ task'[u].pc = "topup" \/ task'[u].top => task'[u].op = "capture"
                 /\ task'[u].top => task'[u].pc = "record"
      <4>1. CASE u = t
        <5>1. task'[u].pc # "topup" /\ ~task'[u].top
          BY <1>2, <2>1, <4>1
        <5> QED
          BY <5>1
      <4>2. CASE u # t
        BY <2>1, <4>2 DEF BookInv, TopsAreCaptures
      <4> QED
        BY <4>1, <4>2
    <3> QED
      BY <3>1 DEF TopsAreCaptures
  <2>3. Flying' = Flying \ {t}
    BY <1>2, <2>1 DEF Flying
  <2> QED
    BY <2>1, <2>2, <2>3
<1>3. CASE task' = [task EXCEPT ![t] = Idle]
  <2>1. Idle.pc \in {"fail", "idle"} /\ ~Idle.top
    BY DEF Idle
  <2> QED
    BY <1>0, <1>2, <1>3, <2>1
<1>4. CASE AskThrows(t) /\ task[t].pc = "ask"
  <2>1. task' = [task EXCEPT ![t] = v]
    BY <1>4 DEF AskThrows
  <2>2. v.pc \in {"fail", "idle"} /\ ~v.top
    BY <1>4 DEF Idle, BookInv, Typed, TasksTyped, TaskStates, TopsAreCaptures
  <2> HIDE DEF v
  <2> QED
    BY <1>0, <1>2, <2>1, <2>2
<1> QED
  BY <1>3, <1>4

LEMMA AskBooks ==
    ASSUME BookInv, NEW t \in Tasks, Ask(t) \/ AskRefused(t) \/ AskAnswerLost(t)
    PROVE  Books'
<1>0. /\ Typed /\ task[t].op \in {"capture", "cancel"} /\ task[t].amount \in 0..Hold
      /\ ~task[t].top /\ task[t].pc = "ask" /\ UNCHANGED <<mode, cost, record, retry, events>>
      /\ task \in [Tasks -> TaskStates]
  BY DEF BookInv, Typed, TasksTyped, TaskStates, TopsAreCaptures, Ask, AskRefused, AskAnswerLost
<1>1. CASE Ask(t)
  <2>1. /\ HoldTaken'
        /\ \A c \in TopUps : pay'.taken[c] = pay.taken[c]
        /\ pay'.asked.capture = IF task[t].op = "capture" /\ pay.asked.capture < 0
                                THEN task[t].amount ELSE pay.asked.capture
    BY <1>0, <1>1, AskHold DEF BookInv, Ask
  <2>2. /\ task'[t].pc = AfterCapture(t) /\ task'[t].op = task[t].op
        /\ task'[t].amount = task[t].amount /\ ~task'[t].top
        /\ \A u \in Tasks \ {t} : task'[u] = task[u]
    BY <1>0, <1>1 DEF Ask, TaskStates
  <2>3. AfterCapture(t) \in {"topup", "record"} /\ (AfterCapture(t) = "topup" => task[t].op = "capture")
    BY DEF AfterCapture
  <2>4. TopsAreCaptures'
    <3>1. ASSUME NEW u \in Tasks
          PROVE  /\ task'[u].pc = "topup" \/ task'[u].top => task'[u].op = "capture"
                 /\ task'[u].top => task'[u].pc = "record"
      <4>1. CASE u = t
        BY <2>2, <2>3, <4>1
      <4>2. CASE u # t
        BY <2>2, <4>2 DEF BookInv, TopsAreCaptures
      <4> QED
        BY <4>1, <4>2
    <3> QED
      BY <3>1 DEF TopsAreCaptures
  <2>5. Flying' = Flying \cup {t} /\ t \notin Flying
    BY <1>0, <2>2, <2>3 DEF Flying
  <2>6. told = {} => Booking'
    <3>1. CASE ~IsHold \/ Flying # {}
      <4>1. Flying' # {} /\ (Flying # {} => \A u \in Tasks : Flying' # {u}) /\ IsHold' = IsHold
        BY <1>0, <2>5 DEF IsHold
      <4> QED
        BY <3>1, <4>1 DEF Booking
    <3>2. CASE told = {} /\ IsHold /\ Flying = {}
      <4>1. Untouched
        BY <3>2 DEF BookInv, Booking
      <4>2. CaptureWent(TRUE) \notin events
        <5>1. CaptureWent(TRUE).op = "capture"
          BY DEF CaptureWent
        <5>2. \A e \in events : e.op # "capture"
          BY <1>0, <4>1, BaseFacts DEF Typed, EventsTyped, Untouched
        <5> QED
          BY <5>1, <5>2
      <4>3. AskedBy(t)'
        <5>1. NoRetry' /\ NewsIsTrue'
          BY <1>0, <4>1, <4>2 DEF Untouched, NoRetry, NewsIsTrue, CaptureWent
        <5>2. pay'.asked.capture = IF task'[t].op = "capture" THEN task'[t].amount ELSE -1
          BY <2>1, <2>2, <4>1 DEF Untouched
        <5>3. \A c \in TopUps :
                 pay'.taken[c] = IF c = TopUp /\ task'[t].top THEN cost' - task'[t].amount ELSE 0
          BY <2>1, <2>2, <4>1 DEF Untouched
        <5> QED
          BY <5>1, <5>2, <5>3 DEF AskedBy
      <4>4. Flying' = {t} /\ IsHold'
        BY <1>0, <2>5, <3>2 DEF IsHold
      <4> QED
        BY <4>3, <4>4 DEF Booking
    <3> QED
      BY <3>1, <3>2
  <2> QED
    BY <1>1, <2>1, <2>4, <2>6 DEF Books, Ask
<1>2. CASE AskRefused(t) \/ AskAnswerLost(t)
  <2>1. /\ TopsAreCaptures' /\ Flying' = Flying \ {t}
        /\ \A u \in Tasks \ {t} : task'[u] = task[u]
    BY <1>0, <1>2, ThrowBooks DEF AskRefused, AskAnswerLost
  <2>2. Flying' = Flying /\ \A u \in Flying : task'[u] = task[u]
    BY <1>0, <2>1 DEF Flying
  <2>3. CASE AskRefused(t)
    BY <1>0, <2>1, <2>2, <2>3, OthersKept, HoldKept DEF BookInv, Books, AskRefused
  <2>4. CASE AskAnswerLost(t)
    BY <1>0, <2>1, <2>4, AskHold DEF BookInv, Books, AskAnswerLost
  <2> QED
    BY <1>2, <2>3, <2>4
<1> QED
  BY <1>1, <1>2

LEMMA EndBooks ==
    ASSUME BookInv, NEW t \in Tasks, MarkFailed(t) \/ Record(t) \/ RecordFails(t)
    PROVE  Books'
<1>0. /\ Typed /\ task' = [task EXCEPT ![t] = Idle] /\ UNCHANGED <<mode, cost, pay, retry, events>>
  BY DEF BookInv, MarkFailed, Record, RecordFails
<1>1. /\ TopsAreCaptures' /\ Flying' = Flying \ {t}
      /\ \A u \in Tasks \ {t} : task'[u] = task[u]
  BY <1>0, ThrowBooks
<1>2. HoldTaken'
  BY <1>0, HoldKept DEF BookInv
<1>3. ASSUME told' = {}, RecordFails(t)
      PROVE  Booking'
  BY <1>3 DEF RecordFails
<1>4. ASSUME told' = {}, MarkFailed(t)
      PROVE  Booking'
  <2>1. told = {} /\ Flying' = Flying /\ \A u \in Flying : task'[u] = task[u]
    BY <1>1, <1>4 DEF MarkFailed, Flying
  <2>2. CASE ~IsHold
    BY <1>0, <1>4, <2>1, <2>2, OthersKept DEF BookInv, MarkFailed
  <2>3. CASE IsHold
    <3>1. record'.status = "failed" /\ ~IsHold'
      BY <1>4, <2>3 DEF MarkFailed, HoldFailed, BookInv, Typed, RecordTyped, Records, IsHold
    <3>2. Flying = {} => Untouched'
      BY <1>0, <2>1, <2>3 DEF BookInv, Booking, Untouched, NoRetry
    <3> QED
      BY <2>1, <3>1, <3>2 DEF Booking
  <2> QED
    BY <2>2, <2>3
<1>5. ASSUME told' = {}, Record(t)
      PROVE  Booking'
  <2>1. IsHold /\ told = {} /\ record' = Outcome(t) /\ t \in Flying
    BY <1>5 DEF Record, Flying
  <2>2. CASE Flying # {t}
    <3>1. Flying' # {}
      BY <1>1, <2>1, <2>2
    <3>2. ~IsHold'
      BY <1>0, <2>1 DEF Outcome, Cancelled, Captured, IsHold, Typed, RecordTyped, Records
    <3> QED
      BY <3>1, <3>2 DEF Booking
  <2>3. CASE Flying = {t}
    <3>1. AskedBy(t) /\ Flying' = {}
      BY <1>1, <2>1, <2>3 DEF BookInv, Booking
    <3>2. CASE task[t].op = "cancel"
      <4>1. record'.status = "cancelled"
        BY <1>0, <2>1, <3>2 DEF Outcome, Cancelled, Typed, RecordTyped, Records
      <4>2. ~task[t].top
        BY <3>2 DEF BookInv, TopsAreCaptures
      <4>3. Untouched'
        BY <1>0, <3>1, <3>2, <4>2 DEF AskedBy, Untouched, NoRetry
      <4> QED
        BY <3>1, <4>1, <4>3 DEF Booking, IsHold
    <3>3. CASE task[t].op # "cancel"
      <4> DEFINE top == IF task[t].top THEN cost - task[t].amount ELSE 0
      <4>1. task[t].op = "capture" /\ task[t].amount \in 0..Hold
        BY <1>0, <2>1, <3>3 DEF Typed, TasksTyped, TaskStates, Flying
      <4>2. /\ record'.status = "captured" /\ record'.captured = task[t].amount + top
            /\ record'.pending = Refs("capture")
        BY <1>0, <2>1, <3>3 DEF Outcome, Captured, Typed, RecordTyped, Records
      <4>3. pay.asked.capture = task[t].amount /\ pay.taken[TopUp] = top
        BY <1>0, <3>1, <4>1, BaseFacts DEF AskedBy
      <4>4. Base = task[t].amount + top /\ Base' = Base
        BY <1>0, <4>3 DEF Base
      <4>5. Accounted'
        <5>1. NewsIsTrue' /\ pay'.asked.capture >= 0 /\ record'.pending # "cancel"
          BY <1>0, <3>1, <4>1, <4>2, <4>3 DEF AskedBy, NewsIsTrue, CaptureWent, Refs
        <5>2. record'.pending = "none" => pay'.hold = "captured"
          <6>1. record'.pending = "none" => mode = "sync"
            BY <1>0, <4>2 DEF Refs, Typed
          <6> QED
            BY <1>0, <4>1, <4>3, <6>1 DEF BookInv, HoldTaken
        <5>3. record'.captured = Base'
          BY <4>2, <4>4
        <5>4. \A c \in TopUps \ {TopUp} : pay'.taken[c] = 0
          BY <1>0, <3>1 DEF AskedBy
        <5>5. \A r \in Retries : retry'[r].pc = "idle"
          BY <1>0, <3>1 DEF AskedBy, NoRetry
        <5> HIDE DEF top
        <5> QED
          BY <5>1, <5>2, <5>3, <5>4, <5>5 DEF Accounted
      <4> QED
        BY <3>1, <4>2, <4>5 DEF Booking, IsHold
    <3> QED
      BY <3>2, <3>3
  <2> QED
    BY <2>2, <2>3
<1> QED
  BY <1>1, <1>2, <1>3, <1>4, <1>5 DEF Books

LEMMA TopUpBooks ==
    ASSUME BookInv, ChargeTopUp \/ TopUpDeclined
    PROVE  Books'
<1> DEFINE t == "settle"
<1>0. /\ Typed /\ UNCHANGED <<mode, cost, record, retry, events>>
      /\ t \in Tasks /\ t \in Flying /\ task[t].op = "capture" /\ ~task[t].top /\ task[t].pc = "topup"
      /\ task \in [Tasks -> TaskStates]
  BY DEF BookInv, Typed, TasksTyped, TopsAreCaptures, ChargeTopUp, TopUpDeclined, Flying, Tasks
<1>1. /\ \A u \in Tasks \ {t} : task'[u] = task[u]
      /\ task'[t].pc = "record" /\ task'[t].op = "capture" /\ task'[t].amount = task[t].amount
      /\ ChargeTopUp => task'[t].top
      /\ ~ChargeTopUp => ~task'[t].top
  <2>1. CASE ChargeTopUp
    BY <1>0, <2>1 DEF ChargeTopUp, TaskStates
  <2>2. CASE TopUpDeclined /\ ~ChargeTopUp
    BY <1>0, <2>2 DEF TopUpDeclined, TaskStates
  <2> QED
    BY <2>1, <2>2
<1>2. TopsAreCaptures'
  <2>1. ASSUME NEW u \in Tasks
        PROVE  /\ task'[u].pc = "topup" \/ task'[u].top => task'[u].op = "capture"
               /\ task'[u].top => task'[u].pc = "record"
    <3>1. CASE u = t
      BY <1>1, <3>1
    <3>2. CASE u # t
      BY <1>1, <3>2 DEF BookInv, TopsAreCaptures
    <3> QED
      BY <3>1, <3>2
  <2> QED
    BY <2>1 DEF TopsAreCaptures
<1>3. Flying' = Flying
  BY <1>0, <1>1 DEF Flying
<1>4. HoldTaken'
  BY <1>0, ChargeHold, HoldKept, BaseFacts DEF BookInv, ChargeTopUp, TopUpDeclined
<1>5. ASSUME told' = {}
      PROVE  Booking'
  <2>1. told = {} /\ (ChargeTopUp => ChargedOnce(TopUp, cost - task[t].amount)) /\ (~ChargeTopUp => pay' = pay)
    BY <1>5 DEF ChargeTopUp, TopUpDeclined
  <2>2. CASE IsHold /\ Flying = {t}
    <3>1. AskedBy(t)
      BY <1>0, <2>1, <2>2 DEF BookInv, Booking
    <3>2. pay'.asked = pay.asked /\ pay'.hold = pay.hold
          /\ \A c \in TopUps : pay'.taken[c] = IF c = TopUp /\ ChargeTopUp THEN cost - task[t].amount ELSE 0
      <4>1. \A c \in TopUps : c \in Charges /\ pay.taken[c] = 0
        BY <1>0, <3>1, BaseFacts DEF AskedBy
      <4>2. CASE ChargeTopUp
        BY <1>0, <2>1, <4>1, <4>2, ChargeHold, BaseFacts DEF BookInv
      <4>3. CASE ~ChargeTopUp
        BY <2>1, <4>1, <4>3
      <4> QED
        BY <4>2, <4>3
    <3>3. NoRetry' /\ NewsIsTrue'
      BY <1>0, <3>1, <3>2 DEF AskedBy, NoRetry, NewsIsTrue, CaptureWent
    <3>4. AskedBy(t)'
      <4>1. pay'.asked.capture = task'[t].amount
        BY <1>0, <1>1, <3>1, <3>2 DEF AskedBy
      <4>2. \A c \in TopUps :
               pay'.taken[c] = IF c = TopUp /\ task'[t].top THEN cost' - task'[t].amount ELSE 0
        BY <1>0, <1>1, <3>2
      <4> QED
        BY <1>1, <3>3, <4>1, <4>2 DEF AskedBy
    <3> QED
      BY <1>0, <1>3, <2>2, <3>4 DEF Booking, IsHold
  <2>3. CASE ~IsHold \/ Flying # {t}
    <3>1. Flying' # {} /\ (IsHold' <=> IsHold) /\ (IsHold => \A u \in Tasks : Flying' # {u})
      BY <1>0, <1>3, <2>3 DEF IsHold
    <3> QED
      BY <3>1 DEF Booking
  <2> QED
    BY <2>2, <2>3
<1> QED
  BY <1>2, <1>4, <1>5 DEF Books

\* The tops and tasks a step of another party leaves alone.
LEMMA TopsKept ==
    ASSUME TopsAreCaptures, UNCHANGED task
    PROVE  TopsAreCaptures' /\ Flying' = Flying
BY DEF TopsAreCaptures, Flying

\* A retry is at work only on a captured record.
LEMMA RetryWorks ==
    ASSUME BookInv, told' = {}, NEW r \in Retries,
           RetrySelects \/ RetryReads(r) \/ RetryCharges(r) \/ RetryDeclined(r) \/ RetryRecords(r)
    PROVE  /\ told = {} /\ Flying' = Flying /\ record'.status = record.status
           /\ IsHold => Flying # {} /\ \A t \in Tasks : Flying # {t}
           /\ ~IsHold /\ Flying = {} => ~Closed /\ Accounted
<1>1. told = {} /\ UNCHANGED task
  BY DEF RetrySelects, RetryReads, RetryCharges, RetryDeclined, RetryRecords
<1>2. ~NoRetry \/ record.status = "captured"
  BY DEF NoRetry, RetrySelects, RetryReads, RetryCharges, RetryDeclined, RetryRecords
<1>3. record'.status = record.status
  BY DEF RetrySelects, RetryReads, RetryCharges, RetryDeclined, RetryRecords,
         BookInv, Typed, RecordTyped, Records
<1> QED
  BY <1>1, <1>2, <1>3 DEF BookInv, Booking, Untouched, AskedBy, IsHold, Closed, Flying

LEMMA RetryBooks ==
    ASSUME BookInv, NEW r \in Retries,
           RetrySelects \/ RetryReads(r) \/ RetryCharges(r) \/ RetryDeclined(r) \/ RetryRecords(r)
    PROVE  Books'
<1>0. Typed /\ UNCHANGED <<mode, cost, task, events>> /\ retry \in [Retries -> RetryStates]
  BY DEF BookInv, Typed, RetriesTyped, RetrySelects, RetryReads, RetryCharges, RetryDeclined, RetryRecords
<1>1. TopsAreCaptures' /\ Flying' = Flying
  BY <1>0, TopsKept DEF BookInv
<1>2. retry[r].pc = "charge" => RetryKey(r) \in TopUps \ {TopUp}
  <2>1. ASSUME retry[r].pc = "charge" PROVE retry[r].captured \in Nat /\ retry[r].captured < cost
    BY <1>0, <2>1, Amounts DEF Typed, RetriesTyped, RetryStates
  <2>2. cost \in 0..MaxCost /\ MaxCost \in Nat /\ TopUps = 1..(2 + MaxCost)
    BY <1>0, Amounts DEF Typed
  <2> QED
    BY <2>1, <2>2 DEF RetryKey, RetryOf, TopUp
<1>3. HoldTaken'
  <2>1. CASE UNCHANGED pay
    BY <1>0, <2>1, HoldKept DEF BookInv
  <2>2. CASE ~UNCHANGED pay
    <3>1. retry[r].pc = "charge" /\ ChargedOnce(RetryKey(r), cost - retry[r].captured)
      BY <2>2 DEF RetrySelects, RetryReads, RetryCharges, RetryDeclined, RetryRecords
    <3> QED
      BY <1>0, <1>2, <3>1, ChargeHold DEF BookInv
  <2> QED
    BY <2>1, <2>2
<1>4. ASSUME told' = {}
      PROVE  Booking'
  <2>1. /\ told = {} /\ Flying' = Flying /\ record'.status = record.status
        /\ IsHold => Flying # {} /\ \A t \in Tasks : Flying # {t}
        /\ ~IsHold /\ Flying = {} => ~Closed /\ Accounted
    BY <1>4, RetryWorks
  <2>2. ASSUME ~IsHold, Flying = {}
        PROVE  Accounted'
    <3>0. Accounted /\ ~Closed
      BY <2>1, <2>2
    <3>1. /\ Base \in Nat /\ cost \in Nat /\ TopUp \in TopUps /\ TopUps \subseteq Charges
          /\ (Base < cost => RetryOf(Base) \in TopUps \ {TopUp})
          /\ \A q \in Retries : retry[q].pc = "charge" => RetryKey(q) = RetryOf(Base)
      BY <1>0, <3>0, BaseFacts DEF Accounted, RetryKey
    <3>2. \A v : retry' = [retry EXCEPT ![r] = v] => \A q \in Retries : retry'[q] = IF q = r THEN v ELSE retry[q]
      BY <1>0
    <3>3. CASE RetrySelects
      <4>1. /\ UNCHANGED <<record, pay>>
            /\ \A q \in Retries : \/ retry'[q] = retry[q]
                                  \/ retry'[q].pc = "selected" /\ retry[q].pc = "idle"
        BY <1>0, <3>3 DEF RetrySelects, RetryStates
      <4> QED
        BY <1>0, <3>0, <4>1 DEF Accounted, Base, NewsIsTrue, CaptureWent
    <3>4. CASE RetryReads(r)
      <4>1. record.status = "captured" /\ UNCHANGED <<record, pay>>
        BY <1>4, <3>4 DEF RetryReads
      <4>2. \A q \in Retries \ {r} : retry'[q] = retry[q]
        BY <1>0, <3>4 DEF RetryReads
      <4>3. retry[r].pc \in {"idle", "selected"}
        BY <3>4 DEF RetryReads
      <4>4. retry'[r] = RetryIdle \/ (cost > record.captured /\ retry'[r] = [pc |-> "charge", captured |-> record.captured])
        BY <1>0, <3>4 DEF RetryReads
      <4>5. retry'[r].pc = "idle" \/ (Base < cost /\ retry'[r].pc = "charge" /\ retry'[r].captured = Base)
        <5>1. record.captured = cost \/ record.captured = Base
          BY <3>0 DEF Accounted
        <5> QED
          BY <3>1, <4>4, <5>1 DEF RetryIdle
      <4>6. Base' = Base /\ RetryOf(Base)' = RetryOf(Base)
        BY <4>1 DEF Base, RetryOf
      <4> HIDE DEF Base, RetryOf
      <4>7. \A c \in TopUps \ {TopUp} :
              \/ pay'.taken[c] = 0
              \/ /\ Base < cost /\ c = RetryOf(Base) /\ pay'.taken[c] = cost - Base
                 /\ record'.captured = cost \/ \E q \in Retries : retry'[q].pc = "record"
        BY <3>0, <4>1, <4>2, <4>3 DEF Accounted
      <4>8. \A q \in Retries :
              /\ retry'[q].pc \in {"charge", "record"} => Base < cost /\ retry'[q].captured = Base
              /\ retry'[q].pc = "record" => pay'.taken[RetryOf(Base)] = cost - Base
        BY <3>0, <4>1, <4>2, <4>5 DEF Accounted
      <4> QED
        BY <1>0, <3>0, <4>1, <4>6, <4>7, <4>8 DEF Accounted, NewsIsTrue, CaptureWent
    <3>5. CASE RetryCharges(r)
      <4>1. retry[r].pc = "charge" /\ Base < cost /\ retry[r].captured = Base /\ UNCHANGED record
        BY <3>0, <3>5 DEF RetryCharges, Accounted
      <4>2. RetryKey(r) = RetryOf(Base) /\ RetryOf(Base) \in TopUps \ {TopUp}
        BY <3>1, <4>1
      <4>3. /\ pay'.asked = pay.asked /\ pay'.hold = pay.hold
            /\ \A d \in Charges : pay'.taken[d] = IF d # RetryOf(Base) \/ pay.taken[d] > 0
                                                  THEN pay.taken[d] ELSE cost - Base
        BY <1>0, <3>5, <4>1, <4>2, ChargeHold DEF BookInv, RetryCharges
      <4>4. Base' = Base /\ RetryOf(Base)' = RetryOf(Base)
        <5>1. pay'.taken[TopUp] = pay.taken[TopUp]
          BY <3>1, <4>2, <4>3
        <5> QED
          BY <4>3, <5>1 DEF Base, RetryOf
      <4>5. (\A q \in Retries \ {r} : retry'[q] = retry[q])
            /\ retry'[r].pc = "record" /\ retry'[r].captured = Base
        BY <1>0, <3>5, <4>1 DEF RetryCharges, RetryStates
      <4> HIDE DEF Base, RetryOf
      <4>6. pay'.taken[RetryOf(Base)] = cost - Base
        <5>1. pay.taken[RetryOf(Base)] \in {0, cost - Base}
          BY <3>0, <4>2 DEF Accounted
        <5> QED
          BY <3>1, <4>2, <4>3, <5>1
      <4>7. \A c \in TopUps \ {TopUp} :
              \/ pay'.taken[c] = 0
              \/ /\ Base < cost /\ c = RetryOf(Base) /\ pay'.taken[c] = cost - Base
                 /\ record'.captured = cost \/ \E q \in Retries : retry'[q].pc = "record"
        <5>1. ASSUME NEW c \in TopUps \ {TopUp}, c # RetryOf(Base) PROVE pay'.taken[c] = 0
          <6>1. pay.taken[c] = 0
            BY <3>0, <5>1 DEF Accounted
          <6> QED
            BY <3>1, <4>3, <5>1, <6>1
        <5> QED
          BY <4>1, <4>5, <4>6, <5>1
      <4>8. \A q \in Retries :
              /\ retry'[q].pc \in {"charge", "record"} => Base < cost /\ retry'[q].captured = Base
              /\ retry'[q].pc = "record" => pay'.taken[RetryOf(Base)] = cost - Base
        BY <3>0, <4>1, <4>5, <4>6 DEF Accounted
      <4>9. \/ record'.captured = Base
            \/ Base < cost /\ record'.captured = cost /\ pay'.taken[RetryOf(Base)] = cost - Base
        BY <3>0, <4>1, <4>6 DEF Accounted
      <4> QED
        BY <1>0, <3>0, <4>1, <4>3, <4>4, <4>7, <4>8, <4>9 DEF Accounted, NewsIsTrue, CaptureWent
    <3>6. CASE RetryDeclined(r)
      <4>1. UNCHANGED pay /\ record'.captured = record.captured /\ record'.pending = record.pending
        BY <1>0, <1>4, <3>6 DEF RetryDeclined, Typed, RecordTyped, Records
      <4>2. (\A q \in Retries \ {r} : retry'[q] = retry[q]) /\ retry'[r].pc = "idle" /\ retry[r].pc = "charge"
        BY <1>0, <3>6 DEF RetryDeclined, RetryIdle
      <4>3. Base' = Base /\ RetryOf(Base)' = RetryOf(Base)
        BY <4>1 DEF Base, RetryOf
      <4> HIDE DEF Base, RetryOf
      <4>4. \A c \in TopUps \ {TopUp} :
              \/ pay'.taken[c] = 0
              \/ /\ Base < cost /\ c = RetryOf(Base) /\ pay'.taken[c] = cost - Base
                 /\ record'.captured = cost \/ \E q \in Retries : retry'[q].pc = "record"
        BY <3>0, <4>1, <4>2 DEF Accounted
      <4>5. \A q \in Retries :
              /\ retry'[q].pc \in {"charge", "record"} => Base < cost /\ retry'[q].captured = Base
              /\ retry'[q].pc = "record" => pay'.taken[RetryOf(Base)] = cost - Base
        BY <3>0, <4>1, <4>2 DEF Accounted
      <4> QED
        BY <1>0, <3>0, <4>1, <4>3, <4>4, <4>5 DEF Accounted, NewsIsTrue, CaptureWent
    <3>7. CASE RetryRecords(r)
      <4>1. record.status = "captured" /\ UNCHANGED pay
        BY <1>4, <3>7 DEF RetryRecords
      <4>2. record'.captured = cost /\ record'.pending = record.pending
        BY <1>0, <3>7, <4>1 DEF RetryRecords, Typed, RecordTyped, Records
      <4>3. (\A q \in Retries \ {r} : retry'[q] = retry[q]) /\ retry'[r].pc = "idle" /\ retry[r].pc = "record"
        BY <1>0, <3>7 DEF RetryRecords, RetryIdle
      <4>4. Base < cost /\ pay.taken[RetryOf(Base)] = cost - Base
        BY <3>0, <4>3 DEF Accounted
      <4>5. Base' = Base /\ RetryOf(Base)' = RetryOf(Base)
        BY <4>1 DEF Base, RetryOf
      <4> HIDE DEF Base, RetryOf
      <4>6. \A c \in TopUps \ {TopUp} :
              \/ pay'.taken[c] = 0
              \/ Base < cost /\ c = RetryOf(Base) /\ pay'.taken[c] = cost - Base /\ record'.captured = cost
        BY <3>0, <4>1, <4>2 DEF Accounted
      <4>7. \A q \in Retries :
              /\ retry'[q].pc \in {"charge", "record"} => Base < cost /\ retry'[q].captured = Base
              /\ retry'[q].pc = "record" => pay'.taken[RetryOf(Base)] = cost - Base
        BY <3>0, <4>1, <4>3 DEF Accounted
      <4> QED
        BY <1>0, <3>0, <4>1, <4>2, <4>4, <4>5, <4>6, <4>7 DEF Accounted, NewsIsTrue, CaptureWent
    <3> QED
      BY <3>3, <3>4, <3>5, <3>6, <3>7
  <2> QED
    BY <2>1, <2>2 DEF Booking, IsHold, Closed
<1> QED
  BY <1>1, <1>3, <1>4 DEF Books

LEMMA OwnBooks ==
    ASSUME BookInv, Resolve("capture") \/ Resolve("cancel") \/ CaptureReturned \/ Expire
    PROVE  Books'
<1>0. /\ Typed /\ UNCHANGED <<mode, cost, record, task, retry, told>> /\ pay \in Pays
      /\ HoldCharge \in Charges /\ HoldCharge \notin TopUps /\ TopUps \subseteq Charges
      /\ pay.asked.capture \in Int /\ (pay.hold = "captured" => pay.asked.capture >= 0)
  <2>1. UNCHANGED <<mode, cost, record, task, retry, told>>
    BY DEF Resolve, CaptureReturned, Expire
  <2>2. Typed /\ PayTyped /\ pay \in Pays /\ (pay.hold = "captured" => pay.asked.capture >= 0)
    BY DEF BookInv, Typed, PayTyped
  <2> QED
    BY <2>1, <2>2, BaseFacts, PayFacts
<1>1. ASSUME NEW op \in {"capture", "cancel"}, Resolve(op)
      PROVE  /\ HoldTaken' /\ pay'.asked = pay.asked
             /\ \A c \in TopUps : pay'.taken[c] = pay.taken[c]
             /\ NewsIsTrue => NewsIsTrue'
             /\ pay.hold = "captured" => pay'.hold = "captured"
             /\ events \subseteq events'
  <2>1. PICK ok \in BOOLEAN :
           /\ ok => pay.hold = "held"
           /\ pay' = [pay EXCEPT
                 !.reported = @ \cup {op},
                 !.hold = IF ~ok THEN @ ELSE IF op = "capture" THEN "captured" ELSE "cancelled",
                 !.taken[HoldCharge] = IF ok /\ op = "capture" THEN pay.asked[op] ELSE @]
           /\ events' = events \cup {[op |-> op, ok |-> ok]}
    BY <1>1 DEF Resolve
  <2>2. /\ pay'.asked = pay.asked
        /\ pay'.hold = IF ~ok THEN pay.hold ELSE IF op = "capture" THEN "captured" ELSE "cancelled"
        /\ pay'.taken[HoldCharge] = IF ok /\ op = "capture" THEN pay.asked[op] ELSE pay.taken[HoldCharge]
        /\ \A c \in TopUps : pay'.taken[c] = pay.taken[c]
    BY <1>0, <2>1 DEF Pays
  <2>3. mode = "async" /\ pay.asked[op] >= 0
    BY <1>1 DEF Resolve
  <2>4. op = "capture" => pay.asked[op] = pay.asked.capture
    OBVIOUS
  <2>5. HoldTaken'
    BY <1>0, <2>1, <2>2, <2>3, <2>4 DEF BookInv, HoldTaken
  <2>6. NewsIsTrue => NewsIsTrue'
    <3>1. CaptureWent(TRUE) \in events' => CaptureWent(TRUE) \in events \/ (op = "capture" /\ ok)
      BY <2>1 DEF CaptureWent
    <3>2. CaptureWent(FALSE) \in events => CaptureWent(FALSE) \in events'
      BY <2>1
    <3>3. CaptureWent(TRUE)' = CaptureWent(TRUE) /\ CaptureWent(FALSE)' = CaptureWent(FALSE)
      BY DEF CaptureWent
    <3> QED
      BY <2>1, <2>2, <3>1, <3>2, <3>3 DEF NewsIsTrue
  <2> QED
    BY <2>1, <2>2, <2>5, <2>6
<1>2. CASE CaptureReturned
  <2>1. /\ pay'.asked = pay.asked /\ pay'.hold = "returned" /\ pay'.taken[HoldCharge] = 0
        /\ \A c \in TopUps : pay'.taken[c] = pay.taken[c]
        /\ mode = "async" /\ pay.hold = "captured" /\ CaptureWent(FALSE) \in events'
    BY <1>0, <1>2 DEF CaptureReturned, Pays, CaptureWent
  <2>2. HoldTaken' /\ NewsIsTrue'
    BY <1>0, <2>1 DEF HoldTaken, NewsIsTrue, CaptureWent
  <2>3. told = {} => Booking'
    BY <1>0, <2>1, <2>2, BooksKept DEF BookInv, IsHold, Closed, Accounted
  <2> QED
    BY <1>0, <2>2, <2>3, TopsKept DEF BookInv, Books
<1>3. CASE Expire
  <2>1. /\ pay'.asked = pay.asked /\ pay'.hold = "cancelled" /\ pay'.taken = pay.taken
        /\ pay.hold = "held"
        /\ \A e \in events' : e \in events \/ e = [op |-> "expire", ok |-> TRUE]
        /\ events \subseteq events' /\ (mode = "sync" => events' = events)
    BY <1>0, <1>3 DEF Expire, Pays
  <2>2. HoldTaken'
    <3>1. mode = "sync" => pay.asked.capture < 0
      BY <1>0, <2>1 DEF BookInv, HoldTaken
    <3> QED
      BY <1>0, <2>1, <3>1 DEF BookInv, HoldTaken
  <2>3. NewsIsTrue => NewsIsTrue'
    BY <2>1 DEF NewsIsTrue, CaptureWent
  <2>4. told = {} => Booking'
    BY <1>0, <2>1, <2>3, BooksKept DEF BookInv, IsHold, Closed, Accounted, CaptureWent
  <2> QED
    BY <1>0, <2>2, <2>4, TopsKept DEF BookInv, Books
<1>4. ASSUME NEW op \in {"capture", "cancel"}, Resolve(op)
      PROVE  Books'
  <2>1. /\ HoldTaken' /\ pay'.asked = pay.asked
        /\ \A c \in TopUps : pay'.taken[c] = pay.taken[c]
        /\ NewsIsTrue => NewsIsTrue'
        /\ pay.hold = "captured" => pay'.hold = "captured"
        /\ events \subseteq events'
    BY <1>1, <1>4
  <2>2. told = {} => Booking'
    BY <1>0, <2>1, BooksKept DEF BookInv, IsHold, Closed, Accounted, CaptureWent
  <2> QED
    BY <1>0, <2>1, <2>2, TopsKept DEF BookInv, Books
<1> QED
  BY <1>2, <1>3, <1>4

\* A refund and its webhook leave the captured total and the charges alone.
LEMMA RefundBooks ==
    ASSUME BookInv, Typed',
           \/ Refund \/ ResolveRefund
           \/ \E e \in events : SettleRefund(e) \/ SettleRefundedTotal(e)
    PROVE  Books'
<1>0. Typed /\ UNCHANGED <<mode, cost, task, retry>> /\ (told' = {} => told = {})
  BY DEF BookInv, Refund, ResolveRefund, SettleRefund, SettleRefundedTotal
<1>1. /\ pay'.asked = pay.asked /\ pay'.hold = pay.hold /\ pay'.taken = pay.taken
  <2>1. ASSUME NEW made, RefundAsked(made)
        PROVE  pay'.asked = pay.asked /\ pay'.hold = pay.hold /\ pay'.taken = pay.taken
    BY <1>0, <2>1 DEF RefundAsked, Typed, PayTyped, Pays
  <2>2. CASE Refund
    BY <2>1, <2>2 DEF Refund
  <2>3. CASE ~Refund
    BY <1>0, <2>3 DEF ResolveRefund, SettleRefund, SettleRefundedTotal, Typed, PayTyped, Pays
  <2> QED
    BY <2>2, <2>3
<1>2. /\ record'.captured = record.captured /\ record'.pending = record.pending
      /\ record'.status = record.status \/ {record.status, record'.status} \subseteq {"captured", "partially_refunded", "refunded"}
  <2>1. \A made : /\ RefundWritten(made).captured = record.captured
                  /\ RefundWritten(made).pending = record.pending
                  /\ RefundWritten(made).status \in {record.status, "partially_refunded", "refunded"}
    BY <1>0 DEF RefundWritten, AfterRefund, Typed, RecordTyped, Records
  <2>2. CASE Refund
    <3>1. Refundable /\ (record' = record \/ \E made : record' = RefundWritten(made))
      BY <2>2 DEF Refund, CanBeRefunded
    <3> QED
      BY <2>1, <3>1 DEF Refundable
  <2>3. CASE ResolveRefund
    BY <2>3 DEF ResolveRefund
  <2>4. ASSUME NEW e \in events, SettleRefund(e) \/ SettleRefundedTotal(e)
        PROVE  /\ record'.captured = record.captured /\ record'.pending = record.pending
               /\ \/ record'.status = record.status
                  \/ Refundable /\ record'.status \in {"captured", "partially_refunded", "refunded"}
    <3>1. CASE SettleRefund(e)
      BY <1>0, <3>1 DEF SettleRefund, AfterRefund, Typed, RecordTyped, Records
    <3>2. CASE SettleRefundedTotal(e)
      BY <1>0, <3>2 DEF SettleRefundedTotal, AfterRefund, Typed, RecordTyped, Records
    <3> QED
      BY <2>4, <3>1, <3>2
  <2> QED
    BY <2>2, <2>3, <2>4 DEF Refundable
<1>3. /\ \A e \in events' : e \in events \/ e.op # "capture"
      /\ \A e \in events : e.op = "capture" => e \in events'
  <2>1. CASE Refund
    <3>1. \E made : events' = events \cup RefundReports(made)
      BY <2>1 DEF Refund
    <3> QED
      BY <3>1 DEF RefundReports
  <2>2. CASE ResolveRefund
    BY <2>2 DEF ResolveRefund
  <2>3. ASSUME NEW e \in events, SettleRefund(e) \/ SettleRefundedTotal(e)
        PROVE  e.op # "capture" /\ (events' = events \/ events' = events \ {e})
    BY <2>3 DEF SettleRefund, SettleRefundedTotal, EventLeaves
  <2> QED
    BY <2>1, <2>2, <2>3
<1>4. CaptureWent(TRUE).op = "capture" /\ CaptureWent(FALSE).op = "capture"
      /\ CaptureWent(TRUE)' = CaptureWent(TRUE) /\ CaptureWent(FALSE)' = CaptureWent(FALSE)
  BY DEF CaptureWent
<1>5. NewsIsTrue => NewsIsTrue'
  BY <1>1, <1>3, <1>4 DEF NewsIsTrue
<1>6. told' = {} => Booking'
  <2>1. (IsHold' <=> IsHold) /\ (Closed' <=> Closed)
    BY <1>2 DEF IsHold, Closed
  <2>2. Accounted => /\ record'.pending # "cancel"
                     /\ record'.pending = "none" => pay'.hold = "captured" \/ CaptureWent(FALSE)' \in events'
    BY <1>1, <1>2, <1>3, <1>4 DEF Accounted
  <2> QED
    BY <1>0, <1>1, <1>2, <1>4, <1>5, <2>1, <2>2, BooksKept DEF BookInv
<1>7. HoldTaken' /\ TopsAreCaptures'
  BY <1>0, <1>1, <1>3, HoldKept, TopsKept DEF BookInv
<1> QED
  BY <1>6, <1>7 DEF Books

\* The webhooks of the hold.
LEMMA WebhookBooks ==
    ASSUME BookInv, NEW e \in events,
           \/ WebhookAnswers(e) \/ WebhookFindsHold(e) \/ WebhookMovesHold(e)
           \/ WebhookEndsHold(e) \/ WebhookIgnored(e)
    PROVE  Books'
<1>0. /\ Typed /\ UNCHANGED <<mode, cost, pay, task, retry>> /\ (told' = {} => told = {})
      /\ events' \in {events, events \ {e}}
  BY DEF BookInv, WebhookAnswers, WebhookFindsHold, WebhookMovesHold, WebhookEndsHold, WebhookIgnored,
         EventLeaves
<1>1. CaptureWent(TRUE).op = "capture" /\ CaptureWent(FALSE).op = "capture"
      /\ CaptureWent(FALSE).ok = FALSE /\ CaptureWent(TRUE).ok = TRUE
      /\ CaptureWent(TRUE)' = CaptureWent(TRUE) /\ CaptureWent(FALSE)' = CaptureWent(FALSE)
      /\ (e.op = "capture" => e = CaptureWent(e.ok) /\ e.ok \in BOOLEAN)
  <2>1. e.op = "capture" => e \in [op : {"capture", "cancel"}, ok : BOOLEAN]
    BY <1>0 DEF Typed, EventsTyped, Webhooks
  <2> QED
    BY <2>1 DEF CaptureWent
<1>2. HoldTaken' /\ TopsAreCaptures' /\ Flying' = Flying
  BY <1>0, HoldKept, TopsKept DEF BookInv
<1>3. ASSUME told' = {}, IsHold, ~IsHold', Flying = {}
      PROVE  Untouched' /\ Closed'
  <2>1. Untouched
    BY <1>0, <1>3 DEF BookInv, Booking
  <2>2. e.op # "capture"
    BY <1>0, <2>1, BaseFacts DEF Untouched, Typed, EventsTyped
  <2>3. WebhookEndsHold(e) \/ record' \in {record, Confirmed}
    BY <2>2 DEF WebhookAnswers, WebhookFindsHold, WebhookMovesHold, WebhookIgnored, BookInv, Typed, EventsTyped
  <2>4. Confirmed.status = record.status
    BY <1>0 DEF Confirmed, Typed, RecordTyped, Records
  <2>5. record' = Cancelled("none")
    BY <1>3, <2>3, <2>4 DEF WebhookEndsHold, AuthorisationEnded, IsHold
  <2> QED
    BY <1>0, <2>1, <2>5 DEF Cancelled, Untouched, NoRetry, Closed, Typed, RecordTyped, Records
<1>4. CASE IsHold /\ ~IsHold'
  <2>1. told' = {} => Booking'
    BY <1>2, <1>3, <1>4 DEF Booking, Closed
  <2> QED
    BY <1>2, <2>1 DEF Books
<1>5. CASE ~(IsHold /\ ~IsHold')
  <2>1. ASSUME told' = {}
        PROVE  Booking'
    <3>1. Confirmed.status = record.status /\ Confirmed.captured = record.captured /\ Confirmed.pending = "none"
          /\ Cancelled("none").status = "cancelled" /\ HoldFailed.status = "failed"
          /\ CaptureFailed.status = "failed"
          /\ \A amount, declined, top, ref : Captured(amount, declined, top, ref).status = "captured"
      BY <1>0 DEF Confirmed, Cancelled, HoldFailed, CaptureFailed, Captured, Typed, RecordTyped, Records
    <3>2. record' = record \/ record' = Confirmed
      <4>1. CASE WebhookAnswers(e)
        BY <2>1, <4>1 DEF WebhookAnswers
      <4>2. CASE WebhookMovesHold(e)
        BY <1>5, <3>1, <4>2 DEF WebhookMovesHold, IsHold
      <4>3. CASE WebhookEndsHold(e)
        BY <1>5, <3>1, <4>3 DEF WebhookEndsHold, AuthorisationEnded, IsHold
      <4> QED
        BY <4>1, <4>2, <4>3 DEF WebhookFindsHold, WebhookIgnored
    <3>3. (IsHold' <=> IsHold) /\ (Closed' <=> Closed) /\ record'.captured = record.captured
      BY <3>1, <3>2 DEF IsHold, Closed
    <3>4. ASSUME IsHold \/ ~Closed, CaptureWent(FALSE) \in events
          PROVE  CaptureWent(FALSE) \in events'
      <4>1. CASE e.op # "capture"
        BY <1>0, <1>1, <3>4, <4>1
      <4>2. CASE e.op = "capture" /\ e.ok
        BY <1>0, <1>1, <3>4, <4>2
      <4>3. CASE e.op = "capture" /\ ~e.ok
        <5>1. ~WebhookAnswers(e)
          BY <2>1, <4>3 DEF WebhookAnswers
        <5>2. ~WebhookIgnored(e)
          BY <2>1, <3>4, <4>3 DEF WebhookIgnored, IsHold, Closed
        <5>3. ~WebhookMovesHold(e)
          BY <1>5, <2>1, <3>1, <4>3 DEF WebhookMovesHold, IsHold
        <5>4. ~WebhookEndsHold(e)
          BY <4>3 DEF WebhookEndsHold
        <5> QED
          BY <3>4, <5>1, <5>2, <5>3, <5>4 DEF WebhookFindsHold
      <4> QED
        BY <1>1, <4>1, <4>2, <4>3
    <3>5. ASSUME IsHold \/ ~Closed, NewsIsTrue
          PROVE  NewsIsTrue'
      BY <1>0, <1>1, <3>4, <3>5 DEF NewsIsTrue
    <3>6. ASSUME ~IsHold, ~Closed, Accounted
          PROVE  /\ record'.pending # "cancel"
                 /\ record'.pending = "none" => pay'.hold = "captured" \/ CaptureWent(FALSE)' \in events'
      <4>1. CASE record' = record
        BY <1>0, <1>1, <3>4, <3>6, <4>1 DEF Accounted
      <4>2. CASE record' = Confirmed /\ record' # record
        <5>1. e = CaptureWent(TRUE)
          BY <1>1, <2>1, <3>6, <4>2 DEF WebhookAnswers, Answers, CanConfirm, WebhookFindsHold,
             WebhookMovesHold, WebhookEndsHold, AuthorisationEnded, WebhookIgnored, Accounted
        <5>2. pay.hold = "captured" \/ CaptureWent(FALSE) \in events
          BY <3>6, <5>1 DEF Accounted, NewsIsTrue
        <5> QED
          BY <1>0, <1>1, <3>1, <3>4, <3>6, <4>2, <5>2
      <4> QED
        BY <3>2, <4>1, <4>2
    <3>7. CASE IsHold \/ ~Closed
      BY <1>0, <1>1, <2>1, <3>3, <3>5, <3>6, <3>7, BooksKept DEF BookInv
    <3>8. CASE ~IsHold /\ Closed
      <4>1. Flying = {} => Untouched'
        BY <1>0, <2>1, <3>8 DEF BookInv, Booking, Closed, Untouched, NoRetry
      <4> QED
        BY <1>2, <3>3, <3>8, <4>1 DEF Booking, Closed
    <3> QED
      BY <3>7, <3>8
  <2> QED
    BY <1>2, <2>1 DEF Books
<1> QED
  BY <1>4, <1>5

LEMMA BookStep == BookInv /\ [Next]_vars => BookInv'
<1> SUFFICES ASSUME BookInv, [Next]_vars PROVE BookInv'
  OBVIOUS
<1>1. Typed'
  BY TypedStep DEF BookInv
<1>2. Books'
  <2>1. CASE UNCHANGED vars
    <3>1. UNCHANGED <<mode, cost, record, pay, task, retry, events, told>>
      BY <2>1 DEF vars
    <3>2. told = {} => Booking'
      BY <3>1, BooksKept DEF BookInv, IsHold, Closed, NewsIsTrue, CaptureWent, Accounted
    <3> QED
      BY <3>1, <3>2, HoldKept, TopsKept DEF BookInv, Books
  <2>2. CASE SettleBegins \/ OperatorBegins
    BY <2>2, BeginBooks DEF SettleBegins, OperatorBegins, Tasks
  <2>3. CASE RetrySelects
    BY <2>3, RetryBooks DEF Retries
  <2> QED
    BY <1>1, <2>1, <2>2, <2>3, AskBooks, EndBooks, TopUpBooks, RetryBooks, OwnBooks, RefundBooks,
       WebhookBooks DEF Next
<1> QED
  BY <1>1, <1>2 DEF BookInv, Books

\* What was taken in all, once nobody is at work on it.
LEMMA Settled ==
    ASSUME BookInv, told = {}
    PROVE  Agrees
<1> SUFFICES ASSUME Quiet, ~IsHold, record.pending = "none"
             PROVE  Booked = TakenInAll
  BY DEF Agrees
<1> DEFINE taken == pay.taken
<1>0. /\ Typed /\ Flying = {} /\ NoRetry /\ events = {}
      /\ IF Closed THEN Untouched ELSE Accounted
  BY DEF BookInv, Booking, Closed, Quiet, Flying, NoRetry
<1>1. /\ taken \in [Charges -> Nat] /\ HoldCharge \in Charges /\ TopUp \in Charges \ {HoldCharge}
      /\ Charges \ {HoldCharge} = TopUps
      /\ IsFiniteSet(Charges) /\ IsFiniteSet(TopUps) /\ IsFiniteSet(TopUps \ {TopUp})
      /\ \A c \in Charges : taken[c] \in Int /\ taken[c] \in Nat
  <2>1. IsFiniteSet(Charges) /\ IsFiniteSet(TopUps) /\ IsFiniteSet(TopUps \ {TopUp})
    BY Amounts, FS_Subset
  <2>2. taken \in [Charges -> Nat] /\ TopUp \in TopUps /\ HoldCharge \notin TopUps
    BY <1>0, BaseFacts
  <2> QED
    BY <2>1, <2>2 DEF Charges
<1>2. TakenInAll = taken[HoldCharge] + Total(taken, TopUps)
  BY <1>1, TotalRemove DEF TakenInAll
<1>3. Total(taken, TopUps) = taken[TopUp] + Total(taken, TopUps \ {TopUp})
  BY <1>1, TotalRemove
<1> HIDE DEF taken
<1>4. CASE Closed
  <2>1. pay.hold # "captured"
    BY <1>0, <1>4 DEF Untouched, Typed, PayTyped
  <2>2. taken[HoldCharge] = 0 /\ \A c \in TopUps : taken[c] = 0
    BY <1>0, <1>4, <2>1 DEF Untouched, BookInv, HoldTaken, taken
  <2>3. Total(taken, TopUps) = 0
    BY <1>1, <2>2, TotalZero
  <2> QED
    BY <1>2, <1>4, <2>2, <2>3 DEF Booked, Closed
<1>5. CASE ~Closed
  <2>0. Accounted /\ Base \in Nat /\ cost \in Nat
    BY <1>0, <1>5, BaseFacts DEF Accounted
  <2>1. taken[HoldCharge] = pay.asked.capture /\ Base = taken[HoldCharge] + taken[TopUp]
    BY <1>0, <2>0 DEF Accounted, BookInv, HoldTaken, Base, taken
  <2>2. Booked = record.captured
    BY <1>5 DEF Booked, Closed
  <2>3. CASE record.captured = Base
    <3>1. \A c \in TopUps \ {TopUp} : taken[c] = 0
      BY <1>0, <2>0, <2>3 DEF Accounted, NoRetry, taken
    <3>2. Total(taken, TopUps \ {TopUp}) = 0
      BY <1>1, <3>1, TotalZero
    <3>3. taken[TopUp] \in Nat /\ taken[HoldCharge] \in Nat
      BY <1>1
    <3> QED
      BY <1>2, <1>3, <2>1, <2>2, <2>3, <3>2, <3>3
  <2>4. CASE Base < cost /\ record.captured = cost /\ taken[RetryOf(Base)] = cost - Base
    <3> DEFINE rest == (TopUps \ {TopUp}) \ {RetryOf(Base)}
    <3>1. RetryOf(Base) \in TopUps \ {TopUp}
      BY <1>0, <2>0, <2>4, BaseFacts DEF Accounted
    <3>2. \A c \in rest : taken[c] = 0
      BY <2>0 DEF Accounted, taken
    <3>3. IsFiniteSet(rest)
      BY <1>1, FS_Subset
    <3>4. Total(taken, rest) = 0
      <4> HIDE DEF rest
      <4> QED
        BY <3>2, <3>3, TotalZero
    <3>5. Total(taken, TopUps \ {TopUp}) = taken[RetryOf(Base)] + Total(taken, rest)
      BY <1>1, <3>1, TotalRemove
    <3>6. taken[TopUp] \in Nat /\ taken[HoldCharge] \in Nat
      BY <1>1
    <3> QED
      BY <1>2, <1>3, <2>0, <2>1, <2>2, <2>4, <3>4, <3>5, <3>6
  <2> QED
    BY <2>0, <2>3, <2>4 DEF Accounted, taken
<1> QED
  BY <1>4, <1>5

\* A settled record holds what was really taken, hold, top-up and retry
\* together, unless a log line said that the two may have gone apart or a
\* retry found the record past its capture: for every cost, every hold and any
\* number of refunds, retries and faults.
THEOREM BooksAgree == Spec => []NoSilentDivergence
<1>1. BookInv => NoSilentDivergence
  BY Settled DEF NoSilentDivergence
<1>2. Spec => []BookInv
  BY BookInit, BookStep, PTL DEF Spec
<1> QED
  BY <1>1, <1>2, PTL

(***************************************************************************)
(* The refunded total is real.                                             *)
(***************************************************************************)
DoneAt(refunds) == {r \in refunds : r.state = "done"}

EntryOf(e) ==
    [id |-> e.id, charge |-> e.charge, amount |-> e.amount,
     state |-> IF e.ok THEN "done" ELSE "failed"]

\* An asynchronous provider: what the record counts it has settled with the
\* provider's own entry.
Ledgered ==
    /\ \A e \in events : e.op = "refund" => EntryOf(e) \in pay.refunds
    /\ \A e \in events : e.op # "refunded"
    /\ DoneAt(record.refunds) \subseteq DoneAt(pay.refunds)
    /\ record.refunded <= Sum(DoneAt(record.refunds))

\* A refund at the provider that was made with the record as it is now.
Current(p) == p.id[1] = record.refunded /\ p.id[3] = Cardinality(record.refunds)

\* What the charges before c have left.
Ahead(c) == {d \in OpenCharges : d < c}
Before(c) == Total([d \in Ahead(c) |-> LeftOf(d)], Ahead(c))

\* Nothing is refunded yet, and retries may still raise the captured total and
\* list their charges: a refund that was asked for, and not recorded, would be
\* asked for again with no more than it had.
Settles(p) ==
    LET a == p.id[2]
        c == p.charge
    IN  \/ a = 1
        \/ a # record.captured /\ record.captured = cost
        \/ /\ a = record.captured /\ (c # HoldCharge => record.tops[c] > 0)
           /\ \/ LeftOf(c) <= p.amount
              \/ LeftOf(HoldCharge) <= 0 /\ c # HoldCharge /\ a - Before(c) <= p.amount

\* A refund that was asked for with the record as it is, and not recorded: the
\* charge has room for it, and asking again names no more.
Repeatable(p) ==
    /\ RefundedFor(p.charge) + p.amount <= RefundedAt(p.charge)
    /\ p.id[2] \in {1, Remaining} => Piece(p.charge, p.id[2]) <= p.amount
    /\ record.status = "captured" => Settles(p)

\* A synchronous provider: what the record counts of each charge, the provider
\* has given back of it.
ByCharge ==
    /\ \A r \in record.refunds \cup pay.refunds : r.state = "done"
    /\ \A p \in pay.refunds :
          p.charge = p.id[4] /\ p.id[1] <= record.refunded /\ p.id[3] <= Cardinality(record.refunds)
    /\ \A e \in events : e.op # "refund" /\ (e.op = "refunded" => e.total <= RefundedAt(e.charge))
    /\ record.status \in {"pre_authorized", "captured"} =>
          /\ record.refunded = 0 /\ record.refunds = {}
          /\ \A c \in TopUps : record.topRefunded[c] = 0
    /\ Total(record.topRefunded, TopUps) <= record.refunded
    /\ \A c \in Charges : RefundedFor(c) <= RefundedAt(c)
    /\ \A p \in pay.refunds : Current(p) => Repeatable(p)

MoneyInv ==
    /\ Typed
    /\ IsHold => pay.refunds = {}
    /\ IF mode = "async" THEN Ledgered ELSE ByCharge

\* Sums of two weights, and of some of the refunds.
LEMMA TotalAdd ==
    ASSUME NEW S, IsFiniteSet(S), NEW w, NEW v, NEW u,
           \A x \in S : w[x] \in Int /\ v[x] \in Int /\ u[x] = w[x] + v[x]
    PROVE  Total(u, S) = Total(w, S) + Total(v, S)
<1> DEFINE F == {T \in SUBSET S : Total(u, T) = Total(w, T) + Total(v, T)}
<1>1. {} \in F
  BY TotalEmpty
<1>2. ASSUME NEW T \in SUBSET S, T # {}, \A x \in T : T \ {x} \in F
      PROVE  T \in F
  <2>1. IsFiniteSet(T) /\ Pick(T) \in T /\ IsFiniteSet(T \ {Pick(T)})
    BY <1>2, FS_Subset, PickIs
  <2>2. /\ Total(w, T) = w[Pick(T)] + Total(w, T \ {Pick(T)})
        /\ Total(v, T) = v[Pick(T)] + Total(v, T \ {Pick(T)})
        /\ Total(u, T) = u[Pick(T)] + Total(u, T \ {Pick(T)})
    BY <1>2, <2>1, TotalPick
  <2>3. Total(w, T \ {Pick(T)}) \in Int /\ Total(v, T \ {Pick(T)}) \in Int
    BY <2>1, TotalInt
  <2>4. Total(u, T \ {Pick(T)}) = Total(w, T \ {Pick(T)}) + Total(v, T \ {Pick(T)})
    BY <1>2, <2>1
  <2> QED
    BY <2>1, <2>2, <2>3, <2>4
<1>3. S \in F
  <2> HIDE DEF F
  <2> QED
    BY <1>1, <1>2, Induct
<1> QED
  BY <1>3

LEMMA SumAdd ==
    ASSUME NEW S \in SUBSET Entries, IsFiniteSet(S), NEW x \in Entries \ S
    PROVE  Sum(S \cup {x}) = Sum(S) + x.amount
<1> DEFINE T == S \cup {x}
           w == [r \in T |-> r.amount]
           v == [r \in S |-> r.amount]
<1>1. IsFiniteSet(T) /\ x \in T /\ T \ {x} = S
  BY FS_AddElement
<1>2. Sum(T) = Total(w, T) /\ Sum(S) = Total(v, S)
  BY <1>1, SumIs
<1>3. (\A y \in T : w[y] \in Int) /\ w[x] = x.amount /\ \A y \in S : v[y] \in Int /\ v[y] = w[y]
  BY DEF Entries
<1> HIDE DEF w, v
<1>4. Total(w, T) = w[x] + Total(w, T \ {x})
  <2> HIDE DEF T
  <2> QED
    BY <1>1, <1>3, TotalRemove
<1>5. Total(v, S) = Total(w, S)
  BY <1>3, TotalSame
<1>6. Total(v, S) \in Int /\ x.amount \in Int
  BY <1>3, TotalInt
<1>7. Sum(T) = x.amount + Total(w, S)
  <2> HIDE DEF T
  <2> QED
    BY <1>1, <1>2, <1>3, <1>4
<1>8. Sum(S) = Total(w, S)
  BY <1>2, <1>5
<1> QED
  BY <1>5, <1>6, <1>7, <1>8

LEMMA SumNone == Sum({}) = 0
<1>1. Sum({}) = Total([r \in {} |-> r.amount], {})
  BY SumIs, FS_EmptySet
<1> QED
  BY <1>1, TotalEmpty

\* A sum of refunds is the sum of what each charge has of them.
AtCharge(S, c) == {r \in S : r.charge = c}

LEMMA SumByCharge ==
    ASSUME NEW S \in SUBSET Entries, IsFiniteSet(S)
    PROVE  Sum(S) = Total([c \in Charges |-> Sum(AtCharge(S, c))], Charges)
<1> DEFINE W(T) == [c \in Charges |-> Sum(AtCharge(T, c))]
           F == {T \in SUBSET S : Sum(T) = Total(W(T), Charges)}
<1>0. IsFiniteSet(Charges)
  BY Amounts
<1>1. {} \in F
  <2>1. \A c \in Charges : W({})[c] = 0
    BY SumNone DEF AtCharge
  <2> HIDE DEF W
  <2>2. Total(W({}), Charges) = 0
    BY <1>0, <2>1, TotalZero
  <2> QED
    BY <2>2, SumNone
<1>2. ASSUME NEW T \in SUBSET S, T # {}, \A x \in T : T \ {x} \in F
      PROVE  T \in F
  <2>0. PICK x \in T : TRUE
    BY <1>2
  <2> DEFINE U == T \ {x}
  <2>1. U \in SUBSET Entries /\ IsFiniteSet(U) /\ x \in Entries \ U /\ T = U \cup {x} /\ x.charge \in Charges
    BY <2>0, FS_Subset DEF Entries
  <2>2. Sum(T) = Sum(U) + x.amount /\ x.amount \in Int
    <3>1. Sum(U \cup {x}) = Sum(U) + x.amount
      <4> HIDE DEF U
      <4> QED
        BY <2>1, SumAdd
    <3>2. x.amount \in Int
      BY <2>1 DEF Entries
    <3>3. U \cup {x} = T
      BY <2>1
    <3> QED
      BY <3>1, <3>2, <3>3
  <2>3. Sum(U) = Total(W(U), Charges)
    BY <1>2, <2>0
  <2>4. \A c \in Charges : AtCharge(U, c) \in SUBSET U /\ AtCharge(T, c) \in SUBSET S
    BY DEF AtCharge
  <2>5. \A c \in Charges : Sum(AtCharge(U, c)) \in Int /\ Sum(AtCharge(T, c)) \in Int
    <3> SUFFICES ASSUME NEW c \in Charges
                 PROVE  Sum(AtCharge(U, c)) \in Int /\ Sum(AtCharge(T, c)) \in Int
      OBVIOUS
    <3>1. AtCharge(U, c) \in SUBSET S /\ AtCharge(T, c) \in SUBSET S
      BY <2>4
    <3>2. \A R \in SUBSET S : Sum(R) \in Nat
      BY LedgerSums
    <3> QED
      BY <3>1, <3>2
  <2>6. \A c \in Charges \ {x.charge} : AtCharge(T, c) = AtCharge(U, c)
    BY DEF AtCharge
  <2>7. Sum(AtCharge(T, x.charge)) = Sum(AtCharge(U, x.charge)) + x.amount
    <3>1. AtCharge(T, x.charge) = AtCharge(U, x.charge) \cup {x} /\ x \notin AtCharge(U, x.charge)
      BY <2>0 DEF AtCharge
    <3>2. AtCharge(U, x.charge) \in SUBSET Entries /\ IsFiniteSet(AtCharge(U, x.charge))
      BY <2>1, <2>4, FS_Subset
    <3> HIDE DEF U
    <3> QED
      BY <2>1, <3>1, <3>2, SumAdd
  <2> DEFINE w == W(U)
             v == W(T)
  <2>8. /\ \A c \in Charges : w[c] \in Int /\ v[c] \in Int
        /\ \A c \in Charges \ {x.charge} : v[c] = w[c]
        /\ v[x.charge] = w[x.charge] + x.amount
    BY <2>1, <2>5, <2>6, <2>7
  <2>9. Total(v, Charges) = Total(w, Charges) + v[x.charge] - w[x.charge]
    <3> HIDE DEF w, v, U
    <3>1. \A y \in Charges : w[y] \in Int /\ v[y] \in Int
      BY <2>8
    <3>2. \A y \in Charges \ {x.charge} : v[y] = w[y]
      BY <2>8
    <3>3. x.charge \in Charges
      BY <2>1
    <3>4. ASSUME NEW j \in Charges, \A y \in Charges \ {j} : v[y] = w[y]
          PROVE  Total(v, Charges) = Total(w, Charges) + v[j] - w[j]
      BY <1>0, <3>1, <3>4, TotalChange
    <3> QED
      BY <3>2, <3>3, <3>4
  <2>10. Total(w, Charges) \in Int
    <3> HIDE DEF w, v
    <3> QED
      BY <1>0, <2>8, TotalInt
  <2> HIDE DEF U
  <2>11. Sum(T) = Total(v, Charges)
    <3>1. Sum(U) = Total(w, Charges) /\ w[x.charge] \in Int
      BY <2>1, <2>3, <2>8
    <3> HIDE DEF w, v
    <3> QED
      BY <2>1, <2>2, <2>8, <2>9, <2>10, <3>1
  <2> QED
    BY <2>11
<1>3. S \in F
  <2> HIDE DEF F
  <2> QED
    BY <1>1, <1>2, Induct
<1> QED
  BY <1>3

\* What a piece is, as the sum of what the charges before it have left.
PieceIs ==
    RecordTyped =>
       \A c \in Charges :
          /\ IsFiniteSet(Ahead(c)) /\ Ahead(c) \subseteq Charges
          /\ \A d \in Ahead(c) : LeftOf(d) \in Nat
          /\ Before(c) \in Nat
          /\ \A a \in Nat : Piece(c, a) = Min({LeftOf(c), a - Before(c)})

LEMMA PieceFacts == PieceIs
<1> SUFFICES ASSUME RecordTyped, NEW c \in Charges
             PROVE  /\ IsFiniteSet(Ahead(c)) /\ Ahead(c) \subseteq Charges
                    /\ \A d \in Ahead(c) : LeftOf(d) \in Nat
                    /\ Before(c) \in Nat
                    /\ \A a \in Nat : Piece(c, a) = Min({LeftOf(c), a - Before(c)})
  BY DEF PieceIs
<1>1. OpenCharges \subseteq Charges /\ IsFiniteSet(OpenCharges)
  <2>1. 0 \in Nat
    OBVIOUS
  <2> QED
    BY <2>1, PieceTyped
<1>2. Ahead(c) \subseteq Charges /\ IsFiniteSet(Ahead(c))
  BY <1>1, FS_Subset DEF Ahead
<1>3. \A d \in Ahead(c) : LeftOf(d) \in Nat
  <2>1. \A d \in Charges : LeftOf(d) \in Int
    BY LeftTyped
  <2> QED
    BY <1>1, <2>1 DEF Ahead, OpenCharges
<1> DEFINE w == [d \in Ahead(c) |-> LeftOf(d)]
<1>4. Total(w, Ahead(c)) \in Nat
  <2>1. \A d \in Ahead(c) : w[d] \in Nat
    BY <1>3
  <2> HIDE DEF w
  <2> QED
    BY <1>2, <2>1, TotalNat
<1>5. MapThenSumSet(LeftOf, Ahead(c)) = Before(c)
  BY <1>2, LeftIs DEF Before
<1>6. \A a \in Nat : Piece(c, a) = Min({LeftOf(c), a - Before(c)})
  BY <1>5 DEF Piece, Ahead
<1> QED
  BY <1>2, <1>3, <1>4, <1>6 DEF Before

\* Nothing of the record's amounts is written.
AmountsKept ==
    /\ record'.captured = record.captured /\ record'.tops = record.tops
    /\ record'.refunded = record.refunded /\ record'.refunds = record.refunds
    /\ record'.topRefunded = record.topRefunded

LEMMA SameAmounts ==
    ASSUME RecordTyped, RecordTyped', AmountsKept
    PROVE  /\ Remaining' = Remaining
           /\ \A c \in Charges :
                 /\ LeftOf(c)' = LeftOf(c) /\ RefundedFor(c)' = RefundedFor(c)
                 /\ Before(c)' = Before(c)
                 /\ \A a \in Nat : Piece(c, a)' = Piece(c, a)
<1>1. Remaining' = Remaining /\ \A c : LeftOf(c)' = LeftOf(c) /\ RefundedFor(c)' = RefundedFor(c)
  BY DEF AmountsKept, Remaining, PendingRefunds, LeftOf, TakenFor, RefundedFor, PendingOf
<1>2. OpenCharges' = OpenCharges
  BY <1>1 DEF OpenCharges, AmountsKept
<1>3. \A c : Ahead(c)' = Ahead(c)
  BY <1>2 DEF Ahead
<1>4. \A c : Before(c)' = Before(c)
  BY <1>1, <1>3 DEF Before
<1>5. PieceIs /\ PieceIs'
  BY PieceFacts, PTL
<1>6. ASSUME NEW c \in Charges, NEW a \in Nat
      PROVE  Piece(c, a)' = Piece(c, a)
  <2>1. Piece(c, a) = Min({LeftOf(c), a - Before(c)})
    BY <1>5 DEF PieceIs
  <2>2. Piece(c, a)' = Min({LeftOf(c)', a - Before(c)'})
    BY <1>5 DEF PieceIs
  <2> QED
    BY <1>1, <1>4, <2>1, <2>2
<1> QED
  BY <1>1, <1>4, <1>6

\* What was asked for, and not recorded, can be asked for again.
LEMMA SameRepeatable ==
    ASSUME RecordTyped, RecordTyped', AmountsKept, cost' = cost,
           NEW p \in Entries, Repeatable(p),
           RefundedAt(p.charge) \in Nat, RefundedAt(p.charge)' \in Nat,
           RefundedAt(p.charge)' >= RefundedAt(p.charge),
           record'.status = "captured" => record.status = "captured"
    PROVE  Repeatable(p)'
<1>1. p.charge \in Charges /\ p.id[2] \in Nat /\ p.amount \in Nat
  BY DEF Entries, Ids
<1>2. RefundedFor(p.charge)' = RefundedFor(p.charge) /\ RefundedFor(p.charge) \in Nat
  BY <1>1, SameAmounts, LeftTyped
<1>3. RefundedFor(p.charge)' + p.amount <= RefundedAt(p.charge)'
  BY <1>1, <1>2 DEF Repeatable
<1>4. Remaining' = Remaining /\ Piece(p.charge, p.id[2])' = Piece(p.charge, p.id[2])
  BY <1>1, SameAmounts
<1>5. HoldCharge \in Charges
  BY DEF Charges
<1>6. Settles(p) => Settles(p)'
  BY <1>1, <1>5, SameAmounts DEF Settles, AmountsKept
<1> QED
  BY <1>3, <1>4, <1>6 DEF Repeatable

\* A step that refunds nothing and settles no refund, of a record that is no
\* longer a hold unless its capture is only written.
MoneyKept ==
    /\ mode' = mode /\ cost' = cost /\ pay'.refunds = pay.refunds
    /\ record'.refunded = record.refunded /\ record'.refunds = record.refunds
    /\ record'.topRefunded = record.topRefunded
    /\ \A e \in events' \ events : e.op \notin {"refund", "refunded"}
    /\ IsHold' => IsHold
    /\ IsHold \/ /\ AmountsKept
                 /\ record'.status = "captured" => record.status = "captured"

LEMMA RefundedAtNat ==
    ASSUME PayTyped
    PROVE  \A c : RefundedAt(c) \in Nat
BY LedgerSums DEF PayTyped, Pays, RefundedAt

LEMMA KeptMoney ==
    ASSUME MoneyInv, Typed', MoneyKept
    PROVE  MoneyInv'
<1>0. Typed
  BY DEF MoneyInv
<1>1. IsHold' => pay'.refunds = {}
  BY DEF MoneyInv, MoneyKept
<1>2. CASE mode = "async"
  <2>1. Ledgered'
    BY <1>2 DEF MoneyInv, Ledgered, MoneyKept, DoneAt, EntryOf
  <2> QED
    BY <1>1, <1>2, <2>1 DEF MoneyInv, MoneyKept
<1>3. CASE mode # "async"
  <2>0. ByCharge
    BY <1>3 DEF MoneyInv
  <2>1. \A c : RefundedAt(c)' = RefundedAt(c) /\ RefundedFor(c)' = RefundedFor(c)
    BY DEF MoneyKept, RefundedAt, RefundedFor
  <2>2. ASSUME NEW p \in pay'.refunds, Current(p)'
        PROVE  Repeatable(p)'
    <3>1. p \in pay.refunds /\ p \in Entries /\ Current(p) /\ ~IsHold
      BY <1>0, <2>2 DEF MoneyInv, MoneyKept, Current, Typed, PayTyped, Pays
    <3>2. AmountsKept /\ (record'.status = "captured" => record.status = "captured") /\ cost' = cost
      BY <3>1 DEF MoneyKept
    <3>3. Repeatable(p)
      BY <2>0, <3>1 DEF ByCharge
    <3>4. RefundedAt(p.charge) \in Nat /\ RefundedAt(p.charge)' \in Nat
          /\ RefundedAt(p.charge)' >= RefundedAt(p.charge)
      BY <1>0, <2>1, RefundedAtNat DEF Typed
    <3> QED
      BY <1>0, <3>1, <3>2, <3>3, <3>4, SameRepeatable DEF Typed
  <2>3. record'.status \in {"pre_authorized", "captured"} => record.status \in {"pre_authorized", "captured"}
    BY DEF MoneyKept, IsHold
  <2>4. ByCharge'
    BY <2>0, <2>1, <2>2, <2>3 DEF ByCharge, MoneyKept
  <2> QED
    BY <1>1, <1>3, <2>4 DEF MoneyInv, MoneyKept
<1> QED
  BY <1>2, <1>3

\* The writes leave what was refunded alone, and the amounts of a record that
\* is no longer a hold.
LEMMA WritesKeepMoney ==
    ASSUME RecordTyped
    PROVE  /\ \A amount, declined, top, ref :
                 LET r == Captured(amount, declined, top, ref)
                 IN  r.refunded = record.refunded /\ r.refunds = record.refunds
                     /\ r.topRefunded = record.topRefunded /\ r.status # "pre_authorized"
           /\ \A ref :
                 LET r == Cancelled(ref)
                 IN  r.refunded = record.refunded /\ r.refunds = record.refunds
                     /\ r.topRefunded = record.topRefunded /\ r.status # "pre_authorized"
           /\ LET r == HoldFailed
              IN  r.refunded = record.refunded /\ r.refunds = record.refunds
                  /\ r.topRefunded = record.topRefunded /\ r.status # "pre_authorized"
           /\ \A r \in {CaptureFailed, Confirmed, [record EXCEPT !.declined = TRUE]} :
                 /\ r.refunded = record.refunded /\ r.refunds = record.refunds
                 /\ r.topRefunded = record.topRefunded
                 /\ r.captured = record.captured /\ r.tops = record.tops
                 /\ r.status \in {record.status, "failed"}
BY DEF RecordTyped, Records, Captured, Cancelled, HoldFailed, CaptureFailed, Confirmed

\* What the record may become.
LEMMA RecordMoney ==
    ASSUME Typed, mode' = mode, cost' = cost, pay'.refunds = pay.refunds,
           \A e \in events' \ events : e.op \notin {"refund", "refunded"},
           \/ record' \in {record, CaptureFailed, Confirmed, [record EXCEPT !.declined = TRUE]}
           \/ /\ IsHold
              /\ \/ \E amount, declined, top, ref : record' = Captured(amount, declined, top, ref)
                 \/ \E ref : record' = Cancelled(ref)
                 \/ record' = HoldFailed
    PROVE  MoneyKept
<1>1. RecordTyped
  BY DEF Typed
<1>2. CASE record' = record
  BY <1>2 DEF MoneyKept, AmountsKept, IsHold
<1>3. CASE record' \in {CaptureFailed, Confirmed, [record EXCEPT !.declined = TRUE]}
  <2>1. /\ record'.refunded = record.refunded /\ record'.refunds = record.refunds
        /\ record'.topRefunded = record.topRefunded
        /\ record'.captured = record.captured /\ record'.tops = record.tops
        /\ record'.status \in {record.status, "failed"}
    BY <1>1, <1>3, WritesKeepMoney
  <2> QED
    BY <2>1 DEF MoneyKept, AmountsKept, IsHold
<1>4. CASE IsHold /\ record' \notin {record, CaptureFailed, Confirmed, [record EXCEPT !.declined = TRUE]}
  <2>1. /\ record'.refunded = record.refunded /\ record'.refunds = record.refunds
        /\ record'.topRefunded = record.topRefunded
    BY <1>1, <1>4, WritesKeepMoney
  <2> QED
    BY <1>4, <2>1 DEF MoneyKept, IsHold
<1> QED
  BY <1>2, <1>3, <1>4

\* The provider takes and charges without a refund.
LEMMA TakesKeepRefunds ==
    ASSUME PayTyped
    PROVE  /\ \A op \in {"capture", "cancel"} : \A amount : ProviderTakes(op, amount) => pay'.refunds = pay.refunds
           /\ \A c, amount : ChargedOnce(c, amount) => pay'.refunds = pay.refunds
<1>1. ASSUME NEW op \in {"capture", "cancel"}, NEW amount, ProviderTakes(op, amount)
      PROVE  pay'.refunds = pay.refunds
  BY <1>1 DEF ProviderTakes, Done, Accepted, PayTyped, Pays
<1>2. ASSUME NEW c, NEW amount, ChargedOnce(c, amount)
      PROVE  pay'.refunds = pay.refunds
  BY <1>2 DEF ChargedOnce, PayTyped, Pays
<1> QED
  BY <1>1, <1>2

LEMMA TasksKeepMoney ==
    ASSUME MoneyInv,
           \/ SettleBegins \/ OperatorBegins \/ ChargeTopUp \/ TopUpDeclined
           \/ \E t \in Tasks : \/ Ask(t) \/ AskRefused(t) \/ AskAnswerLost(t)
                               \/ MarkFailed(t) \/ Record(t) \/ RecordFails(t)
    PROVE  MoneyKept
<1>0. Typed /\ RecordTyped /\ PayTyped
  BY DEF MoneyInv, Typed
<1>1. UNCHANGED <<mode, cost, events>>
  BY DEF SettleBegins, OperatorBegins, Begin, ChargeTopUp, TopUpDeclined, Ask, AskRefused, AskAnswerLost,
         MarkFailed, Record, RecordFails
<1>2. pay'.refunds = pay.refunds
  <2>1. ASSUME NEW t \in Tasks, task[t].pc = "ask"
        PROVE  task[t].op \in {"capture", "cancel"}
    BY <1>0, <2>1 DEF Typed, TasksTyped
  <2> QED
    BY <1>0, <2>1, TakesKeepRefunds
       DEF SettleBegins, OperatorBegins, Begin, ChargeTopUp, TopUpDeclined, Ask, AskRefused,
           AskAnswerLost, MarkFailed, Record, RecordFails
<1>3. \/ record' = record
      \/ IsHold /\ record' = HoldFailed
      \/ IsHold /\ \E t \in Tasks : record' = Outcome(t)
  BY DEF SettleBegins, OperatorBegins, Begin, ChargeTopUp, TopUpDeclined, Ask, AskRefused,
         AskAnswerLost, MarkFailed, Record, RecordFails
<1>4. \A t \in Tasks : \/ \E amount, declined, top, ref : Outcome(t) = Captured(amount, declined, top, ref)
                       \/ \E ref : Outcome(t) = Cancelled(ref)
  BY DEF Outcome
<1> QED
  BY <1>0, <1>1, <1>2, <1>3, <1>4, RecordMoney

LEMMA RetriesKeepMoney ==
    ASSUME MoneyInv,
           \/ RetrySelects
           \/ \E r \in Retries : \/ RetryReads(r) \/ RetryCharges(r) \/ RetryDeclined(r)
                                 \/ RetryRecords(r) /\ record.status # "captured"
    PROVE  MoneyKept
<1>0. Typed /\ PayTyped
  BY DEF MoneyInv, Typed
<1>1. UNCHANGED <<mode, cost, events>>
      /\ record' \in {record, [record EXCEPT !.declined = TRUE]}
  BY DEF RetrySelects, RetryReads, RetryCharges, RetryDeclined, RetryRecords
<1>2. pay'.refunds = pay.refunds
  BY <1>0, TakesKeepRefunds DEF RetrySelects, RetryReads, RetryCharges, RetryDeclined, RetryRecords
<1> QED
  BY <1>0, <1>1, <1>2, RecordMoney

LEMMA HoldKeepsMoney ==
    ASSUME MoneyInv, Resolve("capture") \/ Resolve("cancel") \/ CaptureReturned \/ Expire
    PROVE  MoneyKept
<1>0. Typed /\ PayTyped
  BY DEF MoneyInv, Typed
<1>1. UNCHANGED <<mode, cost, record>>
  BY DEF Resolve, CaptureReturned, Expire
<1>2. pay'.refunds = pay.refunds
  BY <1>0 DEF Resolve, CaptureReturned, Expire, PayTyped, Pays
<1>3. \A e \in events' \ events : e.op \notin {"refund", "refunded"}
  <2>1. ASSUME NEW op \in {"capture", "cancel"}, Resolve(op)
        PROVE  \A e \in events' \ events : e.op \notin {"refund", "refunded"}
    <3>1. PICK ok \in BOOLEAN : events' = events \cup {[op |-> op, ok |-> ok]}
      BY <2>1 DEF Resolve
    <3>2. [op |-> op, ok |-> ok].op = op
      OBVIOUS
    <3> QED
      BY <3>1, <3>2
  <2>2. CASE CaptureReturned \/ Expire
    BY <2>2 DEF CaptureReturned, Expire
  <2> QED
    BY <2>1, <2>2
<1> QED
  BY <1>0, <1>1, <1>2, <1>3, RecordMoney

LEMMA WebhooksKeepMoney ==
    ASSUME MoneyInv, NEW e \in events,
           \/ WebhookAnswers(e) \/ WebhookFindsHold(e) \/ WebhookMovesHold(e)
           \/ WebhookEndsHold(e) \/ WebhookIgnored(e)
    PROVE  MoneyKept
<1>0. Typed
  BY DEF MoneyInv
<1>1. UNCHANGED <<mode, cost, pay>> /\ events' \subseteq events
  BY DEF WebhookAnswers, WebhookFindsHold, WebhookMovesHold, WebhookEndsHold, WebhookIgnored, EventLeaves
<1>2. \/ record' \in {record, CaptureFailed, Confirmed}
      \/ /\ IsHold
         /\ \/ \E amount, declined, top, ref : record' = Captured(amount, declined, top, ref)
            \/ \E ref : record' = Cancelled(ref)
            \/ record' = HoldFailed
  BY DEF WebhookAnswers, WebhookFindsHold, WebhookMovesHold, WebhookEndsHold, WebhookIgnored,
         AuthorisationEnded
<1> QED
  BY <1>0, <1>1, <1>2, RecordMoney

LEMMA MoneyInit == Init => MoneyInv
<1> SUFFICES ASSUME Init PROVE MoneyInv
  OBVIOUS
<1>1. Typed /\ RecordTyped
  BY TypedInit DEF Typed
<1>2. /\ record.refunded = 0 /\ record.refunds = {} /\ \A c \in TopUps : record.topRefunded[c] = 0
      /\ pay.refunds = {} /\ events = {}
  BY DEF Init
<1>3. Total(record.topRefunded, TopUps) = 0
  BY <1>2, Amounts, TotalZero
<1>4. \A c \in Charges : RefundedFor(c) = 0
  <2>1. RefundedFor(HoldCharge) = Max({0, 0})
    BY <1>2, <1>3 DEF RefundedFor
  <2>2. Max({0, 0}) = 0
    <3>1. Max({0, 0}) \in {0, 0}
      BY MaxIs
    <3> QED
      BY <3>1
  <2> QED
    BY <1>2, <2>1, <2>2 DEF RefundedFor, Charges
<1>5. \A c : RefundedAt(c) = 0
  <2>1. \A c : RefundedAt(c) = Sum({})
    BY <1>2 DEF RefundedAt
  <2> QED
    BY <2>1, SumNone
<1>6. Ledgered
  <2>1. DoneAt(record.refunds) = {}
    BY <1>2 DEF DoneAt
  <2> QED
    BY <1>2, <2>1, SumNone DEF Ledgered
<1>7. ByCharge
  BY <1>2, <1>3, <1>4, <1>5 DEF ByCharge
<1> QED
  BY <1>1, <1>2, <1>6, <1>7 DEF MoneyInv

\* What a refund asks for, and what of it is written.
ReachedBy(amount) == {c \in OpenCharges : Piece(c, amount) > 0}
MadeOf(amount, last) == {RefundOf(c, amount) : c \in {d \in ReachedBy(amount) : d <= last}}

LEMMA RefundMakes ==
    ASSUME Refund
    PROVE  \E amount \in {1, Remaining} \cap 1..Remaining : \E last \in ReachedBy(amount) :
              /\ RefundAsked(MadeOf(amount, last))
              /\ \/ record' = RefundWritten(MadeOf(amount, last))
                 \/ record' = RefundWritten({r \in MadeOf(amount, last) : r.charge < last})
                 \/ record' = record
              /\ events' = events \cup RefundReports(MadeOf(amount, last))
<1>1. PICK amount \in {1, Remaining} \cap 1..Remaining :
        \E last \in ReachedBy(amount) :
            /\ RefundAsked(MadeOf(amount, last))
            /\ \/ record' = RefundWritten(MadeOf(amount, last)) /\ UNCHANGED told
               \/ /\ record' = RefundWritten({r \in MadeOf(amount, last) : r.charge < last})
                  /\ told' = told \cup {"refund lost"}
               \/ told' = told \cup {"refund lost"} /\ UNCHANGED record
            /\ events' = events \cup RefundReports(MadeOf(amount, last))
  BY DEF Refund, ReachedBy, MadeOf
<1>2. PICK last \in ReachedBy(amount) :
            /\ RefundAsked(MadeOf(amount, last))
            /\ \/ record' = RefundWritten(MadeOf(amount, last)) /\ UNCHANGED told
               \/ /\ record' = RefundWritten({r \in MadeOf(amount, last) : r.charge < last})
                  /\ told' = told \cup {"refund lost"}
               \/ told' = told \cup {"refund lost"} /\ UNCHANGED record
            /\ events' = events \cup RefundReports(MadeOf(amount, last))
  BY <1>1
<1> QED
  BY <1>2

\* With an asynchronous provider nothing of a refund is settled when it is
\* asked for.
LEMMA RefundLedgered ==
    ASSUME MoneyInv, mode = "async", Typed', Refund
    PROVE  MoneyInv'
<1>0. Typed /\ Ledgered /\ mode' = mode /\ ~IsHold
  BY DEF MoneyInv, Refund, CanBeRefunded, Refundable, IsHold
<1>1. PICK amount, last :
         /\ RefundAsked(MadeOf(amount, last))
         /\ \/ record' = RefundWritten(MadeOf(amount, last))
            \/ record' = RefundWritten({r \in MadeOf(amount, last) : r.charge < last})
            \/ record' = record
         /\ events' = events \cup RefundReports(MadeOf(amount, last))
  BY RefundMakes
<1>2. PICK made, W :
        /\ RefundAsked(made) /\ W \subseteq made /\ \A r \in made : r.state = "pending"
        /\ record' = RefundWritten(W) \/ record' = record
        /\ events' = events \cup RefundReports(made)
  <2> DEFINE made == MadeOf(amount, last)
             part == {r \in made : r.charge < last}
  <2>1. \A r \in made : r.state = "pending"
    BY DEF MoneyInv, RefundOf, MadeOf
  <2>2. made \subseteq made /\ part \subseteq made
    OBVIOUS
  <2> HIDE DEF made, part
  <2> QED
    BY <1>1, <2>1, <2>2 DEF made, part
<1>3. events' = events
  BY <1>2 DEF RefundReports
<1>4. pay.refunds \subseteq pay'.refunds
  BY <1>0, <1>2 DEF RefundAsked, Typed, PayTyped, Pays
<1>5. DoneAt(record'.refunds) = DoneAt(record.refunds) /\ record'.refunded = record.refunded
      /\ record'.status = record.status
  <2>1. CASE record' = record
    BY <2>1
  <2>2. CASE record' = RefundWritten(W)
    <3>1. record' = [record EXCEPT !.refunds = record.refunds \cup W]
      BY <2>2 DEF RefundWritten
    <3>2. /\ record'.refunds = record.refunds \cup W /\ record'.refunded = record.refunded
          /\ record'.status = record.status
      BY <1>0, <3>1 DEF Typed, RecordTyped, Records
    <3> QED
      BY <1>2, <3>2 DEF DoneAt
  <2> QED
    BY <1>2, <2>1, <2>2
<1>6. Ledgered'
  <2>1. \A e \in events' : e.op = "refund" => EntryOf(e) \in pay'.refunds
    BY <1>0, <1>3, <1>4 DEF Ledgered
  <2>2. DoneAt(record'.refunds) \subseteq DoneAt(pay'.refunds)
    BY <1>0, <1>4, <1>5 DEF Ledgered, DoneAt
  <2> QED
    BY <1>0, <1>3, <1>5, <2>1, <2>2 DEF Ledgered, EntryOf
<1> QED
  BY <1>0, <1>5, <1>6 DEF MoneyInv, IsHold

LEMMA ResolveLedgered ==
    ASSUME MoneyInv, Typed', ResolveRefund
    PROVE  MoneyInv'
<1>0. Typed /\ UNCHANGED <<mode, record>>
  BY DEF MoneyInv, ResolveRefund
<1>1. PICK r \in pay.refunds, ok \in BOOLEAN :
          /\ r.state = "pending"
          /\ pay' = [pay EXCEPT !.refunds =
                (@ \ {r}) \cup {[r EXCEPT !.state = IF ok THEN "done" ELSE "failed"]}]
          /\ events' = events \cup {[op |-> "refund", id |-> r.id, charge |-> r.charge,
                                     amount |-> r.amount, ok |-> ok]}
  BY DEF ResolveRefund
<1>2. mode = "async" /\ Ledgered
  BY <1>1 DEF MoneyInv, ByCharge
<1> DEFINE new == [r EXCEPT !.state = IF ok THEN "done" ELSE "failed"]
           event == [op |-> "refund", id |-> r.id, charge |-> r.charge, amount |-> r.amount, ok |-> ok]
<1>3. r \in Entries
  BY <1>0 DEF Typed, PayTyped, Pays
<1>4. EntryOf(event) = new /\ event.op = "refund"
  BY <1>3 DEF EntryOf, Entries
<1>5. pay'.refunds = (pay.refunds \ {r}) \cup {new} /\ events' = events \cup {event}
  BY <1>0, <1>1 DEF Typed, PayTyped, Pays
<1> HIDE DEF new, event
<1>6. ASSUME NEW e \in events', e.op = "refund"
      PROVE  EntryOf(e) \in pay'.refunds
  <2>1. CASE e \in events
    <3>1. EntryOf(e) \in pay.refunds
      BY <1>2, <1>6, <2>1 DEF Ledgered
    <3>2. EntryOf(e).state # "pending"
      BY DEF EntryOf
    <3> QED
      BY <1>1, <1>5, <3>1, <3>2
  <2> QED
    BY <1>4, <1>5, <2>1
<1>7. DoneAt(pay.refunds) \subseteq DoneAt(pay'.refunds)
  BY <1>1, <1>5 DEF DoneAt
<1>8. \A e \in events' : e.op # "refunded"
  BY <1>2, <1>4, <1>5 DEF Ledgered
<1>9. Ledgered'
  BY <1>0, <1>2, <1>6, <1>7, <1>8 DEF Ledgered, EntryOf, DoneAt
<1>10. ~IsHold
  BY <1>1 DEF MoneyInv
<1> QED
  BY <1>0, <1>2, <1>9, <1>10 DEF MoneyInv, IsHold

LEMMA SettleLedgered ==
    ASSUME MoneyInv, Typed', NEW e \in events, SettleRefund(e)
    PROVE  MoneyInv'
<1> DEFINE listed == {r \in record.refunds : r.id = e.id}
           entry == EntryOf(e)
           total == record.refunded + e.amount
           ledger == (record.refunds \ listed) \cup {entry}
<1>0. Typed /\ UNCHANGED <<mode, pay>> /\ e.op = "refund" /\ events' \subseteq events
  BY DEF MoneyInv, SettleRefund, EventLeaves
<1>1. mode = "async" /\ Ledgered
  BY <1>0 DEF MoneyInv, ByCharge
<1>2. CASE record' = record
  <2>1. Ledgered'
    BY <1>0, <1>1, <1>2 DEF Ledgered, EntryOf, DoneAt
  <2> QED
    BY <1>0, <1>1, <1>2, <2>1 DEF MoneyInv, IsHold
<1>3. CASE record' # record
  <2>1. /\ \A r \in listed : r.state = "pending"
        /\ record'.refunds = ledger
        /\ \/ record'.refunded = record.refunded /\ record'.status = record.status
           \/ e.ok /\ record'.refunded = total /\ record'.status \in {"refunded", "partially_refunded"}
    BY <1>0, <1>3 DEF SettleRefund, EntryOf, AfterRefund, Typed, RecordTyped, Records
  <2>2. entry \in pay.refunds /\ entry.id = e.id /\ entry.amount = e.amount
        /\ entry.state = (IF e.ok THEN "done" ELSE "failed")
    BY <1>0, <1>1 DEF Ledgered, EntryOf
  <2>3. entry \in Entries /\ DoneAt(record.refunds) \in SUBSET Entries
        /\ IsFiniteSet(DoneAt(record.refunds)) /\ record.refunded \in Nat /\ entry.amount \in Nat
        /\ Sum(DoneAt(record.refunds)) \in Nat
    <3>1. DoneAt(record.refunds) \in SUBSET record.refunds /\ record.refunds \in SUBSET Entries
      BY <1>0 DEF DoneAt, Typed, RecordTyped, Records
    <3>2. entry \in Entries
      BY <1>0, <2>2 DEF Typed, PayTyped, Pays
    <3> QED
      BY <1>0, <3>1, <3>2, LedgerSums DEF Entries, Typed, RecordTyped, Records
  <2> HIDE DEF entry
  <2>4. CASE e.ok
    <3>1. DoneAt(ledger) = DoneAt(record.refunds) \cup {entry} /\ entry \notin DoneAt(record.refunds)
      BY <2>1, <2>2, <2>4 DEF DoneAt
    <3>2. Sum(DoneAt(ledger)) = Sum(DoneAt(record.refunds)) + entry.amount
      BY <2>3, <3>1, SumAdd
    <3>3. record'.refunded <= Sum(DoneAt(ledger))
      BY <1>1, <2>1, <2>2, <2>3, <3>2 DEF Ledgered
    <3>4. DoneAt(ledger) \subseteq DoneAt(pay.refunds)
      BY <1>1, <2>2, <2>4, <3>1 DEF Ledgered, DoneAt
    <3> HIDE DEF ledger
    <3>5. Ledgered'
      BY <1>0, <1>1, <2>1, <3>3, <3>4 DEF Ledgered, EntryOf
    <3> QED
      BY <1>0, <1>1, <2>1, <2>2, <3>5 DEF MoneyInv, IsHold
  <2>5. CASE ~e.ok
    <3>1. DoneAt(ledger) = DoneAt(record.refunds)
      BY <2>1, <2>2, <2>5 DEF DoneAt
    <3> HIDE DEF ledger
    <3>2. Ledgered'
      BY <1>0, <1>1, <2>1, <2>5, <3>1 DEF Ledgered, EntryOf
    <3> QED
      BY <1>0, <1>1, <2>1, <2>2, <2>5, <3>2 DEF MoneyInv, IsHold
  <2> QED
    BY <2>4, <2>5
<1> QED
  BY <1>2, <1>3

\* Nothing is refunded yet: each charge has all it took left.
Fresh ==
    record.refunded = 0 /\ record.refunds = {} /\ \A c \in TopUps : record.topRefunded[c] = 0

FreshIs ==
    RecordTyped /\ Fresh =>
       /\ Remaining = record.captured
       /\ LeftOf(HoldCharge) = Max({0, record.captured - Total(record.tops, TopUps)})
       /\ \A c \in TopUps : LeftOf(c) = record.tops[c]

LEMMA FreshFacts == FreshIs
<1> SUFFICES ASSUME RecordTyped, Fresh
             PROVE  /\ Remaining = record.captured
                    /\ LeftOf(HoldCharge) = Max({0, record.captured - Total(record.tops, TopUps)})
                    /\ \A c \in TopUps : LeftOf(c) = record.tops[c]
  BY DEF FreshIs
<1>1. record.captured \in Nat /\ record.tops \in [TopUps -> Nat]
  BY Amounts DEF RecordTyped, Records
<1>2. PendingRefunds = 0 /\ \A c : PendingOf(c) = 0
  <2>1. PendingRefunds = Sum({}) /\ \A c : PendingOf(c) = Sum({})
    BY DEF Fresh, PendingRefunds, PendingOf
  <2> QED
    BY <2>1, SumNone
<1>3. Total(record.topRefunded, TopUps) = 0
  BY Amounts, TotalZero DEF Fresh
<1>4. Max({0, record.captured - Total(record.tops, TopUps)}) \in Nat
  <2>1. record.captured - Total(record.tops, TopUps) \in Int
    BY <1>1, TotalOfTops
  <2>2. \A x \in Int : Max({0, x}) \in {0, x} /\ Max({0, x}) >= 0
    BY MaxIs
  <2> QED
    BY <2>1, <2>2
<1>5. RefundedFor(HoldCharge) = 0
  <2>1. RefundedFor(HoldCharge) = Max({0, 0})
    BY <1>3 DEF RefundedFor, Fresh
  <2>2. Max({0, 0}) \in {0, 0}
    BY MaxIs
  <2> QED
    BY <2>1, <2>2
<1>6. LeftOf(HoldCharge) = Max({0, record.captured - Total(record.tops, TopUps)})
  BY <1>2, <1>4, <1>5 DEF LeftOf, TakenFor
<1>7. ASSUME NEW c \in TopUps
      PROVE  LeftOf(c) = record.tops[c]
  <2>1. c # HoldCharge
    BY Amounts DEF HoldCharge
  <2> QED
    BY <1>1, <1>2, <2>1 DEF LeftOf, TakenFor, RefundedFor, Fresh
<1> QED
  BY <1>1, <1>2, <1>6, <1>7 DEF Remaining, Fresh

\* A refund that was asked for before the record changed its amounts is not
\* asked for again with more.
SettlesIs ==
    RecordTyped /\ Fresh =>
       \A p \in Entries :
          Settles(p) /\ p.id[2] \in {1, Remaining} => Piece(p.charge, p.id[2]) <= p.amount

LEMMA SettlesFacts == SettlesIs
<1> SUFFICES ASSUME RecordTyped, Fresh, NEW p \in Entries, Settles(p), p.id[2] \in {1, Remaining}
             PROVE  Piece(p.charge, p.id[2]) <= p.amount
  BY DEF SettlesIs
<1> DEFINE a == p.id[2]
           c == p.charge
<1>1. c \in Charges /\ a \in Nat /\ p.amount \in Nat \ {0}
  BY DEF Entries, Ids
<1>2. Before(c) \in Nat /\ Piece(c, a) = Min({LeftOf(c), a - Before(c)}) /\ LeftOf(c) \in Int
  BY <1>1, PieceFacts, LeftTyped DEF PieceIs
<1>3. Piece(c, a) \in Int /\ Piece(c, a) <= LeftOf(c) /\ Piece(c, a) <= a - Before(c)
  <2>1. a - Before(c) \in Int
    BY <1>1, <1>2
  <2>2. Min({LeftOf(c), a - Before(c)}) \in {LeftOf(c), a - Before(c)}
    BY <1>2, <2>1, MaxIs
  <2>3. Min({LeftOf(c), a - Before(c)}) <= LeftOf(c) /\ Min({LeftOf(c), a - Before(c)}) <= a - Before(c)
    BY <1>2, <2>1, MaxIs
  <2> QED
    BY <1>2, <2>1, <2>2, <2>3
<1>4. Remaining = record.captured
  BY FreshFacts DEF FreshIs
<1>5. CASE a = 1
  BY <1>1, <1>2, <1>3, <1>5
<1>6. CASE a # 1
  <2>1. \/ LeftOf(c) <= p.amount
        \/ a - Before(c) <= p.amount
    BY <1>4, <1>6 DEF Settles
  <2> QED
    BY <1>1, <1>2, <1>3, <2>1
<1> QED
  BY <1>5, <1>6

\* What a retry records leaves room for what was asked for before.
LEMMA RetryMoney ==
    ASSUME MoneyInv, mode # "async", Typed', NEW r \in Retries, RetryRecords(r),
           record.status = "captured"
    PROVE  MoneyInv'
<1> DEFINE k == RetryKey(r)
           tops == Listed(record.tops, k, pay.taken[k])
<1>0. /\ Typed /\ RecordTyped /\ RecordTyped' /\ ByCharge /\ UNCHANGED <<mode, cost, pay, events>>
      /\ Fresh /\ ~IsHold
  BY DEF MoneyInv, Typed, RetryRecords, ByCharge, Fresh, IsHold
<1>1. k \in TopUps /\ pay.taken[k] \in Nat /\ cost \in Nat
  <2>1. retry[r].captured \in Nat /\ retry[r].captured < cost /\ cost \in 0..MaxCost /\ MaxCost \in Nat
    BY <1>0, Amounts DEF RetryRecords, Typed, RetriesTyped, RetryStates
  <2>2. k \in TopUps
    BY <2>1, Amounts DEF RetryKey, RetryOf
  <2>3. k \in Charges
    BY <2>2 DEF Charges
  <2> QED
    BY <1>0, <2>1, <2>2, <2>3 DEF Typed, PayTyped, Pays
<1>2. /\ tops \in [TopUps -> Nat]
      /\ \A c \in TopUps : tops[c] >= record.tops[c] /\ (record.tops[c] > 0 => tops[c] = record.tops[c])
  BY <1>0, <1>1 DEF Listed, RecordTyped, Records
<1>3. /\ record'.captured = cost /\ record'.tops = tops /\ record'.refunded = record.refunded
      /\ record'.refunds = record.refunds /\ record'.topRefunded = record.topRefunded
      /\ record'.status = "captured"
  BY <1>0 DEF RetryRecords, RecordTyped, Records
<1> HIDE DEF tops, k
<1>4. Fresh'
  BY <1>0, <1>3 DEF Fresh
<1>5. ASSUME NEW p \in Entries, Settles(p)
      PROVE  Settles(p)'
  <2> DEFINE a == p.id[2]
             c == p.charge
  <2>1. CASE a = 1 \/ a # cost
    BY <1>0, <1>3, <2>1 DEF Settles
  <2>2. CASE a # 1 /\ a = cost
    <3>1. a = record.captured /\ (c # HoldCharge => record.tops[c] > 0)
      BY <1>5, <2>2 DEF Settles
    <3>2. c \in Charges /\ p.amount \in Nat
      BY DEF Entries
    <3>3. LeftOf(HoldCharge)' <= LeftOf(HoldCharge) /\ LeftOf(HoldCharge)' \in Int /\ LeftOf(HoldCharge) \in Int
      <4>1. Total(record.tops, TopUps) <= Total(tops, TopUps)
        <5>1. \A d \in TopUps : record.tops[d] \in Int /\ tops[d] \in Int /\ record.tops[d] <= tops[d]
          BY <1>0, <1>2 DEF RecordTyped, Records
        <5> QED
          BY <5>1, Amounts, TotalMono
      <4>2. Total(record.tops, TopUps) \in Nat /\ Total(tops, TopUps) \in Nat /\ record.captured \in Nat
        <5>1. record.tops \in [TopUps -> Nat] /\ record.captured \in Nat
          BY <1>0, Amounts DEF RecordTyped, Records
        <5>2. \A f \in [TopUps -> Nat] : Total(f, TopUps) \in Nat
          BY TotalOfTops
        <5> QED
          BY <1>2, <5>1, <5>2
      <4>3. /\ LeftOf(HoldCharge) = Max({0, record.captured - Total(record.tops, TopUps)})
            /\ LeftOf(HoldCharge)' = Max({0, record.captured - Total(tops, TopUps)})
        <5>1. FreshIs /\ FreshIs'
          BY FreshFacts, PTL
        <5> QED
          BY <1>0, <1>3, <1>4, <2>2, <3>1, <5>1 DEF FreshIs
      <4>4. ASSUME NEW x \in Int, NEW y \in Int, x <= y
            PROVE  Max({0, x}) <= Max({0, y}) /\ Max({0, x}) \in Int /\ Max({0, y}) \in Int
        <5>1. Max({0, x}) \in {0, x}
          BY MaxIs
        <5>2. Max({0, y}) \in {0, y} /\ Max({0, y}) >= 0 /\ Max({0, y}) >= y
          BY MaxIs
        <5> QED
          BY <4>4, <5>1, <5>2
      <4>5. /\ record.captured - Total(tops, TopUps) \in Int
            /\ record.captured - Total(record.tops, TopUps) \in Int
            /\ record.captured - Total(tops, TopUps) <= record.captured - Total(record.tops, TopUps)
        BY <4>1, <4>2
      <4> QED
        BY <4>3, <4>4, <4>5
    <3>4. ASSUME NEW d \in TopUps, record.tops[d] > 0
          PROVE  LeftOf(d)' = LeftOf(d) /\ LeftOf(d) = record.tops[d] /\ record'.tops[d] > 0
      <4>1. FreshIs /\ FreshIs'
        BY FreshFacts, PTL
      <4>2. LeftOf(d) = record.tops[d] /\ LeftOf(d)' = record'.tops[d]
        BY <1>0, <1>4, <4>1 DEF FreshIs
      <4> QED
        BY <1>2, <1>3, <3>4, <4>2
    <3>5. CASE LeftOf(c) <= p.amount
      <4>1. LeftOf(c)' <= p.amount
        <5>1. CASE c = HoldCharge
          BY <3>2, <3>3, <3>5, <5>1
        <5>2. CASE c # HoldCharge
          <6>1. c \in TopUps
            BY <3>2, <5>2 DEF Charges
          <6> QED
            BY <3>1, <3>4, <3>5, <5>2, <6>1
        <5> QED
          BY <5>1, <5>2
      <4>2. c # HoldCharge => record'.tops[c] > 0
        BY <3>1, <3>2, <3>4 DEF Charges
      <4> QED
        BY <1>3, <2>2, <4>1, <4>2 DEF Settles
    <3>6. CASE LeftOf(HoldCharge) <= 0 /\ c # HoldCharge /\ a - Before(c) <= p.amount
      <4>0. c \in TopUps /\ a \in Nat
        BY <3>2, <3>6 DEF Charges, Entries, Ids
      <4>1. LeftOf(HoldCharge)' <= 0
        BY <3>3, <3>6
      <4>2. PieceIs /\ PieceIs'
        BY PieceFacts, PTL
      <4>3. ASSUME NEW d \in Ahead(c)
            PROVE  d \in Ahead(c)' /\ LeftOf(d)' = LeftOf(d)
        <5>1. d \in OpenCharges /\ d < c /\ LeftOf(d) > 0
          BY <4>3 DEF Ahead, OpenCharges
        <5>2. d # HoldCharge
          BY <3>3, <3>6, <5>1
        <5>3. d \in TopUps /\ record.tops[d] > 0
          BY <5>1, <5>2 DEF OpenCharges
        <5>4. LeftOf(d)' = LeftOf(d) /\ record'.tops[d] > 0
          BY <3>4, <5>3
        <5>5. d \in OpenCharges'
          BY <5>1, <5>3, <5>4 DEF OpenCharges
        <5> QED
          BY <5>1, <5>4, <5>5 DEF Ahead
      <4> DEFINE A == Ahead(c)
                 B == Ahead(c)'
                 w == [d \in A |-> LeftOf(d)]
                 v == [d \in B |-> LeftOf(d)']
      <4>4. /\ IsFiniteSet(A) /\ IsFiniteSet(B) /\ \A d \in A : LeftOf(d) \in Nat
            /\ \A d \in B : LeftOf(d)' \in Nat
            /\ Before(c) \in Nat /\ Before(c)' \in Nat
        BY <1>0, <3>2, <4>2 DEF PieceIs
      <4>5. /\ A \subseteq B /\ \A d \in A : w[d] \in Int /\ w[d] = v[d]
            /\ \A d \in B : v[d] \in Nat
        BY <4>3, <4>4
      <4>6. Before(c) = Total(w, A) /\ Before(c)' = Total(v, B)
        BY DEF Before
      <4> HIDE DEF A, B, w, v
      <4>7. Total(w, A) = Total(v, A)
        BY <4>4, <4>5, TotalSame
      <4>8. Total(v, A) <= Total(v, B)
        BY <4>4, <4>5, TotalSubset
      <4>9. a - Before(c)' <= p.amount
        BY <3>2, <3>6, <4>0, <4>4, <4>6, <4>7, <4>8
      <4>10. record'.tops[c] > 0
        BY <3>1, <3>4, <3>6, <4>0
      <4> QED
        BY <1>3, <2>2, <3>6, <4>1, <4>9, <4>10 DEF Settles
    <3> QED
      BY <1>5, <2>2, <3>1, <3>5, <3>6 DEF Settles
  <2> QED
    BY <2>1, <2>2
<1>6. \A c : RefundedAt(c)' = RefundedAt(c) /\ RefundedFor(c)' = RefundedFor(c)
  BY <1>0, <1>3 DEF RefundedAt, RefundedFor
<1>7. ASSUME NEW p \in pay'.refunds, Current(p)'
      PROVE  Repeatable(p)'
  <2>1. p \in pay.refunds /\ p \in Entries /\ Current(p)
    BY <1>0, <1>3, <1>7 DEF Current, Typed, PayTyped, Pays
  <2>2. Repeatable(p) /\ Settles(p)
    BY <1>0, <2>1 DEF ByCharge, Repeatable
  <2>3. Settles(p)'
    BY <1>5, <2>1, <2>2
  <2>4. p.id[2] \in {1, Remaining'} => Piece(p.charge, p.id[2])' <= p.amount
    <3>1. SettlesIs'
      BY SettlesFacts, PTL
    <3> QED
      BY <1>0, <1>4, <2>1, <2>3, <3>1 DEF SettlesIs
  <2> QED
    BY <1>6, <2>2, <2>3, <2>4 DEF Repeatable
<1>8. ByCharge'
  BY <1>0, <1>3, <1>6, <1>7 DEF ByCharge
<1> QED
  BY <1>0, <1>3, <1>8 DEF MoneyInv, IsHold

\* What the record counts of each charge, with the top-ups' total in it.
CountsIs ==
    RecordTyped /\ Total(record.topRefunded, TopUps) <= record.refunded =>
       /\ RefundedFor(HoldCharge) = record.refunded - Total(record.topRefunded, TopUps)
       /\ \A c \in TopUps : c # HoldCharge /\ RefundedFor(c) = record.topRefunded[c]

LEMMA CountsFacts == CountsIs
<1> SUFFICES ASSUME RecordTyped, Total(record.topRefunded, TopUps) <= record.refunded
             PROVE  /\ RefundedFor(HoldCharge) = record.refunded - Total(record.topRefunded, TopUps)
                    /\ \A c \in TopUps : c # HoldCharge /\ RefundedFor(c) = record.topRefunded[c]
  BY DEF CountsIs
<1>1. Total(record.topRefunded, TopUps) \in Nat /\ record.refunded \in Nat
  BY TotalOfTops DEF RecordTyped, Records
<1>2. ASSUME NEW x \in Nat
      PROVE  Max({0, x}) = x
  <2>1. Max({0, x}) \in {0, x} /\ Max({0, x}) >= x /\ Max({0, x}) >= 0
    BY MaxIs
  <2> QED
    BY <2>1
<1>3. record.refunded - Total(record.topRefunded, TopUps) \in Nat
  BY <1>1
<1>4. RefundedFor(HoldCharge) = record.refunded - Total(record.topRefunded, TopUps)
  BY <1>2, <1>3 DEF RefundedFor
<1>5. \A c \in TopUps : c # HoldCharge /\ RefundedFor(c) = record.topRefunded[c]
  BY Amounts DEF HoldCharge, RefundedFor
<1> QED
  BY <1>4, <1>5

\* A synchronous refund is counted with its charge.
LEMMA WrittenCounts ==
    ASSUME Typed, RecordTyped', mode # "async",
           Total(record.topRefunded, TopUps) <= record.refunded,
           NEW W \in SUBSET Entries, IsFiniteSet(W), record' = RefundWritten(W)
    PROVE  /\ record'.refunded = record.refunded + Sum(W) /\ Sum(W) \in Nat
           /\ record'.refunds = record.refunds \cup W
           /\ record'.captured = record.captured /\ record'.tops = record.tops
           /\ record'.status \in {"refunded", "partially_refunded"}
           /\ Total(record'.topRefunded, TopUps) <= record'.refunded
           /\ \A c \in Charges : Sum(AtCharge(W, c)) \in Nat
                                 /\ RefundedFor(c)' = RefundedFor(c) + Sum(AtCharge(W, c))
           /\ W = {} => record'.topRefunded = record.topRefunded
<1> DEFINE w == [c \in Charges |-> Sum(AtCharge(W, c))]
           f == [c \in TopUps |-> record.topRefunded[c] + Sum(AtCharge(W, c))]
<1>1. /\ record.topRefunded \in [TopUps -> Nat] /\ record.refunded \in Nat
      /\ HoldCharge \in Charges /\ TopUps \subseteq Charges /\ Charges \ {HoldCharge} = TopUps
      /\ IsFiniteSet(TopUps) /\ IsFiniteSet(Charges) /\ RecordTyped
  BY Amounts DEF Typed, RecordTyped, Records, HoldCharge
<1>2. Sum(W) \in Nat /\ \A c \in Charges : Sum(AtCharge(W, c)) \in Nat
  <2>1. \A c \in Charges : AtCharge(W, c) \in SUBSET W
    BY DEF AtCharge
  <2> QED
    BY <2>1, LedgerSums
<1>3. record' = [record EXCEPT !.refunds = record.refunds \cup W,
                               !.refunded = record.refunded + Sum(W),
                               !.status = AfterRefund(record.refunded + Sum(W)),
                               !.topRefunded = f]
  BY DEF RefundWritten, AtCharge, Typed, RecordTyped, Records
<1> HIDE DEF f
<1>4. /\ record'.refunded = record.refunded + Sum(W)
      /\ record'.refunds = record.refunds \cup W
      /\ record'.captured = record.captured /\ record'.tops = record.tops
      /\ record'.status \in {"refunded", "partially_refunded"}
      /\ record'.topRefunded = f
  BY <1>3 DEF AfterRefund, Typed, RecordTyped, Records
<1>5. \A c \in TopUps : f[c] = record.topRefunded[c] + w[c] /\ w[c] \in Int
  BY <1>1, <1>2 DEF f
<1>6. \A c \in Charges : w[c] \in Nat /\ w[c] = Sum(AtCharge(W, c))
  BY <1>2
<1>7. Sum(W) = Total(w, Charges)
  BY SumByCharge
<1> HIDE DEF w
<1>8. Total(w, Charges) = w[HoldCharge] + Total(w, TopUps)
  <2>1. \A c \in Charges : w[c] \in Int
    BY <1>6
  <2>2. Total(w, Charges) = w[HoldCharge] + Total(w, Charges \ {HoldCharge})
    BY <1>1, <2>1, TotalRemove
  <2> QED
    BY <1>1, <2>2
<1>9. Total(f, TopUps) = Total(record.topRefunded, TopUps) + Total(w, TopUps)
  <2>1. \A c \in TopUps : record.topRefunded[c] \in Int /\ w[c] \in Int
                          /\ f[c] = record.topRefunded[c] + w[c]
    BY <1>1, <1>5
  <2> QED
    BY <1>1, <2>1, TotalAdd
<1>10. /\ Total(w, TopUps) \in Nat /\ Total(record.topRefunded, TopUps) \in Nat /\ w[HoldCharge] \in Nat
  <2>1. \A c \in TopUps : w[c] \in Nat
    BY <1>1, <1>6
  <2> QED
    BY <1>1, <1>6, <2>1, TotalNat, TotalOfTops
<1>11. record'.refunded - Total(f, TopUps) = record.refunded - Total(record.topRefunded, TopUps) + w[HoldCharge]
  BY <1>1, <1>4, <1>7, <1>8, <1>9, <1>10
<1>12. Total(record'.topRefunded, TopUps) <= record'.refunded
  BY <1>1, <1>2, <1>4, <1>7, <1>8, <1>9, <1>10
<1>13. CountsIs /\ CountsIs'
  BY CountsFacts, PTL
<1>14. ASSUME NEW c \in Charges
       PROVE  RefundedFor(c)' = RefundedFor(c) + Sum(AtCharge(W, c))
  <2>1. CASE c = HoldCharge
    <3>1. RefundedFor(c) = record.refunded - Total(record.topRefunded, TopUps)
      BY <1>1, <1>13, <2>1 DEF CountsIs
    <3>2. RefundedFor(c)' = record'.refunded - Total(record'.topRefunded, TopUps)
      BY <1>12, <1>13, <2>1 DEF CountsIs
    <3> QED
      BY <1>4, <1>6, <1>11, <2>1, <3>1, <3>2
  <2>2. CASE c \in TopUps
    <3>1. RefundedFor(c) = record.topRefunded[c]
      BY <1>1, <1>13, <2>2 DEF CountsIs
    <3>2. RefundedFor(c)' = record'.topRefunded[c]
      BY <1>12, <1>13, <2>2 DEF CountsIs
    <3> QED
      BY <1>4, <1>5, <1>6, <2>2, <3>1, <3>2
  <2> QED
    BY <2>1, <2>2 DEF Charges
<1>15. ASSUME W = {}
       PROVE  record'.topRefunded = record.topRefunded
  <2>1. \A c : AtCharge(W, c) = {}
    BY <1>15 DEF AtCharge
  <2>2. f = [c \in TopUps |-> record.topRefunded[c]]
    BY <1>1, <2>1, SumNone DEF f
  <2> QED
    BY <1>1, <1>4, <2>2
<1> QED
  BY <1>2, <1>4, <1>12, <1>14, <1>15

\* The entries a synchronous refund makes.
LEMMA MadeEntries ==
    ASSUME MoneyInv, mode # "async", NEW amount \in Nat,
           NEW D \in SUBSET ReachedBy(amount)
    PROVE  /\ D \subseteq Charges /\ PendingRefunds = 0
           /\ \A c \in D : LET q == RefundOf(c, amount)
                           IN  /\ q \in Entries /\ q.charge = c /\ q.state = "done"
                               /\ q.amount = Piece(c, amount)
                               /\ q.id[1] = record.refunded /\ q.id[2] = amount
                               /\ q.id[3] = Cardinality(record.refunds) /\ q.id[4] = c
           /\ {RefundOf(c, amount) : c \in D} \in SUBSET Entries
           /\ IsFiniteSet({RefundOf(c, amount) : c \in D})
<1>0. Typed /\ ByCharge /\ RecordTyped
  BY DEF MoneyInv, Typed
<1>1. D \in SUBSET OpenCharges /\ \A c \in D : Piece(c, amount) > 0
  BY DEF ReachedBy
<1>2. {RefundOf(c, amount) : c \in D} \in SUBSET Entries /\ IsFiniteSet({RefundOf(c, amount) : c \in D})
  BY <1>0, <1>1, MadeTyped
<1>3. PendingRefunds = 0
  <2>1. {r \in record.refunds : r.state = "pending"} = {}
    BY <1>0 DEF ByCharge
  <2> QED
    BY <2>1, SumNone DEF PendingRefunds
<1>4. record.refunded + PendingRefunds = record.refunded
  BY <1>0, <1>3 DEF RecordTyped, Records
<1>5. mode = "sync"
  BY <1>0 DEF Typed
<1>6. ASSUME NEW c \in D
      PROVE  LET q == RefundOf(c, amount)
             IN  /\ q \in Entries /\ q.charge = c /\ q.state = "done"
                 /\ q.amount = Piece(c, amount)
                 /\ q.id[1] = record.refunded /\ q.id[2] = amount
                 /\ q.id[3] = Cardinality(record.refunds) /\ q.id[4] = c
  BY <1>2, <1>4, <1>5 DEF RefundOf, RefundKey
<1>7. D \subseteq Charges
  BY <1>1 DEF OpenCharges, Charges
<1> QED
  BY <1>2, <1>3, <1>6, <1>7

\* The provider has room for what it is asked, or made it before.
LEMMA AskedRoom ==
    ASSUME MoneyInv, mode # "async", NEW amount \in Nat, amount \in {1, Remaining},
           NEW D \in SUBSET ReachedBy(amount),
           RefundAsked({RefundOf(c, amount) : c \in D})
    PROVE  LET made == {RefundOf(c, amount) : c \in D}
           IN  /\ pay'.refunds = pay.refunds \cup {r \in made : ~Known(r)}
               /\ \A c \in Charges : /\ RefundedAt(c) \in Nat /\ RefundedAt(c)' \in Nat
                                     /\ RefundedAt(c) <= RefundedAt(c)'
               /\ \A c \in D : RefundedFor(c) + Piece(c, amount) <= RefundedAt(c)'
<1> DEFINE made == {RefundOf(c, amount) : c \in D}
           At(c) == {r \in pay.refunds : r.charge = c /\ r.state = "done"}
           AtNext(c) == {r \in pay'.refunds : r.charge = c /\ r.state = "done"}
<1>0. Typed /\ ByCharge /\ RecordTyped /\ PayTyped
  BY DEF MoneyInv, Typed
<1>1. /\ D \subseteq Charges /\ made \in SUBSET Entries /\ IsFiniteSet(made)
      /\ \A c \in D : LET q == RefundOf(c, amount)
                      IN  /\ q \in Entries /\ q.charge = c /\ q.state = "done"
                          /\ q.amount = Piece(c, amount)
                          /\ q.id[1] = record.refunded /\ q.id[2] = amount
                          /\ q.id[3] = Cardinality(record.refunds) /\ q.id[4] = c
  BY MadeEntries
<1>2. PayTyped' /\ RefundAsked(made)
  <2>1. RefundAsked(made)
    OBVIOUS
  <2> HIDE DEF made
  <2> QED
    BY <1>0, <1>1, <2>1, AskedTyped
<1>3. pay'.refunds = pay.refunds \cup {r \in made : ~Known(r)}
  <2> HIDE DEF made
  <2> QED
    BY <1>0, <1>2 DEF RefundAsked, PayTyped, Pays
<1>4. /\ pay'.refunds \in SUBSET Entries /\ IsFiniteSet(pay'.refunds)
      /\ pay.refunds \in SUBSET pay'.refunds
  BY <1>2, <1>3 DEF PayTyped, Pays
<1>5. \A c : RefundedAt(c) = Sum(At(c)) /\ RefundedAt(c)' = Sum(AtNext(c))
  BY DEF RefundedAt
<1>6. \A c : At(c) \in SUBSET AtNext(c) /\ AtNext(c) \in SUBSET pay'.refunds /\ At(c) \in SUBSET pay'.refunds
  BY <1>4
<1>7. ASSUME NEW c \in Charges
      PROVE  /\ RefundedAt(c) \in Nat /\ RefundedAt(c)' \in Nat
             /\ RefundedAt(c) <= RefundedAt(c)'
  <2> HIDE DEF At, AtNext
  <2> QED
    BY <1>4, <1>5, <1>6, LedgerSums
<1>8. ASSUME NEW c \in D
      PROVE  RefundedFor(c) + Piece(c, amount) <= RefundedAt(c)'
  <2> DEFINE q == RefundOf(c, amount)
  <2>1. /\ c \in Charges /\ q \in made /\ q \in Entries /\ q.charge = c /\ q.state = "done"
        /\ q.amount = Piece(c, amount) /\ q.amount \in Nat
        /\ q.id[1] = record.refunded /\ q.id[2] = amount
        /\ q.id[3] = Cardinality(record.refunds) /\ q.id[4] = c
    BY <1>1 DEF Entries
  <2>2. RefundedFor(c) \in Nat /\ RefundedFor(c) <= RefundedAt(c) /\ RefundedAt(c) \in Nat
        /\ RefundedAt(c)' \in Nat /\ RefundedAt(c) <= RefundedAt(c)'
    BY <1>0, <1>7, <2>1, LeftTyped DEF ByCharge
  <2> HIDE DEF q, made
  <2>3. CASE Known(q)
    <3>1. PICK p \in pay.refunds : p.id = q.id
      BY <2>3 DEF Known
    <3>2. p.charge = c /\ Current(p) /\ p.amount \in Nat
      BY <1>0, <2>1, <3>1 DEF ByCharge, Current, PayTyped, Pays, Entries
    <3>3. Repeatable(p)
      BY <1>0, <3>1, <3>2 DEF ByCharge
    <3>4. RefundedFor(c) + p.amount <= RefundedAt(c) /\ Piece(c, amount) <= p.amount
      BY <2>1, <3>1, <3>2, <3>3 DEF Repeatable
    <3> QED
      BY <2>1, <2>2, <3>2, <3>4
  <2>4. CASE ~Known(q)
    <3>1. q \in pay'.refunds /\ q \notin pay.refunds
      BY <1>3, <2>1, <2>4 DEF Known
    <3>2. At(c) \cup {q} \in SUBSET AtNext(c) /\ q \in Entries \ At(c)
      BY <1>6, <2>1, <3>1
    <3>3. At(c) \in SUBSET Entries /\ IsFiniteSet(At(c)) /\ AtNext(c) \in SUBSET pay'.refunds
      <4>1. At(c) \in SUBSET pay'.refunds /\ AtNext(c) \in SUBSET pay'.refunds
        BY <1>6
      <4> HIDE DEF At, AtNext
      <4> QED
        BY <1>4, <4>1, FS_Subset
    <3> HIDE DEF At, AtNext
    <3>4. Sum(At(c) \cup {q}) = Sum(At(c)) + q.amount
      BY <3>2, <3>3, SumAdd
    <3>5. Sum(At(c) \cup {q}) <= Sum(AtNext(c))
      BY <1>4, <3>2, <3>3, LedgerSums
    <3> QED
      BY <1>5, <2>1, <2>2, <3>4, <3>5
  <2> QED
    BY <2>3, <2>4
<1> QED
  BY <1>3, <1>7, <1>8

LEMMA MaxZero == \A x \in Int : Max({0, x}) \in {0, x}
<1> SUFFICES ASSUME NEW x \in Int PROVE Max({0, x}) \in {0, x}
  OBVIOUS
<1> QED
  BY MaxIs

\* A refund asked for with a record that nothing was refunded of yet.
LEMMA NewSettles ==
    ASSUME RecordTyped, Fresh, NEW a \in Nat, a \in {1, Remaining},
           NEW c \in ReachedBy(a), NEW p \in Entries,
           p.charge = c, p.amount = Piece(c, a), p.id[2] = a
    PROVE  Settles(p)
<1>1. /\ c \in OpenCharges /\ c \in Charges /\ LeftOf(c) > 0
      /\ c # HoldCharge => c \in TopUps /\ record.tops[c] > 0
  BY DEF ReachedBy, OpenCharges, Charges
<1>2. CASE a = 1
  BY <1>2 DEF Settles
<1>3. CASE a # 1
  <2>1. a = record.captured
    BY <1>3, FreshFacts DEF FreshIs
  <2>2. CASE LeftOf(c) <= p.amount
    BY <1>1, <2>1, <2>2 DEF Settles
  <2>3. CASE ~(LeftOf(c) <= p.amount)
    <3>1. /\ Piece(c, a) = Min({LeftOf(c), a - Before(c)}) /\ LeftOf(c) \in Int /\ Before(c) \in Nat
          /\ IsFiniteSet(Ahead(c)) /\ Ahead(c) \subseteq Charges
      BY <1>1, PieceFacts, LeftTyped DEF PieceIs
    <3>2. Min({LeftOf(c), a - Before(c)}) \in {LeftOf(c), a - Before(c)}
      <4>1. a - Before(c) \in Int
        BY <3>1
      <4> QED
        BY <3>1, <4>1, MaxIs
    <3>3. p.amount = a - Before(c) /\ a - Before(c) < LeftOf(c)
      BY <2>3, <3>1, <3>2
    <3>4. CASE LeftOf(HoldCharge) <= 0
      <4>1. c # HoldCharge
        BY <1>1, <3>1, <3>4
      <4>2. a - Before(c) <= p.amount
        BY <3>1, <3>3
      <4> QED
        BY <1>1, <2>1, <3>4, <4>1, <4>2 DEF Settles
    <3>5. CASE ~(LeftOf(HoldCharge) <= 0)
      <4> DEFINE L == [d \in Charges |-> LeftOf(d)]
                 A == Ahead(c)
                 w == [d \in A |-> LeftOf(d)]
                 tops == record.tops
      <4>1. /\ record.captured \in Nat /\ tops \in [TopUps -> Nat] /\ Total(tops, TopUps) \in Nat
            /\ HoldCharge \in Charges /\ TopUps \subseteq Charges /\ Charges \ {HoldCharge} = TopUps
            /\ IsFiniteSet(Charges) /\ IsFiniteSet(TopUps)
        <5>1. record.captured \in Nat /\ tops \in [TopUps -> Nat]
          BY Amounts DEF RecordTyped, Records
        <5>2. Total(tops, TopUps) \in Nat
          <6> HIDE DEF tops
          <6> QED
            BY <5>1, TotalOfTops
        <5> QED
          BY <5>1, <5>2, Amounts DEF HoldCharge
      <4>2. LeftOf(HoldCharge) = record.captured - Total(tops, TopUps) /\ LeftOf(HoldCharge) \in Nat
        <5>1. LeftOf(HoldCharge) = Max({0, record.captured - Total(tops, TopUps)})
          BY FreshFacts DEF FreshIs
        <5>2. record.captured - Total(tops, TopUps) \in Int
          BY <4>1
        <5>3. \A x \in Int : Max({0, x}) \in {0, x}
          BY MaxZero
        <5> QED
          BY <3>5, <5>1, <5>2, <5>3
      <4>3. \A d \in TopUps : LeftOf(d) = tops[d] /\ LeftOf(d) \in Nat
        BY <4>1, FreshFacts DEF FreshIs
      <4>4. /\ \A d \in Charges : L[d] \in Nat /\ L[d] = LeftOf(d)
            /\ \A d \in TopUps : L[d] \in Int /\ tops[d] \in Int /\ L[d] = tops[d]
            /\ \A d \in A : w[d] \in Int /\ L[d] \in Int /\ w[d] = L[d]
        BY <3>1, <4>1, <4>2, <4>3 DEF Charges
      <4>5. Before(c) = Total(w, A) /\ c \notin A /\ IsFiniteSet(A) /\ A \subseteq Charges
        BY <1>1, <3>1, Amounts DEF Before, Ahead
      <4> HIDE DEF L, A, w, tops
      <4>6. Total(L, Charges) = L[HoldCharge] + Total(L, TopUps)
        <5>1. \A d \in Charges : L[d] \in Int
          BY <4>4
        <5>2. Total(L, Charges) = L[HoldCharge] + Total(L, Charges \ {HoldCharge})
          BY <4>1, <5>1, TotalRemove
        <5> QED
          BY <4>1, <5>2
      <4>7. Total(L, TopUps) = Total(tops, TopUps)
        BY <4>1, <4>4, TotalSame
      <4>8. Total(L, Charges) = record.captured
        BY <4>1, <4>2, <4>4, <4>6, <4>7
      <4> DEFINE U == A \cup {c}
      <4>9. IsFiniteSet(U) /\ U \subseteq Charges /\ c \in U /\ U \ {c} = A
        BY <1>1, <4>5, FS_AddElement
      <4> HIDE DEF U
      <4>10. Total(L, U) = L[c] + Total(L, A)
        <5>1. \A d \in U : L[d] \in Int
          BY <4>4, <4>9
        <5>2. Total(L, U) = L[c] + Total(L, U \ {c})
          BY <4>9, <5>1, TotalRemove
        <5> QED
          BY <4>9, <5>2
      <4>11. Total(w, A) = Total(L, A)
        BY <4>4, <4>5, TotalSame
      <4>12. Total(L, U) <= Total(L, Charges)
        BY <4>1, <4>4, <4>9, TotalSubset
      <4>13. LeftOf(c) + Before(c) <= record.captured
        BY <1>1, <4>4, <4>5, <4>8, <4>10, <4>11, <4>12
      <4> QED
        BY <2>1, <3>1, <3>3, <4>1, <4>13
    <3> QED
      BY <3>4, <3>5
  <2> QED
    BY <2>2, <2>3
<1> QED
  BY <1>2, <1>3

LEMMA NewRepeatable ==
    ASSUME RecordTyped, RecordTyped', AmountsKept, cost' = cost,
           record'.status = "captured" => record.status = "captured" /\ Fresh,
           NEW a \in Nat, a \in {1, Remaining}, NEW c \in ReachedBy(a), c \in Charges,
           NEW p \in Entries, p.charge = c, p.amount = Piece(c, a), p.id[2] = a,
           RefundedFor(c) + Piece(c, a) <= RefundedAt(c)'
    PROVE  Repeatable(p)'
<1>1. /\ RefundedFor(c)' = RefundedFor(c) /\ Piece(c, a)' = Piece(c, a) /\ Remaining' = Remaining
  BY SameAmounts
<1>2. p.amount \in Nat
  BY DEF Entries
<1>3. HoldCharge \in Charges
  BY DEF Charges
<1>4. ASSUME record'.status = "captured"
      PROVE  Settles(p)'
  <2>1. Settles(p)
    BY <1>4, NewSettles
  <2> QED
    BY <1>3, <2>1, SameAmounts DEF Settles, AmountsKept
<1>5. p.id[2] \in {1, Remaining'} => Piece(p.charge, p.id[2])' <= p.amount
  BY <1>1, <1>2
<1> QED
  BY <1>1, <1>4, <1>5 DEF Repeatable

\* A synchronous refund, of which the charges in E are written.
LEMMA RefundCase ==
    ASSUME MoneyInv, mode # "async", Typed', Refundable, UNCHANGED <<mode, cost>>,
           NEW amount \in Nat, amount \in {1, Remaining},
           NEW D \in SUBSET ReachedBy(amount), NEW E \in SUBSET D,
           RefundAsked({RefundOf(c, amount) : c \in D}),
           record' = record \/ record' = RefundWritten({RefundOf(c, amount) : c \in E}),
           events' = events \cup RefundReports({RefundOf(c, amount) : c \in D})
    PROVE  MoneyInv'
<1> DEFINE made == {RefundOf(c, amount) : c \in D}
           W == {RefundOf(c, amount) : c \in E}
<1>0. /\ Typed /\ RecordTyped /\ RecordTyped' /\ PayTyped /\ PayTyped' /\ ByCharge /\ ~IsHold
      /\ record.refunded \in Nat /\ record.refunds \in SUBSET Entries /\ IsFiniteSet(record.refunds)
  BY DEF MoneyInv, Typed, Refundable, IsHold, RecordTyped, Records
<1>1. /\ D \subseteq Charges /\ made \in SUBSET Entries /\ IsFiniteSet(made)
      /\ \A c \in D : LET q == RefundOf(c, amount)
                      IN  /\ q \in Entries /\ q.charge = c /\ q.state = "done"
                          /\ q.amount = Piece(c, amount)
                          /\ q.id[1] = record.refunded /\ q.id[2] = amount
                          /\ q.id[3] = Cardinality(record.refunds) /\ q.id[4] = c
  BY MadeEntries
<1>2. /\ pay'.refunds = pay.refunds \cup {r \in made : ~Known(r)}
      /\ \A c \in Charges : /\ RefundedAt(c) \in Nat /\ RefundedAt(c)' \in Nat
                            /\ RefundedAt(c) <= RefundedAt(c)'
      /\ \A c \in D : RefundedFor(c) + Piece(c, amount) <= RefundedAt(c)'
  BY AskedRoom
<1>3. W \in SUBSET made /\ W \in SUBSET Entries /\ IsFiniteSet(W)
  <2>1. W \in SUBSET made
    OBVIOUS
  <2> HIDE DEF made, W
  <2> QED
    BY <1>1, <2>1, FS_Subset
<1>4. ASSUME NEW c \in Charges
      PROVE  /\ c \in E => Sum(AtCharge(W, c)) = Piece(c, amount)
             /\ c \notin E => Sum(AtCharge(W, c)) = 0
  <2>1. CASE c \in E
    <3> DEFINE q == RefundOf(c, amount)
    <3>1. AtCharge(W, c) = {} \cup {q} /\ q \in Entries \ {} /\ q.amount = Piece(c, amount) /\ q.amount \in Nat
      BY <1>1, <2>1 DEF AtCharge, Entries
    <3> HIDE DEF q, W
    <3>2. Sum({} \cup {q}) = Sum({}) + q.amount
      BY <3>1, SumAdd, FS_EmptySet
    <3> QED
      BY <2>1, <3>1, <3>2, SumNone
  <2>2. CASE c \notin E
    <3>1. AtCharge(W, c) = {}
      BY <1>1, <2>2 DEF AtCharge
    <3> QED
      BY <2>2, <3>1, SumNone
  <2> QED
    BY <2>1, <2>2
<1>5. \A p \in pay'.refunds : p \in pay.refunds \/ \E c \in D : p = RefundOf(c, amount)
  BY <1>2
<1> HIDE DEF W
<1>6. /\ record'.refunded \in Nat /\ record'.refunded >= record.refunded
      /\ record.refunds \subseteq record'.refunds /\ record'.refunds \subseteq record.refunds \cup W
      /\ Total(record'.topRefunded, TopUps) <= record'.refunded
      /\ \A c \in Charges : RefundedFor(c)' <= RefundedAt(c)'
      /\ record'.status \in {"captured", "pre_authorized"} => record' = record
      /\ AmountsKept \/ record'.refunded > record.refunded
  <2>1. CASE record' = record
    <3>1. \A c : RefundedFor(c)' = RefundedFor(c)
      BY <2>1 DEF RefundedFor
    <3>2. \A c \in Charges : RefundedFor(c) \in Nat
      BY <1>0, LeftTyped
    <3>3. \A c \in Charges : RefundedFor(c)' <= RefundedAt(c)'
      BY <1>0, <1>2, <3>1, <3>2 DEF ByCharge
    <3> QED
      BY <1>0, <2>1, <3>3 DEF ByCharge, AmountsKept
  <2>2. CASE record' = RefundWritten(W)
    <3>1. /\ record'.refunded = record.refunded + Sum(W) /\ Sum(W) \in Nat
          /\ record'.refunds = record.refunds \cup W
          /\ record'.captured = record.captured /\ record'.tops = record.tops
          /\ record'.status \in {"refunded", "partially_refunded"}
          /\ Total(record'.topRefunded, TopUps) <= record'.refunded
          /\ \A c \in Charges : Sum(AtCharge(W, c)) \in Nat
                                /\ RefundedFor(c)' = RefundedFor(c) + Sum(AtCharge(W, c))
          /\ W = {} => record'.topRefunded = record.topRefunded
      BY <1>0, <1>3, <2>2, WrittenCounts DEF ByCharge
    <3>2. \A c \in Charges : RefundedFor(c)' <= RefundedAt(c)'
      <4> SUFFICES ASSUME NEW c \in Charges PROVE RefundedFor(c)' <= RefundedAt(c)'
        OBVIOUS
      <4>1. RefundedFor(c) \in Nat /\ RefundedFor(c) <= RefundedAt(c)
        BY <1>0, LeftTyped DEF ByCharge
      <4>2. CASE c \in E
        BY <1>2, <1>4, <3>1, <4>2
      <4>3. CASE c \notin E
        BY <1>2, <1>4, <3>1, <4>1, <4>3
      <4> QED
        BY <4>2, <4>3
    <3>3. AmountsKept \/ record'.refunded > record.refunded
      <4>1. CASE W = {}
        <5>1. Sum(W) = 0
          BY <4>1, SumNone
        <5> QED
          BY <1>0, <3>1, <4>1, <5>1 DEF AmountsKept
      <4>2. CASE W # {}
        <5>1. PICK x \in W : TRUE
          BY <4>2
        <5>2. x \in Entries \ {} /\ x.amount \in Nat \ {0}
          BY <1>3, <5>1 DEF Entries
        <5>3. Sum({} \cup {x}) = Sum({}) + x.amount
          BY <5>2, SumAdd, FS_EmptySet
        <5>4. {} \cup {x} \in SUBSET W /\ W \in SUBSET W
          BY <5>1
        <5>5. Sum({} \cup {x}) <= Sum(W)
          BY <1>3, <5>4, LedgerSums
        <5> QED
          BY <1>0, <3>1, <5>2, <5>3, <5>5, SumNone
      <4> QED
        BY <4>1, <4>2
    <3> QED
      BY <1>0, <3>1, <3>2, <3>3
  <2> QED
    BY <2>1, <2>2 DEF W
<1>7. Cardinality(record.refunds) <= Cardinality(record'.refunds)
      /\ Cardinality(record.refunds) \in Nat /\ Cardinality(record'.refunds) \in Nat
  BY <1>0, <1>6, FS_Subset, FS_CardinalityType DEF RecordTyped
<1>8. \A r \in record'.refunds \cup pay'.refunds : r.state = "done"
  BY <1>0, <1>1, <1>3, <1>5, <1>6 DEF ByCharge
<1>9. ASSUME NEW p \in pay'.refunds
      PROVE  p.charge = p.id[4] /\ p.id[1] <= record'.refunded /\ p.id[3] <= Cardinality(record'.refunds)
  <2>1. CASE p \in pay.refunds
    <3>1. p.id[1] \in Nat /\ p.id[3] \in Nat
      BY <1>0, <2>1 DEF PayTyped, Pays, Entries, Ids
    <3>2. p.charge = p.id[4] /\ p.id[1] <= record.refunded /\ p.id[3] <= Cardinality(record.refunds)
      BY <1>0, <2>1 DEF ByCharge
    <3> QED
      BY <1>0, <1>6, <1>7, <3>1, <3>2
  <2>2. CASE p \notin pay.refunds
    <3>1. PICK c \in D : p = RefundOf(c, amount)
      BY <1>5, <2>2
    <3> QED
      BY <1>0, <1>1, <1>6, <1>7, <3>1
  <2> QED
    BY <2>1, <2>2
<1>10. ASSUME NEW e \in events'
       PROVE  e.op # "refund" /\ (e.op = "refunded" => e.total <= RefundedAt(e.charge)')
  <2>1. CASE e \in events
    <3>1. e.op # "refund" /\ (e.op = "refunded" => e.total <= RefundedAt(e.charge))
      BY <1>0, <2>1 DEF ByCharge
    <3>2. e.op = "refunded" => e.charge \in Charges /\ e.total \in Nat
      BY <1>0, <2>1 DEF Typed, EventsTyped, Webhooks
    <3> QED
      BY <1>2, <3>1, <3>2
  <2>2. CASE e \notin events
    <3>1. e \in RefundReports(made)
      BY <2>2
    <3> HIDE DEF made
    <3>2. PICK r \in made : e = [op |-> "refunded", charge |-> r.charge, total |-> RefundedAt(r.charge)']
      BY <3>1 DEF RefundReports
    <3>3. r.charge \in Charges
      BY <1>1, <3>2 DEF Entries
    <3>4. RefundedAt(e.charge)' = e.total /\ e.total \in Nat
      BY <1>2, <3>2, <3>3
    <3> QED
      BY <3>2, <3>4
  <2> QED
    BY <2>1, <2>2
<1>11. ASSUME NEW p \in pay'.refunds, Current(p)'
       PROVE  Repeatable(p)'
  <2>1. p.id[1] <= record.refunded /\ p.id[1] \in Nat /\ p \in Entries
    <3>1. p \in Entries /\ p.id[1] \in Nat
      BY <1>0 DEF PayTyped, Pays, Entries, Ids
    <3>2. CASE p \in pay.refunds
      BY <1>0, <3>1, <3>2 DEF ByCharge
    <3>3. CASE p \notin pay.refunds
      BY <1>0, <1>1, <1>5, <3>1, <3>3
    <3> QED
      BY <3>1, <3>2, <3>3
  <2>2. AmountsKept
    BY <1>0, <1>6, <1>11, <2>1 DEF Current
  <2>3. record'.status = "captured" => record.status = "captured" /\ Fresh
    BY <1>0, <1>6 DEF ByCharge, Fresh
  <2>4. CASE p \in pay.refunds
    <3>1. Current(p)
      BY <1>11, <2>2 DEF Current, AmountsKept
    <3>2. Repeatable(p)
      BY <1>0, <2>4, <3>1 DEF ByCharge
    <3>3. p.charge \in Charges
      BY <2>1 DEF Entries
    <3>4. RefundedAt(p.charge) \in Nat /\ RefundedAt(p.charge)' \in Nat
          /\ RefundedAt(p.charge)' >= RefundedAt(p.charge)
      BY <1>2, <3>3
    <3>5. cost' = cost
      OBVIOUS
    <3> QED
      BY <1>0, <2>1, <2>2, <2>3, <3>2, <3>4, <3>5, SameRepeatable
  <2>5. CASE p \notin pay.refunds
    <3>1. PICK c \in D : p = RefundOf(c, amount)
      BY <1>5, <2>5
    <3>2. /\ c \in Charges /\ c \in ReachedBy(amount)
          /\ p.charge = c /\ p.amount = Piece(c, amount) /\ p.id[2] = amount
          /\ RefundedFor(c) + Piece(c, amount) <= RefundedAt(c)'
      BY <1>1, <1>2, <3>1
    <3>3. cost' = cost
      OBVIOUS
    <3> QED
      BY <1>0, <2>1, <2>2, <2>3, <3>2, <3>3, NewRepeatable
  <2> QED
    BY <2>4, <2>5
<1>12. record'.status \in {"pre_authorized", "captured"} =>
          /\ record'.refunded = 0 /\ record'.refunds = {}
          /\ \A c \in TopUps : record'.topRefunded[c] = 0
  BY <1>0, <1>6 DEF ByCharge
<1>13. ByCharge'
  BY <1>6, <1>8, <1>9, <1>10, <1>11, <1>12 DEF ByCharge
<1>14. ~IsHold'
  BY <1>0, <1>6 DEF IsHold
<1> QED
  BY <1>13, <1>14 DEF MoneyInv

LEMMA RefundMoney ==
    ASSUME MoneyInv, mode # "async", Typed', Refund
    PROVE  MoneyInv'
<1>1. PICK amount \in {1, Remaining} \cap 1..Remaining : \E last \in ReachedBy(amount) :
        /\ RefundAsked(MadeOf(amount, last))
        /\ \/ record' = RefundWritten(MadeOf(amount, last))
           \/ record' = RefundWritten({r \in MadeOf(amount, last) : r.charge < last})
           \/ record' = record
        /\ events' = events \cup RefundReports(MadeOf(amount, last))
  BY RefundMakes
<1>2. PICK last \in ReachedBy(amount) :
        /\ RefundAsked(MadeOf(amount, last))
        /\ \/ record' = RefundWritten(MadeOf(amount, last))
           \/ record' = RefundWritten({r \in MadeOf(amount, last) : r.charge < last})
           \/ record' = record
        /\ events' = events \cup RefundReports(MadeOf(amount, last))
  BY <1>1
<1> DEFINE D == {d \in ReachedBy(amount) : d <= last}
           E == {d \in D : d < last}
<1>3. /\ Refundable /\ UNCHANGED <<mode, cost>>
      /\ amount \in Nat /\ amount \in {1, Remaining}
  <2>1. Refundable /\ UNCHANGED <<mode, cost>>
    BY DEF Refund, CanBeRefunded
  <2> QED
    BY <2>1
<1>4. D \in SUBSET ReachedBy(amount) /\ E \in SUBSET D /\ D \in SUBSET D
  OBVIOUS
<1>5. MadeOf(amount, last) = {RefundOf(c, amount) : c \in D}
  BY DEF MadeOf
<1>6. {r \in MadeOf(amount, last) : r.charge < last} = {RefundOf(c, amount) : c \in E}
  <2>1. \A c : RefundOf(c, amount).charge = c
    BY DEF RefundOf
  <2> QED
    BY <1>5, <2>1
<1> HIDE DEF D, E
<1>7. \/ record' = record
      \/ record' = RefundWritten({RefundOf(c, amount) : c \in D})
      \/ record' = RefundWritten({RefundOf(c, amount) : c \in E})
  BY <1>2, <1>5, <1>6
<1>8. /\ RefundAsked({RefundOf(c, amount) : c \in D})
      /\ events' = events \cup RefundReports({RefundOf(c, amount) : c \in D})
  BY <1>2, <1>5
<1> QED
  BY <1>3, <1>4, <1>7, <1>8, RefundCase

\* The total a webhook names is what the provider has given back by then.
LEMMA TotalMoney ==
    ASSUME MoneyInv, Typed', NEW e \in events, SettleRefundedTotal(e)
    PROVE  MoneyInv'
<1> DEFINE before == RefundedFor(e.charge)
           now == IF Total(record.tops, TopUps) = 0 THEN e.total
                  ELSE Min({TakenFor(e.charge), Max({before, e.total})})
           f == [c \in TopUps |-> IF c = e.charge THEN now ELSE record.topRefunded[c]]
<1>0. /\ Typed /\ RecordTyped /\ RecordTyped' /\ PayTyped /\ UNCHANGED <<mode, cost, pay>>
      /\ e.op = "refunded" /\ events' \subseteq events
  BY DEF MoneyInv, Typed, SettleRefundedTotal, EventLeaves
<1>1. mode # "async" /\ ByCharge
  BY <1>0 DEF MoneyInv, Ledgered
<1>2. e.charge \in Charges /\ e.total \in Nat /\ e.total <= RefundedAt(e.charge)
  BY <1>0, <1>1 DEF Typed, EventsTyped, Webhooks, ByCharge
<1>3. CASE record' = record
  <2>1. MoneyKept
    <3>1. pay'.refunds = pay.refunds /\ \A x \in events' \ events : x.op \notin {"refund", "refunded"}
      BY <1>0
    <3> QED
      BY <1>0, <1>3, <3>1, RecordMoney
  <2> QED
    BY <2>1, KeptMoney
<1>4. CASE record' # record
  <2>1. /\ now > before
        /\ record' = [record EXCEPT !.refunded = record.refunded + now - before,
                                    !.status = AfterRefund(record.refunded + now - before),
                                    !.topRefunded = f]
        /\ Refundable
    BY <1>0, <1>4 DEF SettleRefundedTotal, RecordTyped, Records
  <2>2. before \in Nat /\ before <= RefundedAt(e.charge) /\ RefundedAt(e.charge) \in Nat
    BY <1>0, <1>1, <1>2, LeftTyped, RefundedAtNat DEF ByCharge
  <2>3. now \in Nat /\ now <= RefundedAt(e.charge)
    <3>1. TakenFor(e.charge) \in Nat
      BY <1>0, <1>2, LeftTyped
    <3> HIDE DEF before
    <3>2. Max({before, e.total}) \in {before, e.total}
      <4>1. before \in Int /\ e.total \in Int
        BY <1>2, <2>2
      <4> QED
        BY <4>1, MaxIs
    <3>3. Max({before, e.total}) \in Nat /\ Max({before, e.total}) <= RefundedAt(e.charge)
      BY <1>2, <2>2, <3>2
    <3> DEFINE m == Max({before, e.total})
    <3>4. m \in Nat /\ m <= RefundedAt(e.charge)
      BY <3>3
    <3> HIDE DEF m
    <3>5. Min({TakenFor(e.charge), m}) \in {TakenFor(e.charge), m} /\ Min({TakenFor(e.charge), m}) <= m
      BY <3>1, <3>4, MaxIs
    <3>6. Min({TakenFor(e.charge), m}) \in Nat /\ Min({TakenFor(e.charge), m}) <= RefundedAt(e.charge)
      BY <2>2, <3>1, <3>4, <3>5
    <3>7. now = IF Total(record.tops, TopUps) = 0 THEN e.total ELSE Min({TakenFor(e.charge), m})
      BY DEF m
    <3> QED
      BY <1>2, <3>6, <3>7
  <2> HIDE DEF before, now, f
  <2>4. /\ record'.refunded = record.refunded + now - before
        /\ record'.topRefunded = f /\ record'.refunds = record.refunds
        /\ record'.status \in {"refunded", "partially_refunded"}
        /\ record.refunded \in Nat /\ record.topRefunded \in [TopUps -> Nat]
    BY <1>0, <2>1 DEF AfterRefund, RecordTyped, Records
  <2>5. \A c \in TopUps : f[c] = IF c = e.charge THEN now ELSE record.topRefunded[c]
    BY DEF f
  <2>6. Total(record.topRefunded, TopUps) \in Nat /\ Total(record.topRefunded, TopUps) <= record.refunded
    BY <1>1, <2>4, TotalOfTops DEF ByCharge
  <2>7. CountsIs /\ CountsIs'
    BY CountsFacts, PTL
  <2>8. /\ RefundedFor(HoldCharge) = record.refunded - Total(record.topRefunded, TopUps)
        /\ \A c \in TopUps : c # HoldCharge /\ RefundedFor(c) = record.topRefunded[c]
    BY <1>0, <2>6, <2>7 DEF CountsIs
  <2>9. Total(f, TopUps) = IF e.charge = HoldCharge THEN Total(record.topRefunded, TopUps)
                           ELSE Total(record.topRefunded, TopUps) + now - before
    <3>1. \A c \in TopUps : f[c] \in Int /\ record.topRefunded[c] \in Int
      BY <2>3, <2>4, <2>5
    <3>2. CASE e.charge = HoldCharge
      <4>1. \A c \in TopUps : f[c] \in Int /\ f[c] = record.topRefunded[c]
        BY <2>5, <2>8, <3>1, <3>2
      <4>2. Total(f, TopUps) = Total(record.topRefunded, TopUps)
        BY <4>1, Amounts, TotalSame
      <4> QED
        BY <3>2, <4>2
    <3>3. CASE e.charge # HoldCharge
      <4>1. e.charge \in TopUps
        BY <1>2, <3>3 DEF Charges
      <4>2. \A c \in TopUps \ {e.charge} : f[c] = record.topRefunded[c]
        BY <2>5
      <4>3. f[e.charge] = now /\ record.topRefunded[e.charge] = before
        BY <2>5, <2>8, <4>1 DEF before
      <4>4. ASSUME NEW j \in TopUps, \A c \in TopUps \ {j} : f[c] = record.topRefunded[c]
            PROVE  Total(f, TopUps) = Total(record.topRefunded, TopUps) + f[j] - record.topRefunded[j]
        <5> DEFINE g == record.topRefunded
        <5>1. IsFiniteSet(TopUps) /\ (\A c \in TopUps : g[c] \in Int /\ f[c] \in Int)
              /\ \A c \in TopUps \ {j} : f[c] = g[c]
          BY <3>1, <4>4, Amounts
        <5> HIDE DEF g
        <5>2. Total(f, TopUps) = Total(g, TopUps) + f[j] - g[j]
          BY <5>1, TotalChange
        <5> QED
          BY <5>2 DEF g
      <4>5. Total(f, TopUps) = Total(record.topRefunded, TopUps) + f[e.charge] - record.topRefunded[e.charge]
        BY <4>1, <4>2, <4>4
      <4> QED
        BY <3>3, <4>3, <4>5
    <3> QED
      BY <3>2, <3>3
  <2>10. Total(record'.topRefunded, TopUps) <= record'.refunded
    BY <2>1, <2>2, <2>3, <2>4, <2>6, <2>9
  <2>11. /\ RefundedFor(HoldCharge)' = record'.refunded - Total(f, TopUps)
         /\ \A c \in TopUps : RefundedFor(c)' = f[c]
    BY <1>0, <2>4, <2>7, <2>10 DEF CountsIs
  <2>12. \A c : RefundedAt(c)' = RefundedAt(c)
    BY <1>0 DEF RefundedAt
  <2>13. ASSUME NEW c \in Charges
         PROVE  RefundedFor(c)' <= RefundedAt(c)'
    <3>0. RefundedFor(c) <= RefundedAt(c)
      BY <1>1 DEF ByCharge
    <3>1. CASE c = e.charge /\ c = HoldCharge
      <4>1. before = record.refunded - Total(record.topRefunded, TopUps)
        BY <2>8, <3>1 DEF before
      <4>2. RefundedFor(HoldCharge)' = now
        BY <2>2, <2>3, <2>4, <2>6, <2>9, <2>11, <3>1, <4>1
      <4> QED
        BY <2>3, <2>12, <3>1, <4>2
    <3>2. CASE c = e.charge /\ c \in TopUps
      BY <2>3, <2>5, <2>11, <2>12, <3>2
    <3>3. CASE c # e.charge /\ c = HoldCharge
      <4>1. RefundedFor(HoldCharge)' = RefundedFor(HoldCharge)
        BY <2>2, <2>3, <2>4, <2>6, <2>8, <2>9, <2>11, <3>3
      <4> QED
        BY <2>12, <3>0, <3>3, <4>1
    <3>4. CASE c # e.charge /\ c \in TopUps
      BY <2>5, <2>8, <2>11, <2>12, <3>0, <3>4
    <3> QED
      BY <3>1, <3>2, <3>3, <3>4 DEF Charges
  <2>14. record'.refunded > record.refunded /\ record'.refunded \in Nat
    BY <2>1, <2>2, <2>3, <2>4
  <2>15. ASSUME NEW p \in pay'.refunds
         PROVE  /\ p.charge = p.id[4] /\ p.id[1] <= record'.refunded
                /\ p.id[3] <= Cardinality(record'.refunds) /\ ~Current(p)'
    <3>1. p \in pay.refunds /\ p.id[1] \in Nat
      BY <1>0 DEF PayTyped, Pays, Entries, Ids
    <3>2. p.charge = p.id[4] /\ p.id[1] <= record.refunded /\ p.id[3] <= Cardinality(record.refunds)
      BY <1>1, <3>1 DEF ByCharge
    <3> QED
      BY <2>4, <2>14, <3>1, <3>2 DEF Current
  <2>16. ByCharge'
    BY <1>0, <1>1, <2>4, <2>10, <2>12, <2>13, <2>15 DEF ByCharge
  <2> QED
    BY <1>0, <1>1, <2>4, <2>16 DEF MoneyInv, IsHold
<1> QED
  BY <1>3, <1>4

LEMMA MoneyStep == MoneyInv /\ [Next]_vars => MoneyInv'
<1> SUFFICES ASSUME MoneyInv, [Next]_vars PROVE MoneyInv'
  OBVIOUS
<1>1. Typed' /\ Typed
  BY TypedStep DEF MoneyInv
<1>2. CASE MoneyKept
  BY <1>1, <1>2, KeptMoney
<1>3. CASE UNCHANGED vars
  <2>1. MoneyKept
    BY <1>1, <1>3, RecordMoney DEF vars
  <2> QED
    BY <1>2, <2>1
<1>4. CASE Refund
  <2>1. CASE mode = "async"
    BY <1>1, <1>4, <2>1, RefundLedgered
  <2>2. CASE mode # "async"
    BY <1>1, <1>4, <2>2, RefundMoney
  <2> QED
    BY <2>1, <2>2
<1>5. ASSUME NEW r \in Retries, RetryRecords(r), record.status = "captured"
      PROVE  MoneyInv'
  <2>1. CASE mode # "async"
    BY <1>1, <1>5, <2>1, RetryMoney
  <2>2. CASE mode = "async"
    <3>1. /\ record'.refunded = record.refunded /\ record'.refunds = record.refunds
          /\ record'.status = "captured" /\ UNCHANGED <<mode, pay, events>>
      BY <1>1, <1>5 DEF RetryRecords, Typed, RecordTyped, Records
    <3>2. Ledgered'
      BY <2>2, <3>1 DEF MoneyInv, Ledgered, DoneAt, EntryOf
    <3> QED
      BY <1>1, <2>2, <3>1, <3>2 DEF MoneyInv, IsHold
  <2> QED
    BY <2>1, <2>2
<1> QED
  BY <1>1, <1>2, <1>3, <1>4, <1>5, TasksKeepMoney, RetriesKeepMoney, HoldKeepsMoney, WebhooksKeepMoney,
     ResolveLedgered, SettleLedgered, TotalMoney DEF Next

\* What each charge counts adds up to the record's total.
LEMMA MoneyIsReal == MoneyInv => RefundedIsReal
<1> SUFFICES ASSUME MoneyInv PROVE RefundedIsReal
  OBVIOUS
<1>0. Typed /\ RecordTyped /\ PayTyped /\ pay.refunds \in SUBSET Entries /\ IsFiniteSet(pay.refunds)
      /\ record.refunded \in Nat
  BY DEF MoneyInv, Typed, PayTyped, Pays, RecordTyped, Records
<1>1. CASE mode = "async"
  <2>1. /\ DoneAt(record.refunds) \in SUBSET DoneAt(pay.refunds)
        /\ record.refunded <= Sum(DoneAt(record.refunds))
    BY <1>1 DEF MoneyInv, Ledgered
  <2>2. DoneAt(pay.refunds) \in SUBSET pay.refunds /\ DoneAt(record.refunds) \in SUBSET pay.refunds
    BY <2>1 DEF DoneAt
  <2>3. Sum(DoneAt(record.refunds)) <= Sum(DoneAt(pay.refunds))
        /\ Sum(DoneAt(record.refunds)) \in Nat /\ Sum(DoneAt(pay.refunds)) \in Nat
    BY <1>0, <2>1, <2>2, LedgerSums
  <2>4. record.refunded <= Sum(DoneAt(pay.refunds))
    BY <1>0, <2>1, <2>3
  <2> QED
    BY <2>4 DEF RefundedIsReal, DoneAt
<1>2. CASE mode # "async"
  <2> DEFINE w == [c \in Charges |-> Sum(AtCharge(pay.refunds, c))]
             v == [c \in Charges |-> RefundedFor(c)]
  <2>1. ByCharge
    BY <1>2 DEF MoneyInv
  <2>2. {r \in pay.refunds : r.state = "done"} = pay.refunds
        /\ \A c : RefundedAt(c) = Sum(AtCharge(pay.refunds, c))
    <3>1. \A c : {r \in pay.refunds : r.charge = c /\ r.state = "done"} = AtCharge(pay.refunds, c)
      BY <2>1 DEF ByCharge, AtCharge
    <3> QED
      BY <2>1, <3>1 DEF ByCharge, RefundedAt
  <2>3. \A c \in Charges : v[c] \in Nat /\ w[c] \in Nat /\ v[c] <= w[c] /\ v[c] = RefundedFor(c)
    BY <1>0, <2>1, <2>2, LeftTyped, RefundedAtNat DEF ByCharge
  <2>4. Sum(pay.refunds) = Total(w, Charges)
    BY <1>0, SumByCharge
  <2> HIDE DEF w, v
  <2>5. /\ HoldCharge \in Charges /\ TopUps \subseteq Charges /\ Charges \ {HoldCharge} = TopUps
        /\ IsFiniteSet(TopUps) /\ IsFiniteSet(Charges)
    BY Amounts DEF HoldCharge
  <2>6. Total(v, Charges) <= Total(w, Charges)
    <3>1. \A c \in Charges : v[c] \in Int /\ w[c] \in Int /\ v[c] <= w[c]
      BY <2>3
    <3> QED
      BY <2>5, <3>1, TotalMono
  <2>7. Total(v, Charges) = v[HoldCharge] + Total(v, TopUps)
    <3>1. \A c \in Charges : v[c] \in Int
      BY <2>3
    <3>2. Total(v, Charges) = v[HoldCharge] + Total(v, Charges \ {HoldCharge})
      BY <2>5, <3>1, TotalRemove
    <3> QED
      BY <2>5, <3>2
  <2>8. /\ RefundedFor(HoldCharge) = record.refunded - Total(record.topRefunded, TopUps)
        /\ \A c \in TopUps : c # HoldCharge /\ RefundedFor(c) = record.topRefunded[c]
    BY <1>0, <2>1, CountsFacts DEF CountsIs, ByCharge
  <2>9. Total(v, TopUps) = Total(record.topRefunded, TopUps)
    <3>1. \A c \in TopUps : v[c] \in Int /\ v[c] = record.topRefunded[c]
      BY <2>3, <2>5, <2>8
    <3> QED
      BY <2>5, <3>1, TotalSame
  <2>10. Total(record.topRefunded, TopUps) \in Nat
    BY <1>0, TotalOfTops DEF RecordTyped, Records
  <2>11. Total(v, Charges) = record.refunded
    BY <1>0, <2>3, <2>5, <2>7, <2>8, <2>9, <2>10
  <2> QED
    BY <2>2, <2>4, <2>6, <2>11 DEF RefundedIsReal
<1> QED
  BY <1>1, <1>2

\* The refunded total of the record is money the provider has given back,
\* whatever was asked for twice, written half, settled late or reported in
\* another order.
THEOREM RefundsAreReal == Spec => []RefundedIsReal
<1>1. Spec => []MoneyInv
  BY MoneyInit, MoneyStep, PTL DEF Spec
<1> QED
  BY <1>1, MoneyIsReal, PTL
=============================================================================
