---------------------------- MODULE RecordsProofs ---------------------------
(***************************************************************************)
(* Proofs about CaseRecords, PayPage, Pricing, RequiredFields and          *)
(* Reporting, for any fields, values, flows, numbers of requests, prices,  *)
(* rates, claims, price lists, changes of mind and tickets.                *)
(*                                                                         *)
(* What a case shows is a fold over its log, or over the rules its tickets *)
(* call for.  The fold is a recursive function that takes the indices from *)
(* the last one down, so first it is shown that there is such a function   *)
(* and that it can be followed index by index.                             *)
(***************************************************************************)
EXTENDS CaseRecords, PayPage, Pricing, RequiredFields, Reporting, SequenceTheorems,
        SumTheorems

-----------------------------------------------------------------------------
\* Folds over sequences.

LEMMA MaxOfPrefix ==
    ASSUME NEW n \in Nat \ {0}
    PROVE  Max(1..n) = n /\ (1..n) \ {n} = 1..(n - 1)
  <1>1. n \in 1..n /\ \A y \in 1..n : n >= y
    OBVIOUS
  <1>2. \A x \in 1..n : (\A y \in 1..n : x >= y) => x = n
    OBVIOUS
  <1>3. Max(1..n) = n
    BY <1>1, <1>2 DEF Max
  <1> QED BY <1>3

LEMMA PrefixIsIn ==
    ASSUME NEW n \in Nat, NEW k \in 1..n
    PROVE  1..k \in SUBSET (1..n) /\ 1..k # {}
  OBVIOUS

LEMMA MaxIsIn ==
    ASSUME NEW n \in Nat, NEW T \in SUBSET (1..n), T # {}
    PROVE  Max(T) \in T /\ \A y \in T : Max(T) >= y
  <1> DEFINE G == {k \in Nat : k > n \/ \A R \in SUBSET (1..k) : R # {} =>
                                  \E x \in R : \A y \in R : x >= y}
  <1>1. 0 \in G
    <2>1. \A R \in SUBSET (1..0) : R = {}
      OBVIOUS
    <2> QED BY <2>1
  <1>2. ASSUME NEW k \in Nat, k \in G PROVE k + 1 \in G
    <2> SUFFICES ASSUME k + 1 <= n, NEW R \in SUBSET (1..(k + 1)), R # {}
                 PROVE  \E x \in R : \A y \in R : x >= y
      OBVIOUS
    <2>1. CASE k + 1 \in R
      BY <2>1
    <2>2. CASE k + 1 \notin R
      <3>1. R \in SUBSET (1..k)
        BY <2>2
      <3> QED BY <1>2, <3>1
    <2> QED BY <2>1, <2>2
  <1>3. n \in G
    <2> HIDE DEF G
    <2> QED BY <1>1, <1>2, NatSetInduction
  <1>4. \E x \in T : \A y \in T : x >= y
    BY <1>3
  <1> QED BY <1>4, Zenon DEF Max

\* The recursive function behind a fold over the indices 1..n, with the steps as functions.
FoldStep(g, base, step, T) ==
    IF T = {} THEN base ELSE step[Max(T)][g[T \ {Max(T)}]]

IsFold(g, n, V, base, step) ==
    /\ g \in [SUBSET (1..n) -> V]
    /\ \A T \in SUBSET (1..n) : g[T] = FoldStep(g, base, step, T)

LEMMA FoldExists ==
    ASSUME NEW n \in Nat, NEW V, NEW base \in V, NEW step \in [1..n -> [V -> V]]
    PROVE  \E g : IsFold(g, n, V, base, step)
  <1> DEFINE D == SUBSET (1..n)
             Upto(g, m) == \A T \in D : Cardinality(T) <= m => g[T] = FoldStep(g, base, step, T)
             G == {m \in Nat : \E g \in [D -> V] : Upto(g, m)}
  <1>0. \A T \in D : /\ IsFiniteSet(T) /\ Cardinality(T) \in Nat
                     /\ Cardinality(T) <= n /\ (Cardinality(T) = 0 => T = {})
    <2>1. IsFiniteSet(1..n) /\ Cardinality(1..n) = n
      BY FS_Interval
    <2>2. \A T \in D : IsFiniteSet(T) /\ Cardinality(T) <= Cardinality(1..n)
      BY <2>1, FS_Subset
    <2>3. \A T \in D : Cardinality(T) \in Nat /\ (Cardinality(T) = 0 => T = {})
      BY <2>2, FS_CardinalityType, FS_EmptySet
    <2> QED BY <2>1, <2>2, <2>3
  <1>a. ASSUME NEW T \in D, T # {}
        PROVE  /\ Max(T) \in 1..n /\ T \ {Max(T)} \in D
               /\ Cardinality(T) # 0 /\ Cardinality(T \ {Max(T)}) = Cardinality(T) - 1
    <2>1. Max(T) \in T
      BY <1>a, MaxIsIn
    <2>2. Cardinality(T \ {Max(T)}) = Cardinality(T) - 1
      BY <1>0, <2>1, FS_RemoveElement
    <2> QED BY <1>0, <1>a, <2>1, <2>2
  <1>b. ASSUME NEW g \in [D -> V], NEW T \in D PROVE FoldStep(g, base, step, T) \in V
    <2>1. CASE T = {}
      BY <2>1 DEF FoldStep
    <2>2. CASE T # {}
      <3>1. g[T \ {Max(T)}] \in V /\ Max(T) \in 1..n
        BY <1>a, <2>2
      <3> QED BY <2>2, <3>1 DEF FoldStep
    <2> QED BY <2>1, <2>2
  <1>1. 0 \in G
    <2> DEFINE g == [T \in D |-> base]
    <2>1. g \in [D -> V]
      OBVIOUS
    <2>2. Upto(g, 0)
      BY <1>0 DEF FoldStep
    <2> QED BY <2>1, <2>2
  <1>2. ASSUME NEW m \in Nat, m \in G PROVE m + 1 \in G
    <2>1. PICK g \in [D -> V] : Upto(g, m)
      BY <1>2
    <2> DEFINE h == [T \in D |-> IF Cardinality(T) = m + 1 THEN FoldStep(g, base, step, T)
                                 ELSE g[T]]
    <2>2. h \in [D -> V]
      BY <1>b
    <2>3. ASSUME NEW T \in D, Cardinality(T) <= m + 1 PROVE h[T] = FoldStep(h, base, step, T)
      <3>1. FoldStep(h, base, step, T) = FoldStep(g, base, step, T)
        <4>1. CASE T = {}
          BY <4>1 DEF FoldStep
        <4>2. CASE T # {}
          <5>1. T \ {Max(T)} \in D /\ Cardinality(T \ {Max(T)}) # m + 1
            BY <1>0, <1>a, <2>3, <4>2
          <5>2. h[T \ {Max(T)}] = g[T \ {Max(T)}]
            BY <5>1
          <5> HIDE DEF h
          <5> QED BY <4>2, <5>2 DEF FoldStep
        <4> QED BY <4>1, <4>2
      <3>2. CASE Cardinality(T) = m + 1
        <4>1. h[T] = FoldStep(g, base, step, T)
          BY <3>2
        <4> QED BY <3>1, <4>1
      <3>3. CASE Cardinality(T) # m + 1
        <4>1. Cardinality(T) <= m
          BY <1>0, <2>3, <3>3
        <4>2. h[T] = g[T]
          BY <3>3
        <4>3. g[T] = FoldStep(g, base, step, T)
          BY <2>1, <4>1
        <4> QED BY <3>1, <4>2, <4>3
      <3> QED BY <3>2, <3>3
    <2> HIDE DEF h
    <2>4. Upto(h, m + 1)
      BY <2>3
    <2>5. m + 1 \in Nat
      OBVIOUS
    <2> HIDE DEF Upto
    <2> QED BY <2>2, <2>4, <2>5
  <1>3. n \in G
    <2> HIDE DEF G
    <2> QED BY <1>1, <1>2, NatSetInduction
  <1>4. PICK g \in [D -> V] : Upto(g, n)
    BY <1>3
  <1> QED BY <1>0, <1>4 DEF IsFold

-----------------------------------------------------------------------------
\* getUnresolvedDrifts.

\* A drift or a resolution names a field; the other events name none.
GoodEvent(e) ==
    /\ e \in CaseEventRow
    /\ e.field \in CaseField <=> e.type \in {"CONTEXT_DRIFT_DETECTED", "CONTEXT_RESOLVED"}

PendingDrift == [CaseField -> Column \cup {NoField}]

IsDriftFold(g, s) ==
    g = [T \in SUBSET DOMAIN s |->
           IF T = {} THEN NoDrift ELSE driftStep(g[T \ {Max(T)}], s[Max(T)])]

LEMMA DriftStepType ==
    ASSUME NEW p \in PendingDrift, NEW e, GoodEvent(e) PROVE driftStep(p, e) \in PendingDrift
  BY DEF driftStep, PendingDrift, GoodEvent, CaseEventRow

LEMMA DriftFold ==
    ASSUME NEW s \in Seq(CaseEventRow), \A i \in 1..Len(s) : GoodEvent(s[i])
    PROVE  \E g : /\ FoldLeft(driftStep, NoDrift, s) = g[1..Len(s)]
                  /\ g[1..0] = NoDrift
                  /\ \A k \in 1..Len(s) : g[1..k] = driftStep(g[1..(k - 1)], s[k])
  <1> DEFINE n == Len(s)
             step == [k \in 1..n |-> [p \in PendingDrift |-> driftStep(p, s[k])]]
             f == CHOOSE g : IsDriftFold(g, s)
  <1>1. n \in Nat /\ DOMAIN s = 1..n
    OBVIOUS
  <1>2. NoDrift \in PendingDrift
    BY DEF NoDrift, PendingDrift
  <1>3. step \in [1..n -> [PendingDrift -> PendingDrift]]
    BY DriftStepType
  <1>4. \E g : IsDriftFold(g, s)
    <2>1. PICK g : IsFold(g, n, PendingDrift, NoDrift, step)
      <3> HIDE DEF step, n
      <3> QED BY <1>1, <1>2, <1>3, FoldExists
    <2> HIDE DEF step
    <2>2. ASSUME NEW T \in SUBSET (1..n), T # {}
          PROVE  step[Max(T)][g[T \ {Max(T)}]] = driftStep(g[T \ {Max(T)}], s[Max(T)])
      <3>1. Max(T) \in 1..n
        BY <1>1, <2>2, MaxIsIn
      <3>2. g[T \ {Max(T)}] \in PendingDrift
        BY <2>1 DEF IsFold
      <3> QED BY <3>1, <3>2 DEF step
    <2>3. ASSUME NEW T \in SUBSET (1..n)
          PROVE  g[T] = IF T = {} THEN NoDrift ELSE driftStep(g[T \ {Max(T)}], s[Max(T)])
      BY <2>1, <2>2 DEF FoldStep, IsFold
    <2>4. g = [T \in SUBSET (1..n) |-> g[T]]
      BY <2>1 DEF IsFold
    <2> QED BY <1>1, <2>3, <2>4 DEF IsDriftFold
  <1>5. IsDriftFold(f, s)
    BY <1>4, Zenon
  <1>6. FoldLeft(driftStep, NoDrift, s) = f[DOMAIN s]
    BY Zenon DEF FoldLeft, MapThenFoldSet, IsDriftFold
  <1> HIDE DEF f, step
  <1>7. \A T \in SUBSET (1..n) :
          f[T] = IF T = {} THEN NoDrift ELSE driftStep(f[T \ {Max(T)}], s[Max(T)])
    BY <1>1, <1>5 DEF IsDriftFold
  <1>8. f[1..0] = NoDrift
    <2>1. 1..0 = {} /\ {} \in SUBSET (1..n)
      OBVIOUS
    <2> QED BY <1>7, <2>1
  <1>9. ASSUME NEW k \in 1..n PROVE f[1..k] = driftStep(f[1..(k - 1)], s[k])
    <2>1. 1..k \in SUBSET (1..n) /\ 1..k # {}
      OBVIOUS
    <2>2. Max(1..k) = k /\ (1..k) \ {k} = 1..(k - 1)
      BY MaxOfPrefix
    <2> QED BY <1>7, <2>1, <2>2
  <1> QED BY <1>1, <1>6, <1>8, <1>9

\* The latest event of a field, and what it leaves pending.
About(s, f, k) == {i \in 1..k : s[i].field = f}
LatestDrift(s, f, k) ==
    IF About(s, f, k) # {} /\ s[Max(About(s, f, k))].type = "CONTEXT_DRIFT_DETECTED"
      THEN s[Max(About(s, f, k))].ticketValue ELSE NoField

LEMMA DriftsAreLatest ==
    ASSUME NEW s \in Seq(CaseEventRow), \A i \in 1..Len(s) : GoodEvent(s[i]),
           NEW f \in CaseField
    PROVE  FoldLeft(driftStep, NoDrift, s)[f] = LatestDrift(s, f, Len(s))
  <1>1. PICK g : /\ FoldLeft(driftStep, NoDrift, s) = g[1..Len(s)]
                 /\ g[1..0] = NoDrift
                 /\ \A k \in 1..Len(s) : g[1..k] = driftStep(g[1..(k - 1)], s[k])
    BY DriftFold
  <1> DEFINE Good(k) == g[1..k] \in PendingDrift /\ g[1..k][f] = LatestDrift(s, f, k)
             G == {k \in Nat : k <= Len(s) => Good(k)}
  <1>2. Len(s) \in Nat
    OBVIOUS
  <1>3. Good(0)
    <2>1. About(s, f, 0) = {}
      BY DEF About
    <2>2. NoDrift \in PendingDrift /\ NoDrift[f] = NoField
      BY DEF NoDrift, PendingDrift
    <2> QED BY <1>1, <2>1, <2>2 DEF LatestDrift
  <1>4. ASSUME NEW k \in Nat, k \in G PROVE k + 1 \in G
    <2> SUFFICES ASSUME k + 1 <= Len(s) PROVE Good(k + 1)
      OBVIOUS
    <2> DEFINE p == g[1..k]
               e == s[k + 1]
    <2>1. p \in PendingDrift /\ p[f] = LatestDrift(s, f, k)
      BY <1>2, <1>4
    <2>2. /\ k + 1 \in 1..Len(s) /\ (k + 1) - 1 = k
          /\ e \in CaseEventRow /\ GoodEvent(e)
      BY <1>2
    <2>3. g[1..(k + 1)] = driftStep(p, e)
      BY <1>1, <2>2
    <2>4. driftStep(p, e) \in PendingDrift
      BY <2>1, <2>2, DriftStepType
    <2>5. CASE e.field = f
      <3>1. About(s, f, k + 1) # {} /\ Max(About(s, f, k + 1)) = k + 1
        <4> DEFINE T == About(s, f, k + 1)
        <4>1. k + 1 \in T /\ T \in SUBSET (1..(k + 1))
          BY <2>2, <2>5 DEF About
        <4> HIDE DEF T
        <4>2. Max(T) \in T /\ Max(T) >= k + 1
          <5>1. k + 1 \in Nat /\ T # {}
            BY <4>1
          <5>2. Max(T) \in T /\ \A y \in T : Max(T) >= y
            BY <4>1, <5>1, MaxIsIn, Zenon
          <5> QED BY <4>1, <5>2
        <4> QED BY <4>1, <4>2 DEF T
      <3>2. driftStep(p, e)[f] =
              IF e.type = "CONTEXT_DRIFT_DETECTED" THEN e.ticketValue ELSE NoField
        BY <2>1, <2>2, <2>5 DEF driftStep, PendingDrift, GoodEvent
      <3> HIDE DEF p
      <3> QED BY <2>3, <2>4, <3>1, <3>2 DEF LatestDrift
    <2>6. CASE e.field # f
      <3>1. About(s, f, k + 1) = About(s, f, k)
        BY <2>2, <2>6 DEF About
      <3>2. driftStep(p, e)[f] = p[f]
        BY <2>1, <2>2, <2>6 DEF driftStep, PendingDrift, GoodEvent
      <3> HIDE DEF p, e
      <3> QED BY <2>1, <2>3, <2>4, <3>1, <3>2 DEF LatestDrift
    <2> QED BY <2>5, <2>6
  <1>5. Len(s) \in G
    <2>1. 0 \in G
      BY <1>3
    <2> HIDE DEF G
    <2> QED BY <1>2, <1>4, <2>1, NatSetInduction
  <1> QED BY <1>1, <1>2, <1>5

-----------------------------------------------------------------------------
\* recommendationsForCase.

Rule == {"case_information", "case_files", "power_of_attorney", "case_filing"} \X Nat

LEMMA RulesAre ==
    ASSUME NEW flow PROVE RECOMMENDATIONS_BY_FLOW(flow) \in Seq(Rule)
  <1>1. /\ <<"case_files", 1>> \in Rule /\ <<"case_files", 2>> \in Rule
        /\ <<"case_information", 1>> \in Rule /\ <<"case_filing", 1>> \in Rule
        /\ <<"case_filing", 3>> \in Rule /\ <<"power_of_attorney", 2>> \in Rule
        /\ <<"power_of_attorney", 3>> \in Rule
    BY DEF Rule
  <1> HIDE DEF Rule
  <1>2. CASE flow = "case_search"
    BY <1>1, <1>2 DEF RECOMMENDATIONS_BY_FLOW
  <1>3. CASE flow = "case_information"
    BY <1>1, <1>3 DEF RECOMMENDATIONS_BY_FLOW
  <1>4. CASE flow = "case_files"
    BY <1>1, <1>4 DEF RECOMMENDATIONS_BY_FLOW
  <1>5. CASE flow = "power_of_attorney"
    BY <1>1, <1>5 DEF RECOMMENDATIONS_BY_FLOW
  <1>6. CASE flow \notin {"case_search", "case_information", "case_files", "power_of_attorney"}
    <2>1. RECOMMENDATIONS_BY_FLOW(flow) = <<>>
      BY <1>6 DEF RECOMMENDATIONS_BY_FLOW
    <2> QED BY <2>1
  <1> QED BY <1>2, <1>3, <1>4, <1>5, <1>6

\* The sequence of a sequence of sequences.
FlatStep(h, ss, i) == IF i = 1 THEN ss[i] ELSE h[i - 1] \o ss[i]
IsFlat(h, ss) == h = [i \in 1..Len(ss) |-> FlatStep(h, ss, i)]

LEMMA FlatExists ==
    ASSUME NEW V, NEW ss \in Seq(Seq(V)) PROVE \E h : IsFlat(h, ss)
  <1> DEFINE n == Len(ss)
             Upto(h, m) == \A i \in 1..n : i <= m => h[i] = FlatStep(h, ss, i)
             G == {m \in Nat : \E h \in [1..n -> Seq(V)] : Upto(h, m)}
  <1>0. n \in Nat /\ \A i \in 1..n : ss[i] \in Seq(V)
    OBVIOUS
  <1>1. 0 \in G
    <2> DEFINE h == [i \in 1..n |-> <<>>]
    <2>1. h \in [1..n -> Seq(V)]
      OBVIOUS
    <2>2. Upto(h, 0)
      BY <1>0
    <2> QED BY <2>1, <2>2
  <1>2. ASSUME NEW m \in Nat, m \in G PROVE m + 1 \in G
    <2>1. PICK h \in [1..n -> Seq(V)] : Upto(h, m)
      BY <1>2
    <2> DEFINE new == FlatStep(h, ss, m + 1)
               k == [i \in 1..n |-> IF i = m + 1 THEN new ELSE h[i]]
    <2>2. ASSUME m + 1 \in 1..n PROVE new \in Seq(V)
      <3>1. CASE m = 0
        BY <1>0, <2>2, <3>1 DEF FlatStep
      <3>2. CASE m # 0
        <4>1. h[(m + 1) - 1] \in Seq(V) /\ ss[m + 1] \in Seq(V) /\ m + 1 # 1
          <5>1. m \in 1..n /\ (m + 1) - 1 = m
            BY <1>0, <2>2, <3>2
          <5> QED BY <1>0, <2>1, <2>2, <3>2, <5>1
        <4> QED BY <4>1 DEF FlatStep
      <3> QED BY <3>1, <3>2
    <2>3. k \in [1..n -> Seq(V)]
      <3> HIDE DEF new
      <3> QED BY <2>2
    <2>4. ASSUME NEW i \in 1..n, i <= m + 1 PROVE k[i] = FlatStep(k, ss, i)
      <3>1. FlatStep(k, ss, i) = FlatStep(h, ss, i)
        <4>1. i - 1 # m + 1 /\ (i # 1 => i - 1 \in 1..n)
          BY <1>0, <2>4
        <4>2. i # 1 => k[i - 1] = h[i - 1]
          BY <4>1
        <4> HIDE DEF k
        <4> QED BY <4>2 DEF FlatStep
      <3>2. k[i] = FlatStep(h, ss, i)
        <4>1. CASE i = m + 1
          BY <4>1
        <4>2. CASE i # m + 1
          <5>1. i <= m /\ k[i] = h[i]
            BY <1>0, <2>4, <4>2
          <5> QED BY <2>1, <5>1
        <4> QED BY <4>1, <4>2
      <3> QED BY <3>1, <3>2
    <2> HIDE DEF k
    <2>5. Upto(k, m + 1) /\ m + 1 \in Nat
      BY <2>4
    <2> HIDE DEF Upto
    <2> QED BY <2>3, <2>5
  <1>3. n \in G
    <2> HIDE DEF G
    <2> QED BY <1>0, <1>1, <1>2, NatSetInduction
  <1>4. PICK h \in [1..n -> Seq(V)] : Upto(h, n)
    BY <1>3
  <1>5. h = [i \in 1..n |-> FlatStep(h, ss, i)]
    BY <1>0, <1>4
  <1> QED BY <1>5 DEF IsFlat

LEMMA FlatType ==
    ASSUME NEW V, NEW ss \in Seq(Seq(V)) PROVE FlattenSeq(ss) \in Seq(V)
  <1>0. Len(ss) \in Nat /\ \A i \in 1..Len(ss) : ss[i] \in Seq(V)
    OBVIOUS
  <1>1. CASE Len(ss) = 0
    <2>1. FlattenSeq(ss) = ss
      BY <1>1, Zenon DEF FlattenSeq
    <2>2. ss = <<>>
      BY <1>1
    <2> QED BY <2>1, <2>2
  <1>2. CASE Len(ss) # 0
    <2> DEFINE h == CHOOSE g : IsFlat(g, ss)
    <2>1. IsFlat(h, ss)
      BY FlatExists, Zenon
    <2>2. FlattenSeq(ss) = h[Len(ss)]
      BY <1>2, Zenon DEF FlattenSeq, IsFlat, FlatStep
    <2> HIDE DEF h
    <2> DEFINE G == {m \in Nat : m \in 1..Len(ss) => h[m] \in Seq(V)}
    <2>3. \A i \in 1..Len(ss) : h[i] = FlatStep(h, ss, i)
      BY <2>1 DEF IsFlat
    <2>4. ASSUME NEW m \in Nat, m \in G PROVE m + 1 \in G
      <3> SUFFICES ASSUME m + 1 \in 1..Len(ss) PROVE h[m + 1] \in Seq(V)
        OBVIOUS
      <3>1. CASE m = 0
        BY <1>0, <2>3, <3>1 DEF FlatStep
      <3>2. CASE m # 0
        <4>1. m \in 1..Len(ss) /\ (m + 1) - 1 = m /\ m + 1 # 1
          BY <1>0, <3>2
        <4>2. h[m + 1] = h[m] \o ss[m + 1]
          BY <2>3, <4>1 DEF FlatStep
        <4>3. h[m] \in Seq(V) /\ ss[m + 1] \in Seq(V)
          BY <1>0, <2>4, <4>1
        <4> QED BY <4>2, <4>3
      <3> QED BY <3>1, <3>2
    <2>5. Len(ss) \in G
      <3>1. 0 \in G
        OBVIOUS
      <3> HIDE DEF G
      <3> QED BY <1>0, <2>4, <3>1, NatSetInduction
    <2> QED BY <1>0, <1>2, <2>2, <2>5
  <1> QED BY <1>1, <1>2

\* The strongest of some rules for each flow they lead to.
Strongest(R) == {x \in R : \A y \in R : y[1] = x[1] => x[2] <= y[2]}
Represented(R, B) == \A y \in R : \E x \in B : x[1] = y[1]
Open(r) == r[1] \notin blockingFlows

LEMMA ConsideredType ==
    ASSUME NEW B \in SUBSET Rule, NEW r \in Rule PROVE considered(B, r) \in SUBSET Rule
  BY DEF considered

\* One rule more.
LEMMA Considering ==
    ASSUME NEW R \in SUBSET Rule, Represented(R, Strongest(R)), NEW r \in Rule, Open(r)
    PROVE  /\ considered(Strongest(R), r) = Strongest(R \cup {r})
           /\ Represented(R \cup {r}, Strongest(R \cup {r}))
  <1> DEFINE B == Strongest(R)
             S == R \cup {r}
             existing == {b \in B : b[1] = r[1]}
  <1>0. \A x, y \in Rule : /\ x[2] \in Nat /\ (x[1] = y[1] /\ x[2] = y[2] => x = y)
    BY DEF Rule
  <1>1. /\ considered(B, r) =
             IF existing = {} THEN B \cup {r}
             ELSE IF \A b \in existing : r[2] < b[2] THEN (B \ existing) \cup {r} ELSE B
    BY DEF considered, better, Open
  <1>2. B \subseteq R /\ S \subseteq Rule
    BY DEF Strongest
  <1>3. CASE existing = {}
    <2>1. \A y \in R : y[1] # r[1]
      BY <1>3 DEF Represented
    <2>2. B \cup {r} = Strongest(S)
      BY <1>0, <1>2, <2>1 DEF Strongest
    <2> QED BY <1>1, <1>3, <2>2 DEF Represented
  <1>4. CASE existing # {} /\ \A b \in existing : r[2] < b[2]
    <2>1. \A y \in R : y[1] = r[1] => r[2] < y[2]
      <3>1. PICK b \in B : b[1] = r[1]
        BY <1>4
      <3>2. \A y \in R : y[1] = r[1] => b[2] <= y[2]
        BY <3>1 DEF Strongest
      <3>3. r[2] < b[2]
        BY <1>4, <3>1
      <3> QED BY <1>0, <1>2, <3>2, <3>3
    <2>2. ASSUME NEW x \in B \ existing PROVE x \in Strongest(S)
      BY <2>2 DEF Strongest
    <2>3. r \in Strongest(S)
      BY <1>0, <2>1 DEF Strongest
    <2>4. ASSUME NEW x \in Strongest(S), x # r PROVE x \in B \ existing
      <3>1. x \in R /\ \A y \in R : y[1] = x[1] => x[2] <= y[2]
        BY <2>4 DEF Strongest
      <3>2. x[1] # r[1]
        BY <1>0, <1>2, <2>1, <2>4, <3>1 DEF Strongest
      <3> QED BY <3>1, <3>2 DEF Strongest
    <2>5. (B \ existing) \cup {r} = Strongest(S)
      BY <2>2, <2>3, <2>4
    <2>6. Represented(S, (B \ existing) \cup {r})
      BY DEF Represented
    <2> QED BY <1>1, <1>4, <2>5, <2>6
  <1>5. CASE existing # {} /\ ~\A b \in existing : r[2] < b[2]
    <2>1. PICK b \in B : b[1] = r[1] /\ ~(r[2] < b[2])
      BY <1>5
    <2>2. b \in R /\ b[2] <= r[2] /\ \A y \in R : y[1] = r[1] => b[2] <= y[2]
      BY <1>0, <1>2, <2>1 DEF Strongest
    <2>3. ASSUME NEW x \in B PROVE x \in Strongest(S)
      <3>1. x \in R /\ \A y \in R : y[1] = x[1] => x[2] <= y[2]
        BY DEF Strongest
      <3>2. r[1] = x[1] => x[2] <= r[2]
        BY <1>0, <1>2, <2>1, <2>2, <3>1
      <3> QED BY <3>1, <3>2 DEF Strongest
    <2>4. ASSUME NEW x \in Strongest(S) PROVE x \in B
      <3>1. x \in S /\ \A y \in S : y[1] = x[1] => x[2] <= y[2]
        BY DEF Strongest
      <3>2. CASE x \in R
        BY <3>1, <3>2 DEF Strongest
      <3>3. CASE x = r
        <4>1. r[2] <= b[2]
          BY <2>1, <2>2, <3>1, <3>3
        <4>2. r = b
          BY <1>0, <1>2, <2>1, <2>2, <4>1
        <4> QED BY <2>1, <3>3, <4>2
      <3> QED BY <3>1, <3>2, <3>3
    <2>5. B = Strongest(S)
      BY <2>3, <2>4
    <2>6. Represented(S, B)
      BY <2>1 DEF Represented
    <2> QED BY <1>1, <1>5, <2>5, <2>6
  <1> QED BY <1>3, <1>4, <1>5

IsBestFold(g, s) ==
    g = [T \in SUBSET DOMAIN s |-> IF T = {} THEN {} ELSE considered(g[T \ {Max(T)}], s[Max(T)])]

LEMMA BestFold ==
    ASSUME NEW s \in Seq(Rule)
    PROVE  \E g : /\ FoldLeft(considered, {}, s) = g[1..Len(s)]
                  /\ g[1..0] = {}
                  /\ \A k \in 1..Len(s) : g[1..k] = considered(g[1..(k - 1)], s[k])
  <1> DEFINE n == Len(s)
             V == SUBSET Rule
             step == [k \in 1..n |-> [p \in V |-> considered(p, s[k])]]
             f == CHOOSE g : IsBestFold(g, s)
  <1>1. n \in Nat /\ DOMAIN s = 1..n /\ \A i \in 1..n : s[i] \in Rule
    OBVIOUS
  <1>2. {} \in V
    OBVIOUS
  <1>3. step \in [1..n -> [V -> V]]
    <2>1. ASSUME NEW k \in 1..n, NEW p \in V PROVE considered(p, s[k]) \in V
      BY <1>1, ConsideredType
    <2> HIDE DEF V, n
    <2> QED BY <2>1
  <1>4. \E g : IsBestFold(g, s)
    <2>1. PICK g : IsFold(g, n, V, {}, step)
      <3> HIDE DEF step, n, V
      <3> QED BY <1>1, <1>2, <1>3, FoldExists
    <2> HIDE DEF step, V
    <2>2. ASSUME NEW T \in SUBSET (1..n), T # {}
          PROVE  step[Max(T)][g[T \ {Max(T)}]] = considered(g[T \ {Max(T)}], s[Max(T)])
      <3>1. Max(T) \in 1..n
        BY <1>1, <2>2, MaxIsIn
      <3>2. g[T \ {Max(T)}] \in V
        BY <2>1 DEF IsFold
      <3> QED BY <3>1, <3>2 DEF step
    <2>3. ASSUME NEW T \in SUBSET (1..n)
          PROVE  g[T] = IF T = {} THEN {} ELSE considered(g[T \ {Max(T)}], s[Max(T)])
      BY <2>1, <2>2 DEF FoldStep, IsFold
    <2>4. g = [T \in SUBSET (1..n) |-> g[T]]
      BY <2>1 DEF IsFold
    <2>5. g = [T \in SUBSET (1..n) |->
                 IF T = {} THEN {} ELSE considered(g[T \ {Max(T)}], s[Max(T)])]
      <3> HIDE DEF n
      <3> QED BY <2>3, <2>4, Zenon
    <2> QED BY <1>1, <2>5, Zenon DEF IsBestFold
  <1>5. IsBestFold(f, s)
    BY <1>4, Zenon
  <1>6. FoldLeft(considered, {}, s) = f[DOMAIN s]
    BY Zenon DEF FoldLeft, MapThenFoldSet, IsBestFold
  <1> HIDE DEF f, step
  <1>7. \A T \in SUBSET (1..n) :
          f[T] = IF T = {} THEN {} ELSE considered(f[T \ {Max(T)}], s[Max(T)])
    BY <1>1, <1>5 DEF IsBestFold
  <1>8. f[1..0] = {}
    <2>1. 1..0 = {} /\ {} \in SUBSET (1..n)
      OBVIOUS
    <2> QED BY <1>7, <2>1
  <1>9. ASSUME NEW k \in 1..n PROVE f[1..k] = considered(f[1..(k - 1)], s[k])
    <2>0. k \in Nat \ {0} /\ k <= n
      BY <1>1
    <2>1. 1..k \in SUBSET (1..n) /\ 1..k # {}
      <3> HIDE DEF n
      <3> QED BY <1>1, PrefixIsIn
    <2>2. Max(1..k) = k /\ (1..k) \ {k} = 1..(k - 1)
      BY <2>0, MaxOfPrefix
    <2> QED BY <1>7, <2>1, <2>2
  <1> QED BY <1>1, <1>6, <1>8, <1>9

\* The rules among the first k that lead to an open flow.
OpenRules(s, k) == {x \in {s[i] : i \in 1..k} : Open(x)}

LEMMA BestAreStrongest ==
    ASSUME NEW s \in Seq(Rule)
    PROVE  FoldLeft(considered, {}, s) = Strongest(OpenRules(s, Len(s)))
  <1>1. PICK g : /\ FoldLeft(considered, {}, s) = g[1..Len(s)]
                 /\ g[1..0] = {}
                 /\ \A k \in 1..Len(s) : g[1..k] = considered(g[1..(k - 1)], s[k])
    BY BestFold
  <1> DEFINE R(k) == OpenRules(s, k)
             Good(k) == g[1..k] = Strongest(R(k)) /\ Represented(R(k), Strongest(R(k)))
             G == {k \in Nat : k <= Len(s) => Good(k)}
  <1>2. Len(s) \in Nat /\ \A i \in 1..Len(s) : s[i] \in Rule
    OBVIOUS
  <1>3. Good(0)
    <2>1. R(0) = {}
      BY DEF OpenRules
    <2> HIDE DEF R
    <2> QED BY <1>1, <2>1 DEF Strongest, Represented
  <1>4. ASSUME NEW k \in Nat, k \in G PROVE k + 1 \in G
    <2> SUFFICES ASSUME k + 1 <= Len(s) PROVE Good(k + 1)
      OBVIOUS
    <2> DEFINE r == s[k + 1]
    <2>1. g[1..k] = Strongest(R(k)) /\ Represented(R(k), Strongest(R(k)))
      BY <1>2, <1>4
    <2>2. k + 1 \in 1..Len(s) /\ (k + 1) - 1 = k /\ r \in Rule
      BY <1>2
    <2>3. g[1..(k + 1)] = considered(Strongest(R(k)), r)
      BY <1>1, <2>1, <2>2
    <2>4. R(k) \in SUBSET Rule
      BY <1>2 DEF OpenRules
    <2>5. 1..(k + 1) = (1..k) \cup {k + 1}
      OBVIOUS
    <2>6. CASE Open(r)
      <3>1. R(k + 1) = R(k) \cup {r}
        BY <2>5, <2>6 DEF OpenRules
      <3> HIDE DEF R, r
      <3> QED BY <2>1, <2>2, <2>3, <2>4, <2>6, <3>1, Considering
    <2>7. CASE ~Open(r)
      <3>1. R(k + 1) = R(k)
        BY <2>5, <2>7 DEF OpenRules
      <3>2. considered(Strongest(R(k)), r) = Strongest(R(k))
        BY <2>7 DEF considered, Open
      <3> HIDE DEF R, r
      <3> QED BY <2>1, <2>3, <3>1, <3>2
    <2> QED BY <2>6, <2>7
  <1>5. Len(s) \in G
    <2>1. 0 \in G
      BY <1>3
    <2> HIDE DEF G
    <2> QED BY <1>2, <1>4, <2>1, NatSetInduction
  <1> QED BY <1>1, <1>2, <1>5

-----------------------------------------------------------------------------
\* The case.

\* A request has events to append when it comes to that, and the date that goes with the
\* status it writes.
GoodReq(q) ==
    /\ q \in CaseReqRow
    /\ \A i \in 1..Len(q.events) : GoodEvent(q.events[i])
    /\ q.pc = "event" => q.events # <<>>
    /\ q.to = "OPEN" => ~q.closedAt
    /\ q.to = "CLOSED" => q.closedAt

\* The inductive invariant.
CaseInv ==
    /\ CaseTypeOK
    /\ \A i \in 1..Len(caseEvent) : GoodEvent(caseEvent[i])
    /\ \A r \in CaseReq : GoodReq(caseReq[r])
    /\ ClosedDateMatches

\* A request, column by column.
Req(pc, fill, to, date, delete, set, events) ==
    [pc |-> pc, fill |-> fill, to |-> to, closedAt |-> date, delete |-> delete, set |-> set,
     events |-> events]
\* q has the columns of a request.
IsReq(q) == q = Req(q.pc, q.fill, q.to, q.closedAt, q.delete, q.set, q.events)


\* What the requests make of the idle one.
ToStatus(q, p, to, date, es) ==
    [q EXCEPT !.pc = p, !.to = to, !.closedAt = date, !.events = es]
ToColumn(q, p, f, v, es) == [q EXCEPT !.pc = p, !.set[f] = v, !.events = es]
Put(set, f, v) == [set EXCEPT ![f] = v]
ToDelete(q, p, v) == [q EXCEPT !.pc = p, !.delete = v]
ToEvents(q, p, es) == [q EXCEPT !.pc = p, !.events = es]
ToFill(q, p, u, set, es) == [q EXCEPT !.pc = p, !.fill = u, !.set = set, !.events = es]

LEMMA StatusOf ==
    ASSUME NEW q, IsReq(q), NEW p, NEW u, NEW v, NEW w
    PROVE  ToStatus(q, p, u, v, w) = Req(p, q.fill, u, v, q.delete, q.set, w)
  <1> DEFINE a == [q EXCEPT !.pc = p]
             b == [a EXCEPT !.to = u]
             c == [b EXCEPT !.closedAt = v]
  <1>1. ToStatus(q, p, u, v, w) = [c EXCEPT !.events = w]
    BY Zenon DEF ToStatus
  <1>2. a = Req(p, q.fill, q.to, q.closedAt, q.delete, q.set, q.events)
    BY DEF IsReq, Req
  <1> HIDE DEF a
  <1>3. b = Req(p, q.fill, u, q.closedAt, q.delete, q.set, q.events)
    BY <1>2 DEF Req
  <1> HIDE DEF b
  <1>4. c = Req(p, q.fill, u, v, q.delete, q.set, q.events)
    BY <1>3 DEF Req
  <1> HIDE DEF c
  <1>5. [c EXCEPT !.events = w] = Req(p, q.fill, u, v, q.delete, q.set, w)
    BY <1>4 DEF Req
  <1> QED BY <1>1, <1>5, Zenon

LEMMA ColumnOf ==
    ASSUME NEW q, IsReq(q), NEW p, NEW k, NEW v, NEW w
    PROVE  ToColumn(q, p, k, v, w) =
             Req(p, q.fill, q.to, q.closedAt, q.delete, Put(q.set, k, v), w)
  <1> DEFINE a == [q EXCEPT !.pc = p]
             b == [a EXCEPT !.set[k] = v]
  <1>1. ToColumn(q, p, k, v, w) = [b EXCEPT !.events = w]
    BY Zenon DEF ToColumn
  <1>2. a = Req(p, q.fill, q.to, q.closedAt, q.delete, q.set, q.events)
    BY DEF IsReq, Req
  <1> HIDE DEF a
  <1>3. b = Req(p, q.fill, q.to, q.closedAt, q.delete, Put(q.set, k, v), q.events)
    BY <1>2 DEF Req, Put
  <1> HIDE DEF b
  <1>4. [b EXCEPT !.events = w] =
          Req(p, q.fill, q.to, q.closedAt, q.delete, Put(q.set, k, v), w)
    BY <1>3 DEF Req
  <1> QED BY <1>1, <1>4, Zenon

LEMMA DeleteOf ==
    ASSUME NEW q, IsReq(q), NEW p, NEW v
    PROVE  ToDelete(q, p, v) = Req(p, q.fill, q.to, q.closedAt, v, q.set, q.events)
  <1> DEFINE a == [q EXCEPT !.pc = p]
  <1>1. ToDelete(q, p, v) = [a EXCEPT !.delete = v]
    BY Zenon DEF ToDelete
  <1>2. a = Req(p, q.fill, q.to, q.closedAt, q.delete, q.set, q.events)
    BY DEF IsReq, Req
  <1> HIDE DEF a
  <1>3. [a EXCEPT !.delete = v] = Req(p, q.fill, q.to, q.closedAt, v, q.set, q.events)
    BY <1>2 DEF Req
  <1> QED BY <1>1, <1>3, Zenon

LEMMA EventsOf ==
    ASSUME NEW q, IsReq(q), NEW p, NEW w
    PROVE  ToEvents(q, p, w) = Req(p, q.fill, q.to, q.closedAt, q.delete, q.set, w)
  <1> DEFINE a == [q EXCEPT !.pc = p]
  <1>1. ToEvents(q, p, w) = [a EXCEPT !.events = w]
    BY Zenon DEF ToEvents
  <1>2. a = Req(p, q.fill, q.to, q.closedAt, q.delete, q.set, q.events)
    BY DEF IsReq, Req
  <1> HIDE DEF a
  <1>3. [a EXCEPT !.events = w] = Req(p, q.fill, q.to, q.closedAt, q.delete, q.set, w)
    BY <1>2 DEF Req
  <1> QED BY <1>1, <1>3, Zenon

LEMMA FillOf ==
    ASSUME NEW q, IsReq(q), NEW p, NEW u, NEW v, NEW w
    PROVE  ToFill(q, p, u, v, w) = Req(p, u, q.to, q.closedAt, q.delete, v, w)
  <1> DEFINE a == [q EXCEPT !.pc = p]
             b == [a EXCEPT !.fill = u]
             c == [b EXCEPT !.set = v]
  <1>1. ToFill(q, p, u, v, w) = [c EXCEPT !.events = w]
    BY Zenon DEF ToFill
  <1>2. a = Req(p, q.fill, q.to, q.closedAt, q.delete, q.set, q.events)
    BY DEF IsReq, Req
  <1> HIDE DEF a
  <1>3. b = Req(p, u, q.to, q.closedAt, q.delete, q.set, q.events)
    BY <1>2 DEF Req
  <1> HIDE DEF b
  <1>4. c = Req(p, u, q.to, q.closedAt, q.delete, v, q.events)
    BY <1>3 DEF Req
  <1> HIDE DEF c
  <1>5. [c EXCEPT !.events = w] = Req(p, u, q.to, q.closedAt, q.delete, v, w)
    BY <1>4 DEF Req
  <1> QED BY <1>1, <1>5, Zenon

LEMMA PlainIsGood ==
    ASSUME NEW type \in EventType \ {"CONTEXT_DRIFT_DETECTED", "CONTEXT_RESOLVED"}
    PROVE  GoodEvent(PlainEvent(type))
  BY CaseAssumption DEF GoodEvent, PlainEvent, CaseEventRow, Column

LEMMA NoColumnsType == NoColumns \in Columns
  BY DEF NoColumns, Columns, Column

LEMMA NewReq ==
    ASSUME NEW pc \in {"idle", "write", "event"}, NEW fill \in BOOLEAN,
           NEW to \in CaseStatus \cup {NoField}, NEW closedAt \in BOOLEAN,
           NEW delete \in BOOLEAN, NEW set \in Columns, NEW events \in Seq(CaseEventRow),
           \A i \in 1..Len(events) : GoodEvent(events[i]),
           pc = "event" => events # <<>>, to = "OPEN" => ~closedAt, to = "CLOSED" => closedAt
    PROVE  GoodReq(Req(pc, fill, to, closedAt, delete, set, events))
  BY DEF GoodReq, CaseReqRow, Req

\* A request with at most one event.
LEMMA OneEvent ==
    ASSUME NEW e, GoodEvent(e)
    PROVE  /\ <<e>> \in Seq(CaseEventRow) /\ <<e>> # <<>>
           /\ \A i \in 1..Len(<<e>>) : GoodEvent(<<e>>[i])
  BY DEF GoodEvent

LEMMA IdleIs ==
    /\ IsReq(IdleReq) /\ IdleReq.fill \in BOOLEAN /\ IdleReq.to = NoField
    /\ IdleReq.closedAt \in BOOLEAN /\ IdleReq.delete \in BOOLEAN
    /\ IdleReq.set = NoColumns /\ IdleReq.events = <<>>
  BY DEF IdleReq, Req, IsReq

LEMMA NoFieldIs == NoField # "OPEN" /\ NoField # "CLOSED"
  BY DEF NoField

LEMMA IdleIsGood == GoodReq(IdleReq)
  <1>1. <<>> \in Seq(CaseEventRow) /\ \A i \in 1..Len(<<>>) : GoodEvent(<<>>[i])
    OBVIOUS
  <1> QED BY <1>1, NoColumnsType DEF IdleReq, GoodReq, CaseReqRow, NoField

\* A step of one request.
LEMMA CaseStep ==
    ASSUME CaseInv, NEW r \in CaseReq, NEW q, GoodReq(q), caseReq' = [caseReq EXCEPT ![r] = q],
           caseRow' \in CaseRow, ClosedDateMatches',
           caseTicket' \in Seq(CaseTicketRow), caseEvent' \in Seq(CaseEventRow),
           \A i \in 1..Len(caseEvent') : GoodEvent(caseEvent'[i])
    PROVE  CaseInv'
  <1>1. caseReq \in [CaseReq -> CaseReqRow] /\ q \in CaseReqRow
    BY DEF CaseInv, CaseTypeOK, GoodReq
  <1>2. caseReq' \in [CaseReq -> CaseReqRow] /\ \A p \in CaseReq : GoodReq(caseReq'[p])
    BY <1>1 DEF CaseInv
  <1> QED BY <1>2 DEF CaseInv, CaseTypeOK

\* A request begins: it reads the case, and at most writes a ticket.
LEMMA ReadStep ==
    ASSUME CaseInv, NEW r \in CaseReq, NEW q, GoodReq(q), caseReq' = [caseReq EXCEPT ![r] = q],
           caseRow' = caseRow, caseEvent' = caseEvent, caseTicket' \in Seq(CaseTicketRow)
    PROVE  CaseInv'
  BY CaseStep DEF CaseInv, CaseTypeOK, ClosedDateMatches

LEMMA UpdateStatusInv == ASSUME CaseInv, NEW r \in CaseReq, UpdateStatus(r) PROVE CaseInv'
  <1> DEFINE type(to) == IF to # "OPEN" THEN "CASE_CLOSED"
                         ELSE IF caseRow.status # "OPEN" THEN "CASE_REOPENED" ELSE "CASE_UPDATED"
             date(to) == IF to = "CLOSED" THEN TRUE
                         ELSE IF to = "OPEN" THEN FALSE ELSE caseRow.closedAt
             q(to) == ToStatus(IdleReq, "write", to, date(to), <<PlainEvent(type(to))>>)
  <1>1. PICK to \in CaseStatus : /\ caseReq' = [caseReq EXCEPT ![r] = q(to)]
                                 /\ UNCHANGED <<caseRow, caseTicket, caseEvent>>
    BY Zenon DEF UpdateStatus, CaseRead, ToStatus
  <1>2. /\ type(to) \in EventType \ {"CONTEXT_DRIFT_DETECTED", "CONTEXT_RESOLVED"}
        /\ date(to) \in BOOLEAN
    BY DEF EventType, CaseInv, CaseTypeOK, CaseRow
  <1>3. (to = "OPEN" => ~date(to)) /\ (to = "CLOSED" => date(to))
    OBVIOUS
  <1> HIDE DEF type, date
  <1>4. q(to) = Req("write", IdleReq.fill, to, date(to), IdleReq.delete, IdleReq.set,
                    <<PlainEvent(type(to))>>)
    BY IdleIs, StatusOf, Zenon
  <1>5. GoodReq(q(to))
    <2>1. GoodEvent(PlainEvent(type(to)))
      BY <1>2, PlainIsGood
    <2> DEFINE es == <<PlainEvent(type(to))>>
    <2>2. es \in Seq(CaseEventRow) /\ \A i \in 1..Len(es) : GoodEvent(es[i])
      BY <2>1, OneEvent
    <2> HIDE DEF q, es
    <2>3. GoodReq(Req("write", IdleReq.fill, to, date(to), IdleReq.delete, IdleReq.set, es))
      BY <1>1, <1>2, <1>3, <2>2, IdleIs, NoColumnsType, NewReq
    <2> QED BY <1>4, <2>3 DEF es
  <1> HIDE DEF q
  <1> QED BY <1>1, <1>5, ReadStep DEF CaseInv, CaseTypeOK

\* The requests that begin without a change of status, with an event to append.
LEMMA BeginInv ==
    ASSUME CaseInv, NEW r \in CaseReq, NEW q, NEW pc \in {"write", "event"},
           NEW set \in Columns, NEW e, GoodEvent(e),
           caseReq' = [caseReq EXCEPT ![r] = q],
           q = Req(pc, IdleReq.fill, IdleReq.to, IdleReq.closedAt, IdleReq.delete, set, <<e>>),
           caseRow' = caseRow, caseEvent' = caseEvent, caseTicket' \in Seq(CaseTicketRow)
    PROVE  CaseInv'
  <1> DEFINE es == <<e>>
  <1>1. /\ es \in Seq(CaseEventRow) /\ es # <<>>
        /\ \A i \in 1..Len(es) : GoodEvent(es[i])
    BY OneEvent
  <1> HIDE DEF es
  <1>2. GoodReq(Req(pc, IdleReq.fill, IdleReq.to, IdleReq.closedAt, IdleReq.delete, set, es))
    BY <1>1, IdleIs, NoFieldIs, NewReq
  <1>3. GoodReq(q)
    BY <1>2 DEF es
  <1> QED BY <1>3, ReadStep

LEMMA UpdateCaseInv == ASSUME CaseInv, NEW r \in CaseReq, UpdateCase(r) PROVE CaseInv'
  <1> DEFINE e == PlainEvent("CASE_UPDATED")
             q(f, v) == ToColumn(IdleReq, "write", f, v, <<e>>)
  <1>1. PICK f \in CaseField, v \in CaseValue :
          /\ caseReq' = [caseReq EXCEPT ![r] = q(f, v)]
          /\ UNCHANGED <<caseRow, caseTicket, caseEvent>>
    BY Zenon DEF UpdateCase, CaseRead, ToColumn
  <1> DEFINE set == Put(IdleReq.set, f, v)
  <1>2. set \in Columns
    BY IdleIs, NoColumnsType DEF Columns, Column, Put
  <1>3. q(f, v) = Req("write", IdleReq.fill, IdleReq.to, IdleReq.closedAt, IdleReq.delete, set,
                      <<e>>)
    BY IdleIs, ColumnOf, Zenon
  <1>4. GoodEvent(e)
    BY PlainIsGood DEF EventType
  <1> HIDE DEF set, q, e
  <1> QED BY <1>1, <1>2, <1>3, <1>4, BeginInv DEF CaseInv, CaseTypeOK

LEMMA SmallRequestsInv ==
    ASSUME CaseInv, NEW r \in CaseReq, DeleteCase(r) \/ TrackRecommendationClick(r)
    PROVE  CaseInv'
  <1>1. CASE DeleteCase(r)
    <2> DEFINE q == ToDelete(IdleReq, "write", TRUE)
    <2>1. /\ caseReq' = [caseReq EXCEPT ![r] = q]
          /\ UNCHANGED <<caseRow, caseTicket, caseEvent>>
      BY <1>1, Zenon DEF DeleteCase, CaseRead, ToDelete
    <2>2. q = Req("write", IdleReq.fill, IdleReq.to, IdleReq.closedAt, TRUE, IdleReq.set,
                  IdleReq.events)
      BY IdleIs, DeleteOf, Zenon
    <2>3. <<>> \in Seq(CaseEventRow) /\ \A i \in 1..Len(<<>>) : GoodEvent(<<>>[i])
      OBVIOUS
    <2>4. GoodReq(Req("write", IdleReq.fill, IdleReq.to, IdleReq.closedAt, TRUE, IdleReq.set,
                      IdleReq.events))
      BY <2>3, IdleIs, NoFieldIs, NoColumnsType, NewReq
    <2> HIDE DEF q
    <2> QED BY <2>1, <2>2, <2>4, ReadStep DEF CaseInv, CaseTypeOK
  <1>2. CASE TrackRecommendationClick(r)
    <2> DEFINE e == PlainEvent("RECOMMENDATION_TRIGGERED")
               q == ToEvents(IdleReq, "event", <<e>>)
    <2>1. /\ caseReq' = [caseReq EXCEPT ![r] = q]
          /\ UNCHANGED <<caseRow, caseTicket, caseEvent>>
      BY <1>2, Zenon DEF TrackRecommendationClick, CaseRead, ToEvents
    <2>2. q = Req("event", IdleReq.fill, IdleReq.to, IdleReq.closedAt, IdleReq.delete,
                  IdleReq.set, <<e>>)
      BY IdleIs, EventsOf, Zenon
    <2>3. GoodEvent(e)
      BY PlainIsGood DEF EventType
    <2>4. IdleReq.set \in Columns
      BY IdleIs, NoColumnsType
    <2> HIDE DEF q, e
    <2> QED BY <2>1, <2>2, <2>3, <2>4, BeginInv DEF CaseInv, CaseTypeOK
  <1> QED BY <1>1, <1>2

LEMMA CreateCaseTicketInv ==
    ASSUME CaseInv, NEW r \in CaseReq, CreateCaseTicket(r) PROVE CaseInv'
  <1> DEFINE e == PlainEvent("TICKET_CREATED")
             q == ToEvents(IdleReq, "event", <<e>>)
             col(override) == [f \in CaseField |-> IF override[f] # NullValue THEN override[f]
                                                   ELSE caseRow.col[f]]
             t(flow, override) == [flow |-> flow, status |-> "OPEN", archived |-> FALSE,
                                   col |-> col(override)]
  <1>7. q = Req("event", IdleReq.fill, IdleReq.to, IdleReq.closedAt, IdleReq.delete,
                IdleReq.set, <<e>>)
    BY IdleIs, EventsOf, Zenon
  <1>1. PICK flow \in CaseFlow, override \in Overrides :
          /\ caseReq' = [caseReq EXCEPT ![r] = q]
          /\ caseTicket' = Append(caseTicket, t(flow, override))
          /\ UNCHANGED <<caseRow, caseEvent>>
    BY Zenon DEF CreateCaseTicket, CaseRead, ToEvents
  <1>2. override \in Columns
    BY NoColumnsType DEF Overrides, Columns, Column
  <1>3. caseRow.col \in Columns /\ caseTicket \in Seq(CaseTicketRow)
    BY DEF CaseInv, CaseTypeOK, CaseRow
  <1>4. col(override) \in Columns
    BY <1>2, <1>3 DEF Columns
  <1> HIDE DEF col
  <1>5. t(flow, override) \in CaseTicketRow
    BY <1>4 DEF CaseTicketRow
  <1> HIDE DEF t
  <1>6. caseTicket' \in Seq(CaseTicketRow)
    BY <1>1, <1>3, <1>5
  <1>8. GoodEvent(e)
    BY PlainIsGood DEF EventType
  <1>9. IdleReq.set \in Columns
    BY IdleIs, NoColumnsType
  <1>10. caseReq' = [caseReq EXCEPT ![r] = q] /\ caseRow' = caseRow /\ caseEvent' = caseEvent
    BY <1>1
  <1> HIDE DEF q, e
  <1> QED BY <1>6, <1>7, <1>8, <1>9, <1>10, BeginInv

LEMMA ResolveDriftInv == ASSUME CaseInv, NEW r \in CaseReq, ResolveDrift(r) PROVE CaseInv'
  <1> DEFINE pc(source) == IF source = "TICKET" THEN "write" ELSE "event"
             value(e, source) == IF source = "TICKET" THEN e.ticketValue ELSE NullValue
             q(e, source) == ToColumn(IdleReq, pc(source), e.field, value(e, source),
                                      <<Resolved(e)>>)
  <1>a. ASSUME NEW p, NEW f, NEW v, NEW x
        PROVE  ToColumn(IdleReq, p, f, v, <<x>>) =
                 Req(p, IdleReq.fill, IdleReq.to, IdleReq.closedAt, IdleReq.delete,
                     Put(IdleReq.set, f, v), <<x>>)
    BY IdleIs, ColumnOf, Zenon
  <1>1. PICK e \in DriftEvents, source \in {"CASE", "TICKET"} :
          /\ caseReq' = [caseReq EXCEPT ![r] = q(e, source)]
          /\ UNCHANGED <<caseRow, caseTicket, caseEvent>>
    BY Zenon DEF ResolveDrift, CaseRead, ToColumn
  <1>2. GoodEvent(e) /\ e.type = "CONTEXT_DRIFT_DETECTED"
    <2>1. e \in {caseEvent[i] : i \in DOMAIN caseEvent} /\ e.type = "CONTEXT_DRIFT_DETECTED"
      BY <1>1 DEF DriftEvents, ToSet
    <2>2. DOMAIN caseEvent = 1..Len(caseEvent)
      BY DEF CaseInv, CaseTypeOK
    <2> QED BY <2>1, <2>2 DEF CaseInv
  <1>3. e \in CaseEventRow /\ e.field \in CaseField /\ e.ticketValue \in Column
    BY <1>2 DEF GoodEvent, CaseEventRow
  <1>4. GoodEvent(Resolved(e))
    BY <1>3 DEF GoodEvent, CaseEventRow, EventType, Resolved
  <1> DEFINE set == Put(IdleReq.set, e.field, value(e, source))
  <1>5. set \in Columns
    BY <1>3, IdleIs, NoColumnsType DEF Columns, Column, Put
  <1>6. q(e, source) = Req(pc(source), IdleReq.fill, IdleReq.to, IdleReq.closedAt,
                           IdleReq.delete, set, <<Resolved(e)>>)
    BY <1>a, Zenon
  <1>7. pc(source) \in {"write", "event"}
    OBVIOUS
  <1> HIDE DEF set, q, pc
  <1> QED BY <1>1, <1>4, <1>5, <1>6, <1>7, BeginInv DEF CaseInv, CaseTypeOK

\* The drift events of a ticket.
LEMMA DriftsAre ==
    ASSUME NEW t \in CaseTicketRow, caseRow \in CaseRow
    PROVE  drifts(t) \in Seq(CaseEventRow) /\ \A i \in 1..Len(drifts(t)) : GoodEvent(drifts(t)[i])
  <1> DEFINE differ == {f \in CaseField : /\ t.col[f] # NullValue /\ caseRow.col[f] # NullValue
                                          /\ t.col[f] # caseRow.col[f]}
             event(f) == [type |-> "CONTEXT_DRIFT_DETECTED", field |-> f,
                          caseValue |-> caseRow.col[f], ticketValue |-> t.col[f]]
             S == {event(f) : f \in differ}
             g == [f \in differ |-> event(f)]
  <1>1. IsFiniteSet(differ)
    <2>1. differ \in SUBSET CaseField
      OBVIOUS
    <2> QED BY <2>1, CaseAssumption, FS_Subset
  <1>2. IsFiniteSet(S)
    <2>1. g \in Surjection(differ, S)
      BY DEF Surjection
    <2> HIDE DEF g, S, differ
    <2> QED BY <1>1, <2>1, FS_Surjection
  <1>3. ASSUME NEW e \in S PROVE GoodEvent(e) /\ e \in CaseEventRow
    <2>1. PICK f \in differ : e = event(f)
      OBVIOUS
    <2>2. t.col[f] \in Column /\ caseRow.col[f] \in Column /\ f \in CaseField
      BY DEF CaseTicketRow, CaseRow, Columns
    <2> QED BY <2>1, <2>2 DEF GoodEvent, CaseEventRow, EventType
  <1>4. drifts(t) = SetToSeq(S)
    BY DEF drifts
  <1> HIDE DEF S
  <1>5. SetToSeq(S) \in [1..Cardinality(S) -> S]
    <2>1. ExistsBijection(1..Cardinality(S), S)
      BY <1>2, FS_CardinalityType
    <2>2. \E f \in [1..Cardinality(S) -> S] : IsInjective(f)
      <3>1. PICK f : f \in Bijection(1..Cardinality(S), S)
        BY <2>1 DEF ExistsBijection
      <3>2. f \in [1..Cardinality(S) -> S] /\ IsInjective(f)
        BY <3>1 DEF Bijection, Injection, Surjection, IsInjective
      <3> QED BY <3>2
    <2> QED BY <2>2, Zenon DEF SetToSeq
  <1>6. Cardinality(S) \in Nat
    BY <1>2, FS_CardinalityType
  <1> QED BY <1>3, <1>4, <1>5, <1>6

LEMMA CompleteTicketInv == ASSUME CaseInv, NEW r \in CaseReq, CompleteTicket(r) PROVE CaseInv'
  <1> DEFINE pc(t) == IF fills(t) # NoColumns THEN "write"
                      ELSE IF drifts(t) # <<>> THEN "event" ELSE "idle"
             q(t) == ToFill(IdleReq, pc(t), pc(t) = "write", fills(t), drifts(t))
  <1>1. PICK i \in DOMAIN caseTicket :
          /\ caseTicket' = [caseTicket EXCEPT ![i].status = "COMPLETED"]
          /\ caseReq' = [caseReq EXCEPT ![r] = q(caseTicket[i])]
          /\ UNCHANGED <<caseRow, caseEvent>>
    BY Zenon DEF CompleteTicket, CaseRead, ToFill
  <1> DEFINE t == caseTicket[i]
  <1>2. caseTicket \in Seq(CaseTicketRow) /\ caseRow \in CaseRow
    BY DEF CaseInv, CaseTypeOK
  <1>3. t \in CaseTicketRow
    BY <1>2
  <1>4. caseTicket' \in Seq(CaseTicketRow)
    <2>1. [t EXCEPT !.status = "COMPLETED"] \in CaseTicketRow
      BY <1>3 DEF CaseTicketRow
    <2>2. caseTicket' = [caseTicket EXCEPT ![i] = [t EXCEPT !.status = "COMPLETED"]]
      BY <1>1
    <2> HIDE DEF t
    <2> QED BY <1>2, <2>1, <2>2
  <1> HIDE DEF t
  <1>5. fills(t) \in Columns
    <2>1. t.col \in Columns /\ caseRow.col \in Columns
      BY <1>2, <1>3 DEF CaseTicketRow, CaseRow
    <2> QED BY <2>1 DEF fills, Columns, Column
  <1>6. drifts(t) \in Seq(CaseEventRow) /\ \A k \in 1..Len(drifts(t)) : GoodEvent(drifts(t)[k])
    BY <1>2, <1>3, DriftsAre
  <1>7. pc(t) \in {"idle", "write", "event"} /\ (pc(t) = "event" => drifts(t) # <<>>)
    OBVIOUS
  <1> DEFINE fill == pc(t) = "write"
  <1>8. fill \in BOOLEAN
    OBVIOUS
  <1>9. q(t) = ToFill(IdleReq, pc(t), fill, fills(t), drifts(t))
    OBVIOUS
  <1> HIDE DEF pc, q, fill
  <1>10. q(t) = Req(pc(t), fill, IdleReq.to, IdleReq.closedAt, IdleReq.delete, fills(t),
                    drifts(t))
    BY <1>9, IdleIs, FillOf, Zenon
  <1>11. GoodReq(Req(pc(t), fill, IdleReq.to, IdleReq.closedAt, IdleReq.delete, fills(t),
                     drifts(t)))
    BY <1>5, <1>6, <1>7, <1>8, IdleIs, NoFieldIs, NewReq
  <1>12. caseReq' = [caseReq EXCEPT ![r] = q(t)] /\ caseRow' = caseRow /\ caseEvent' = caseEvent
    BY <1>1 DEF t
  <1> QED BY <1>4, <1>10, <1>11, <1>12, ReadStep

LEMMA WriteCaseInv == ASSUME CaseInv, NEW r \in CaseReq, WriteCase(r) PROVE CaseInv'
  <1> DEFINE q == caseReq[r]
             next == IF q.events = <<>> THEN IdleReq ELSE [q EXCEPT !.pc = "event"]
  <1>1. /\ caseRow' = [caseRow EXCEPT
             !.status = IF q.to = NoField THEN @ ELSE q.to,
             !.closedAt = IF q.to = NoField THEN @ ELSE q.closedAt,
             !.deleted = @ \/ q.delete,
             !.col = [f \in CaseField |-> IF q.set[f] # NullValue THEN q.set[f] ELSE @[f]]]
        /\ caseReq' = [caseReq EXCEPT ![r] = next]
        /\ UNCHANGED <<caseTicket, caseEvent>>
    BY DEF WriteCase
  <1>2. GoodReq(q) /\ q \in CaseReqRow /\ caseRow \in CaseRow
    BY DEF CaseInv, GoodReq, CaseTypeOK
  <1>3. GoodReq(next)
    <2>1. CASE q.events = <<>>
      BY <2>1, IdleIsGood
    <2>2. CASE q.events # <<>>
      <3>1. [q EXCEPT !.pc = "event"] \in CaseReqRow
        BY <1>2 DEF CaseReqRow
      <3>2. LET p == [q EXCEPT !.pc = "event"] IN
              p.events = q.events /\ p.to = q.to /\ p.closedAt = q.closedAt
        BY <1>2 DEF CaseReqRow
      <3> HIDE DEF q
      <3> QED BY <1>2, <2>2, <3>1, <3>2 DEF GoodReq
    <2> QED BY <2>1, <2>2
  <1> DEFINE status == IF q.to = NoField THEN caseRow.status ELSE q.to
             date == IF q.to = NoField THEN caseRow.closedAt ELSE q.closedAt
             deleted == caseRow.deleted \/ q.delete
             col == [f \in CaseField |-> IF q.set[f] # NullValue THEN q.set[f]
                                         ELSE caseRow.col[f]]
  <1>4. /\ status \in CaseStatus /\ date \in BOOLEAN /\ deleted \in BOOLEAN /\ col \in Columns
        /\ status = "OPEN" => ~date
        /\ status = "CLOSED" => date
    <2>1. /\ q.to \in CaseStatus \cup {NoField} /\ q.closedAt \in BOOLEAN
          /\ q.delete \in BOOLEAN /\ q.set \in Columns
          /\ caseRow.status \in CaseStatus /\ caseRow.closedAt \in BOOLEAN
          /\ caseRow.deleted \in BOOLEAN /\ caseRow.col \in Columns
      BY <1>2 DEF CaseReqRow, CaseRow
    <2>2. (q.to = "OPEN" => ~q.closedAt) /\ (q.to = "CLOSED" => q.closedAt)
      BY <1>2 DEF GoodReq
    <2>3. (caseRow.status = "OPEN" => ~caseRow.closedAt)
          /\ (caseRow.status = "CLOSED" => caseRow.closedAt)
      BY DEF CaseInv, ClosedDateMatches
    <2>4. col \in Columns
      BY <2>1 DEF Columns
    <2> QED BY <2>1, <2>2, <2>3, <2>4
  <1>5. caseRow' = [status |-> status, closedAt |-> date, deleted |-> deleted, col |-> col]
    BY <1>1, <1>2 DEF CaseRow
  <1> HIDE DEF q, next, status, date, deleted, col
  <1>6. caseRow' \in CaseRow /\ ClosedDateMatches'
    BY <1>4, <1>5 DEF CaseRow, ClosedDateMatches
  <1> QED BY <1>1, <1>3, <1>6, CaseStep DEF CaseInv, CaseTypeOK

\* The first event and the others.
LEMMA EventsLeft ==
    ASSUME NEW es \in Seq(CaseEventRow), es # <<>>, \A i \in 1..Len(es) : GoodEvent(es[i])
    PROVE  /\ GoodEvent(Head(es)) /\ Head(es) \in CaseEventRow
           /\ Tail(es) \in Seq(CaseEventRow)
           /\ Len(es) # 1 => Tail(es) # <<>>
           /\ \A i \in 1..Len(Tail(es)) : GoodEvent(Tail(es)[i])
  <1>1. Len(es) \in Nat /\ Len(es) >= 1 /\ Head(es) = es[1] /\ Head(es) \in CaseEventRow
    OBVIOUS
  <1>2. /\ Tail(es) \in Seq(CaseEventRow) /\ Len(Tail(es)) = Len(es) - 1
        /\ \A i \in 1..(Len(es) - 1) : Tail(es)[i] = es[i + 1]
    OBVIOUS
  <1>3. \A i \in 1..(Len(es) - 1) : i + 1 \in 1..Len(es)
    BY <1>1
  <1>4. \A i \in 1..Len(Tail(es)) : GoodEvent(Tail(es)[i])
    BY <1>2, <1>3
  <1>5. 1 \in 1..Len(es)
    BY <1>1
  <1>6. GoodEvent(Head(es))
    BY <1>1, <1>5
  <1>7. ASSUME Len(es) # 1 PROVE Tail(es) # <<>>
    <2>1. Len(Tail(es)) # 0 /\ Len(<<>>) = 0
      BY <1>1, <1>2, <1>7
    <2> QED BY <2>1, Zenon
  <1> QED BY <1>1, <1>2, <1>4, <1>6, <1>7, Zenon

LEMMA AppendCaseEventInv ==
    ASSUME CaseInv, NEW r \in CaseReq, AppendCaseEvent(r) PROVE CaseInv'
  <1> DEFINE q == caseReq[r]
             e == Head(q.events)
             next == IF Len(q.events) = 1 THEN IdleReq ELSE [q EXCEPT !.events = Tail(q.events)]
  <1>1. /\ q.pc = "event" /\ caseEvent' = Append(caseEvent, e)
        /\ caseReq' = [caseReq EXCEPT ![r] = next]
        /\ UNCHANGED <<caseRow, caseTicket>>
    BY DEF AppendCaseEvent
  <1>2. /\ GoodReq(q) /\ q \in CaseReqRow /\ q.events \in Seq(CaseEventRow) /\ q.events # <<>>
        /\ \A i \in 1..Len(q.events) : GoodEvent(q.events[i])
        /\ caseEvent \in Seq(CaseEventRow)
    BY <1>1 DEF CaseInv, GoodReq, CaseTypeOK, CaseReqRow
  <1> DEFINE rest == Tail(q.events)
  <1>3. /\ GoodEvent(e) /\ e \in CaseEventRow
        /\ Len(q.events) # 1 => /\ rest \in Seq(CaseEventRow) /\ rest # <<>>
                                /\ \A i \in 1..Len(rest) : GoodEvent(rest[i])
    BY <1>2, EventsLeft
  <1>4. GoodReq(next)
    <2>1. CASE Len(q.events) = 1
      BY <2>1, IdleIsGood
    <2>2. CASE Len(q.events) # 1
      <3> DEFINE p == [q EXCEPT !.events = rest]
      <3>1. p \in CaseReqRow
        BY <1>2, <1>3, <2>2 DEF CaseReqRow
      <3>2. p.events = rest /\ p.to = q.to /\ (p.closedAt <=> q.closedAt)
        BY <1>2 DEF CaseReqRow
      <3> HIDE DEF p, q, rest
      <3>3. GoodReq(p)
        BY <1>2, <1>3, <2>2, <3>1, <3>2 DEF GoodReq
      <3> QED BY <2>2, <3>3 DEF p, rest
    <2> QED BY <2>1, <2>2
  <1> HIDE DEF q, e, next
  <1>5. caseEvent' \in Seq(CaseEventRow) /\ \A i \in 1..Len(caseEvent') : GoodEvent(caseEvent'[i])
    BY <1>1, <1>2, <1>3 DEF CaseInv
  <1>6. caseRow' \in CaseRow /\ ClosedDateMatches' /\ caseTicket' \in Seq(CaseTicketRow)
    BY <1>1 DEF CaseInv, CaseTypeOK, ClosedDateMatches
  <1> QED BY <1>1, <1>4, <1>5, <1>6, CaseStep

LEMMA TicketMovesInv == ASSUME CaseInv, TicketMoves PROVE CaseInv'
  <1>1. PICK i \in DOMAIN caseTicket :
          \/ caseTicket' = [caseTicket EXCEPT ![i].status = "DELIVERED"]
          \/ caseTicket' = [caseTicket EXCEPT ![i].archived = TRUE]
    BY DEF TicketMoves
  <1>2. UNCHANGED <<caseRow, caseEvent, caseReq>>
    BY DEF TicketMoves
  <1> DEFINE t == caseTicket[i]
  <1>3. caseTicket \in Seq(CaseTicketRow) /\ t \in CaseTicketRow
    BY DEF CaseInv, CaseTypeOK
  <1>4. /\ [t EXCEPT !.status = "DELIVERED"] \in CaseTicketRow
        /\ [t EXCEPT !.archived = TRUE] \in CaseTicketRow
    BY <1>3 DEF CaseTicketRow
  <1>5. \/ caseTicket' = [caseTicket EXCEPT ![i] = [t EXCEPT !.status = "DELIVERED"]]
        \/ caseTicket' = [caseTicket EXCEPT ![i] = [t EXCEPT !.archived = TRUE]]
    BY <1>1
  <1> HIDE DEF t
  <1>6. caseTicket' \in Seq(CaseTicketRow)
    <2>1. CASE caseTicket' = [caseTicket EXCEPT ![i] = [t EXCEPT !.status = "DELIVERED"]]
      BY <1>3, <1>4, <2>1
    <2>2. CASE caseTicket' = [caseTicket EXCEPT ![i] = [t EXCEPT !.archived = TRUE]]
      BY <1>3, <1>4, <2>2
    <2> QED BY <1>5, <2>1, <2>2
  <1> QED BY <1>2, <1>6 DEF CaseInv, CaseTypeOK, ClosedDateMatches

LEMMA CaseStart == CaseInit => CaseInv
  <1> SUFFICES ASSUME CaseInit PROVE CaseInv
    OBVIOUS
  <1>1. /\ caseRow = [status |-> "OPEN", closedAt |-> FALSE, deleted |-> FALSE, col |-> NoColumns]
        /\ caseTicket = <<>> /\ caseEvent = <<PlainEvent("CASE_CREATED")>>
        /\ caseReq = [r \in CaseReq |-> IdleReq]
    BY DEF CaseInit
  <1>2. caseRow \in CaseRow /\ ClosedDateMatches
    BY <1>1, NoColumnsType DEF CaseRow, CaseStatus, ClosedDateMatches
  <1>3. caseEvent \in Seq(CaseEventRow) /\ \A i \in 1..Len(caseEvent) : GoodEvent(caseEvent[i])
    <2>1. GoodEvent(PlainEvent("CASE_CREATED"))
      BY PlainIsGood DEF EventType
    <2> QED BY <1>1, <2>1, OneEvent
  <1>4. caseReq \in [CaseReq -> CaseReqRow] /\ \A r \in CaseReq : GoodReq(caseReq[r])
    BY <1>1, IdleIsGood DEF GoodReq
  <1>5. caseTicket \in Seq(CaseTicketRow)
    BY <1>1
  <1> QED BY <1>2, <1>3, <1>4, <1>5 DEF CaseInv, CaseTypeOK

LEMMA StoryHolds == CaseInv => CaseTellsItsStory
  <1> SUFFICES ASSUME CaseInv PROVE CaseTellsItsStory
    OBVIOUS
  <1>1. UnresolvedIsLatest
    <2> SUFFICES ASSUME NEW f \in CaseField
                 PROVE  LET at == {i \in DOMAIN caseEvent : caseEvent[i].field = f}
                        IN  getUnresolvedDrifts[f] =
                              IF at # {} /\ caseEvent[Max(at)].type = "CONTEXT_DRIFT_DETECTED"
                                THEN caseEvent[Max(at)].ticketValue ELSE NoField
      BY DEF UnresolvedIsLatest
    <2>1. /\ caseEvent \in Seq(CaseEventRow)
          /\ \A i \in 1..Len(caseEvent) : GoodEvent(caseEvent[i])
      BY DEF CaseInv, CaseTypeOK
    <2>2. {i \in DOMAIN caseEvent : caseEvent[i].field = f} = About(caseEvent, f, Len(caseEvent))
      BY <2>1 DEF About
    <2>3. getUnresolvedDrifts[f] = LatestDrift(caseEvent, f, Len(caseEvent))
      BY <2>1, DriftsAreLatest DEF getUnresolvedDrifts
    <2> QED BY <2>2, <2>3 DEF LatestDrift
  <1>2. RecommendationsOrderFree
    <2> DEFINE ss == [i \in DOMAIN caseTicket |->
                        IF i \in liveTickets /\ caseTicket[i].status = "COMPLETED"
                          THEN RECOMMENDATIONS_BY_FLOW(caseTicket[i].flow) ELSE <<>>]
    <2>1. ss \in Seq(Seq(Rule))
      <3>1. caseTicket \in Seq(CaseTicketRow)
        BY DEF CaseInv, CaseTypeOK
      <3>2. \A flow : RECOMMENDATIONS_BY_FLOW(flow) \in Seq(Rule)
        BY RulesAre
      <3>3. \A i \in DOMAIN caseTicket : ss[i] \in Seq(Rule)
        BY <3>2
      <3>4. DOMAIN ss = 1..Len(caseTicket) /\ Len(caseTicket) \in Nat
        BY <3>1
      <3> HIDE DEF Rule
      <3> QED BY <3>1, <3>3, <3>4
    <2>2. triggerRules \in Seq(Rule)
      <3>1. triggerRules = FlattenSeq(ss)
        BY DEF triggerRules
      <3> HIDE DEF ss
      <3> QED BY <2>1, <3>1, FlatType
    <2>3. {x \in ToSet(triggerRules) : x[1] \notin blockingFlows}
             = OpenRules(triggerRules, Len(triggerRules))
      BY <2>2 DEF ToSet, OpenRules, Open
    <2>4. recommendationsForCase = Strongest(OpenRules(triggerRules, Len(triggerRules)))
      BY <2>2, BestAreStrongest DEF recommendationsForCase
    <2> QED BY <2>3, <2>4 DEF RecommendationsOrderFree, Strongest
  <1> QED BY <1>1, <1>2 DEF CaseTellsItsStory, CaseInv

\* A case tells its story: for any fields, values and flows and any number of requests that
\* read, write and append across each other, the closing date goes with the status, the open
\* drifts are those of the latest event of each field, and the suggestions are the strongest
\* rule for each flow in whatever order the tickets were ordered (cases.service.ts:360-830,
\* recommendationsForCase).
THEOREM CaseStoryTold == CaseSpec => []CaseTellsItsStory
  <1>1. CaseInit => CaseInv
    BY CaseStart
  <1>2. CaseInv /\ [CaseNext]_caseVars => CaseInv'
    <2> SUFFICES ASSUME CaseInv, [CaseNext]_caseVars PROVE CaseInv'
      OBVIOUS
    <2>1. ASSUME NEW r \in CaseReq, CaseReqDies(r) PROVE CaseInv'
      <3>1. /\ caseReq' = [caseReq EXCEPT ![r] = IdleReq]
            /\ UNCHANGED <<caseRow, caseTicket, caseEvent>>
        BY <2>1 DEF CaseReqDies
      <3> QED BY <3>1, IdleIsGood, ReadStep DEF CaseInv, CaseTypeOK
    <2>2. ASSUME NEW r \in CaseReq,
                 \/ UpdateStatus(r) \/ UpdateCase(r) \/ DeleteCase(r) \/ CreateCaseTicket(r)
                 \/ TrackRecommendationClick(r) \/ ResolveDrift(r) \/ CompleteTicket(r)
                 \/ WriteCase(r) \/ AppendCaseEvent(r)
          PROVE  CaseInv'
      BY <2>2, UpdateStatusInv, UpdateCaseInv, SmallRequestsInv, CreateCaseTicketInv,
         ResolveDriftInv, CompleteTicketInv, WriteCaseInv, AppendCaseEventInv
    <2>3. CASE TicketMoves
      BY <2>3, TicketMovesInv
    <2>4. CASE UNCHANGED caseVars
      BY <2>4 DEF caseVars, CaseInv, CaseTypeOK, ClosedDateMatches
    <2> QED BY <2>1, <2>2, <2>3, <2>4 DEF CaseNext
  <1>3. CaseInv => CaseTellsItsStory
    BY StoryHolds
  <1> QED BY <1>1, <1>2, <1>3, PTL DEF CaseSpec

-----------------------------------------------------------------------------
\* The page that pays.

LEMMA DivUnique ==
    ASSUME NEW a \in Int, NEW b \in Int, NEW q \in Int, b > 0, q * b <= a, a < q * b + b
    PROVE  a \div b = q
  OBVIOUS

LEMMA RoundType ==
    ASSUME NEW n \in Nat, NEW d \in Nat, d > 0
    PROVE  Round(n, d) \in Nat
  <1> DEFINE a == 2 * n + d
             b == 2 * d
  <1>1. a \in Nat /\ b \in Nat /\ b > 0
    OBVIOUS
  <1> HIDE DEF a, b
  <1>2. a \div b \in Int /\ a < b * (a \div b) + b
    BY <1>1
  <1> DEFINE q == a \div b
  <1>3. q >= 0
    <2>1. a < b * q + b /\ q \in Int
      BY <1>2
    <2> HIDE DEF q
    <2>2. SUFFICES ASSUME q <= -1 PROVE FALSE
      BY <2>1
    <2>3. b * q <= -b
      BY <1>1, <2>1, <2>2
    <2> QED BY <1>1, <2>1, <2>3
  <1> QED BY <1>2, <1>3 DEF Round, a, b

\* Half a paisa at most is lost on the way to rupees.
LEMMA RoundBounds ==
    ASSUME NEW x \in Nat
    PROVE  /\ Round(x, 100) \in Nat
           /\ 200 * Round(x, 100) <= 2 * x + 100 /\ 2 * x + 100 < 200 * Round(x, 100) + 200
  BY DEF Round

\* A sum in cents, shown in rupees and divided by the rate again, is the sum.
LEMMA RoundTrip ==
    ASSUME NEW d \in Nat, NEW r \in Nat, r >= 100
    PROVE  Round(Round(d * r, 100) * 100, r) = d
  <1> DEFINE x == d * r
             p == Round(x, 100)
  <1>1. x \in Nat
    OBVIOUS
  <1>2. p \in Nat /\ 200 * p <= 2 * x + 100 /\ 2 * x + 100 < 200 * p + 200
    BY <1>1, RoundBounds
  <1>3. d * (2 * r) = 2 * x
    OBVIOUS
  <1>4. r = 100 => 2 * x = 200 * d
    OBVIOUS
  <1> HIDE DEF x, p
  <1>5. d * (2 * r) <= 2 * (p * 100) + r /\ 2 * (p * 100) + r < d * (2 * r) + 2 * r
    BY <1>1, <1>2, <1>3, <1>4
  <1>6. (2 * (p * 100) + r) \div (2 * r) = d
    BY <1>1, <1>2, <1>5, DivUnique
  <1> QED BY <1>6 DEF Round, p, x

OrderRow == [model : {"SPLIT", "ONE_TIME"}, currency : {"PKR", "USD"}, service : Nat,
             total : Nat, rate : Nat, paid : Nat, finalized : BOOLEAN]
FormRow == [form : {"pay", "topup"}, row : OrderRow, method : PayMethods, credit : Nat,
            receipt : BOOLEAN, busy : {"no", "receipt", "claim", "wallet"}, amount : Nat]

\* What intake settles of a ticket.
PricedOrder(t) ==
    /\ t \in OrderRow
    /\ t.currency = "USD" => t.model = "ONE_TIME"
    /\ t.rate = 0 \/ t.rate >= 100
    /\ t.model = "SPLIT" /\ ~t.finalized /\ t.total > 0 => t.service > 0
    /\ t.paid <= t.total \/ t.paid <= t.service

\* Row t shows ticket o as it is or as it was.
Shows(t, o) ==
    /\ t \in OrderRow
    /\ t.model = o.model /\ t.currency = o.currency /\ t.service = o.service /\ t.rate = o.rate
    /\ t.paid <= o.paid
    /\ t.finalized => o.finalized
    /\ t.finalized = o.finalized => t.total = o.total

GoodPage(p, o) == p = Closed \/ (p \in FormRow /\ Shows(p.row, o))
GoodClaim(c) ==
    /\ c.row \in OrderRow /\ c.amount \in Nat
    /\ c.form = "pay" /\ c.kept => c.amount = computeDueNow(c.row)

\* The inductive invariant.
PayInv ==
    /\ PricedOrder(order)
    /\ credit \in Nat
    /\ GoodPage(page, order)
    /\ \A c \in claims : GoodClaim(c)

LEMMA DueType ==
    ASSUME NEW t \in OrderRow
    PROVE  dueNow(t) \in Int /\ computeDueNow(t) \in Nat /\ computeFullUpfrontAmount(t) \in Nat
  <1>1. t.service \in Nat /\ t.total \in Nat /\ t.paid \in Nat
    BY DEF OrderRow
  <1> QED BY <1>1 DEF dueNow, computeDueNow, computeFullUpfrontAmount, Floor0

LEMMA FieldType ==
    ASSUME NEW t \in OrderRow, NEW method PROVE computeAmountField(t, method) \in Nat
  <1>1. computeDueNow(t) \in Nat /\ t.rate \in Nat
    BY DueType DEF OrderRow
  <1> DEFINE d == computeDueNow(t)
             x == d * t.rate
  <1>2. x \in Nat
    BY <1>1
  <1> HIDE DEF d
  <1>3. Round(x, 100) \in Nat
    BY <1>2, RoundBounds
  <1> QED BY <1>1, <1>3 DEF computeAmountField, d

\* A payment of a ticket.
LEMMA PaidOrder ==
    ASSUME NEW t \in OrderRow, NEW x \in Nat
    PROVE  LET p == Pay(t, x)
           IN  /\ p \in OrderRow
               /\ p.paid = t.paid + x
               /\ p.model = t.model /\ p.currency = t.currency /\ p.service = t.service
               /\ p.total = t.total /\ p.rate = t.rate /\ p.finalized = t.finalized
  BY DEF Pay, OrderRow

LEMMA ShowsPaid ==
    ASSUME NEW t, NEW o \in OrderRow, Shows(t, o), NEW x \in Nat
    PROVE  Shows(t, Pay(o, x))
  <1>1. o.paid \in Nat /\ t.paid \in Nat
    BY DEF Shows, OrderRow
  <1> DEFINE p == Pay(o, x)
  <1>2. /\ p.paid = o.paid + x
        /\ p.model = o.model /\ p.currency = o.currency /\ p.service = o.service
        /\ p.total = o.total /\ p.rate = o.rate /\ p.finalized = o.finalized
    BY PaidOrder
  <1> HIDE DEF p
  <1>3. Shows(t, p)
    BY <1>1, <1>2 DEF Shows
  <1> QED BY <1>3 DEF p

\* A step that pays x of the ticket.
LEMMA PaymentStep ==
    ASSUME PayInv, NEW x \in Nat, order' = Pay(order, x), credit' \in Nat,
           order.paid + x <= order.total \/ order.paid + x <= order.service,
           GoodPage(page', order), claims' \subseteq claims
    PROVE  PayInv'
  <1>1. order \in OrderRow
    BY DEF PayInv, PricedOrder
  <1> DEFINE o == Pay(order, x)
             p == page'
  <1>2. /\ o \in OrderRow /\ o.paid = order.paid + x
        /\ o.model = order.model /\ o.currency = order.currency /\ o.service = order.service
        /\ o.total = order.total /\ o.rate = order.rate /\ o.finalized = order.finalized
    BY <1>1, PaidOrder
  <1>3. p \in FormRow /\ Shows(p.row, order) => Shows(p.row, o)
    BY <1>1, ShowsPaid
  <1>4. order' = o
    OBVIOUS
  <1> HIDE DEF o
  <1>5. PricedOrder(o)
    BY <1>2 DEF PayInv, PricedOrder
  <1>6. GoodPage(p, o)
    BY <1>3 DEF GoodPage
  <1>7. \A c \in claims' : GoodClaim(c)
    BY DEF PayInv
  <1> QED BY <1>4, <1>5, <1>6, <1>7 DEF PayInv

\* A step of the page alone.
LEMMA PageStep ==
    ASSUME PayInv, NEW p, page' = p, GoodPage(p, order), order' = order, credit' = credit,
           claims' = claims
    PROVE  PayInv'
  BY DEF PayInv

LEMMA OpensWell ==
    ASSUME NEW form \in {"pay", "topup"}, NEW t, PricedOrder(t), NEW method \in PayMethods
    PROVE  GoodPage(OpenForm(form, t, method), t)
  <1>1. t \in OrderRow
    BY DEF PricedOrder
  <1>2. computeAmountField(t, method) \in Nat
    BY <1>1, FieldType
  <1> DEFINE p == OpenForm(form, t, method)
  <1>3. p \in FormRow /\ p.row = t
    BY <1>1, <1>2 DEF OpenForm, FormRow
  <1>4. Shows(t, t)
    BY <1>1 DEF Shows, OrderRow
  <1> QED BY <1>3, <1>4 DEF GoodPage

\* What a consumer does on the page.
LEMMA PageInv ==
    ASSUME PayInv,
           \/ \E method \in PayMethods : OpenPage(method) \/ OpenTopup(method)
                                         \/ ChooseMethod(method)
           \/ \E n \in TypedAmounts : TypeAmount(n)
           \/ CreditAnswered \/ PayUpfront \/ AttachReceipt \/ handleSubmit \/ ReceiptAnswered
           \/ LeavePage \/ handlePayFromWallet
    PROVE  PayInv'
  <1>1. /\ PricedOrder(order) /\ order \in OrderRow /\ credit \in Nat
        /\ page = Closed \/ (page \in FormRow /\ Shows(page.row, order) /\ page.row \in OrderRow)
    BY DEF PayInv, PricedOrder, GoodPage, Shows
  <1>2. CASE \E method \in PayMethods : OpenPage(method) \/ OpenTopup(method)
    <2>1. PICK method \in PayMethods, form \in {"pay", "topup"} :
            /\ page' = OpenForm(form, order, method)
            /\ order' = order /\ credit' = credit /\ claims' = claims
      BY <1>2 DEF OpenPage, OpenTopup
    <2> QED BY <1>1, <2>1, OpensWell, PageStep
  <1>3. CASE LeavePage
    <2>1. page' = Closed /\ order' = order /\ credit' = credit /\ claims' = claims
      BY <1>3 DEF LeavePage, OnPage
    <2> QED BY <2>1, PageStep DEF GoodPage
  <1>4. ASSUME page # Closed, NEW p \in FormRow, p.row = page.row, OnPage(p) PROVE PayInv'
    <2>1. page' = p /\ order' = order /\ credit' = credit /\ claims' = claims
      BY <1>4 DEF OnPage
    <2> QED BY <1>1, <1>4, <2>1, PageStep DEF GoodPage
  <1>5. CASE \E method \in PayMethods : ChooseMethod(method)
    <2>1. PICK method \in PayMethods : ChooseMethod(method)
      BY <1>5
    <2>2. page # Closed /\ page \in FormRow /\ page.row \in OrderRow
      BY <1>1, <2>1 DEF ChooseMethod, FormIdle
    <2> DEFINE n == IF page.form = "pay" THEN computeAmountField(page.row, method)
                    ELSE page.amount
               a == [page EXCEPT !.method = method]
               p == [a EXCEPT !.amount = n]
    <2>3. n \in Nat
      BY <2>2, FieldType DEF FormRow
    <2>4. a \in FormRow /\ a.row = page.row
      BY <2>2 DEF FormRow
    <2>5. OnPage(p)
      BY <2>1, Zenon DEF ChooseMethod
    <2> HIDE DEF a, n
    <2>6. p \in FormRow /\ p.row = page.row
      BY <2>3, <2>4 DEF FormRow
    <2> QED BY <1>4, <2>2, <2>5, <2>6
  <1>6. CASE \E n \in TypedAmounts : TypeAmount(n)
    <2>1. PICK n \in Nat : page # Closed /\ OnPage([page EXCEPT !.amount = n])
      BY <1>6, PayAssumption DEF TypeAmount, FormIdle
    <2> DEFINE p == [page EXCEPT !.amount = n]
    <2>2. p \in FormRow /\ p.row = page.row
      BY <1>1, <2>1 DEF FormRow
    <2>3. OnPage(p)
      BY <2>1
    <2> HIDE DEF p
    <2> QED BY <1>4, <2>1, <2>2, <2>3
  <1>7. CASE CreditAnswered
    <2> DEFINE p == [page EXCEPT !.credit = credit]
    <2>1. page # Closed /\ OnPage(p)
      BY <1>7 DEF CreditAnswered
    <2>2. p \in FormRow /\ p.row = page.row
      BY <1>1, <2>1 DEF FormRow
    <2> HIDE DEF p
    <2> QED BY <1>4, <2>1, <2>2
  <1>8. CASE PayUpfront
    <2> DEFINE n == computeFullUpfrontAmount(page.row)
               p == [page EXCEPT !.amount = n]
    <2>1. page # Closed /\ OnPage(p)
      BY <1>8 DEF PayUpfront, FormIdle
    <2>2. n \in Nat
      BY <1>1, <2>1, DueType
    <2> HIDE DEF n
    <2>3. p \in FormRow /\ p.row = page.row
      BY <1>1, <2>1, <2>2 DEF FormRow
    <2> HIDE DEF p
    <2> QED BY <1>4, <2>1, <2>3
  <1>9. CASE AttachReceipt
    <2> DEFINE p == [page EXCEPT !.receipt = TRUE]
    <2>1. page # Closed /\ OnPage(p)
      BY <1>9 DEF AttachReceipt, FormIdle
    <2>2. p \in FormRow /\ p.row = page.row
      BY <1>1, <2>1 DEF FormRow
    <2> HIDE DEF p
    <2> QED BY <1>4, <2>1, <2>2
  <1>10. CASE handleSubmit \/ ReceiptAnswered \/ handlePayFromWallet
    <2>1. PICK b \in {"no", "receipt", "claim", "wallet"} :
            page # Closed /\ OnPage([page EXCEPT !.busy = b])
      BY <1>10 DEF handleSubmit, ReceiptAnswered, handlePayFromWallet, FormIdle
    <2> DEFINE p == [page EXCEPT !.busy = b]
    <2>2. p \in FormRow /\ p.row = page.row
      BY <1>1, <2>1 DEF FormRow
    <2>3. OnPage(p)
      BY <2>1
    <2> HIDE DEF p
    <2> QED BY <1>4, <2>1, <2>2, <2>3
  <1> QED BY <1>2, <1>3, <1>5, <1>6, <1>7, <1>8, <1>9, <1>10

\* What is stored of a claim.
LEMMA ClaimIsGood ==
    ASSUME PayInv, page # Closed, NEW n,
           n \in (IF page.form = "pay" THEN resolveTopupAmount(order, page.amount, page.method)
                  ELSE {page.amount})
    PROVE  GoodClaim(Claim(n))
  <1>1. /\ PricedOrder(order) /\ order \in OrderRow /\ page \in FormRow
        /\ Shows(page.row, order) /\ page.row \in OrderRow
    BY DEF PayInv, PricedOrder, GoodPage, Shows
  <1>2. page.amount \in Nat /\ order.rate \in Nat /\ page.row.rate = order.rate
        /\ page.row.currency = order.currency
    BY <1>1 DEF FormRow, OrderRow, Shows
  <1> DEFINE filled == computeAmountField(page.row, page.method)
             d == computeDueNow(page.row)
  <1>3. d \in Nat
    BY <1>1, DueType
  <1>4. n \in Nat /\ (page.form = "pay" /\ page.amount = filled => n = d)
    <2>1. CASE page.form # "pay" \/ ~(order.currency = "USD" /\ isPkrRail(page.method))
      <3>1. n = page.amount
        BY <2>1 DEF resolveTopupAmount
      <3>2. page.form = "pay" => filled = d
        BY <1>2, <2>1 DEF computeAmountField
      <3> QED BY <1>2, <3>1, <3>2
    <2>2. CASE page.form = "pay" /\ order.currency = "USD" /\ isPkrRail(page.method)
      <3>1. order.rate # 0 /\ n = Round(page.amount * 100, order.rate)
        BY <2>2 DEF resolveTopupAmount
      <3>2. order.rate >= 100
        BY <1>1, <3>1 DEF PricedOrder
      <3>3. filled = Round(d * order.rate, 100)
        BY <1>2, <2>2, <3>1 DEF computeAmountField
      <3>4. n \in Nat
        <4>1. page.amount * 100 \in Nat
          BY <1>2
        <4> QED BY <1>2, <3>1, <3>2, <4>1, RoundType
      <3> HIDE DEF d
      <3>5. Round(Round(d * order.rate, 100) * 100, order.rate) = d
        BY <1>2, <1>3, <3>2, RoundTrip
      <3> HIDE DEF filled
      <3> QED BY <3>1, <3>3, <3>4, <3>5
    <2> QED BY <2>1, <2>2
  <1> DEFINE kept == page.amount = filled
             c == Claim(n)
  <1>5. c.row = page.row /\ c.amount = n /\ c.form = page.form /\ (c.kept <=> kept)
    BY DEF Claim
  <1> HIDE DEF c
  <1>6. GoodClaim(c)
    BY <1>1, <1>4, <1>5 DEF GoodClaim
  <1> QED BY <1>6 DEF c

\* The answer to a claim.
LEMMA TopupInv == ASSUME PayInv, TopupAnswered PROVE PayInv'
  <1> DEFINE credited == IF page.form = "pay"
                           THEN resolveTopupAmount(order, page.amount, page.method)
                           ELSE {page.amount}
             new == {Claim(n) : n \in credited}
             again == [page EXCEPT !.busy = "no"]
  <1>1. /\ page # Closed /\ claims' = claims \cup new
        /\ page' = Closed \/ page' = again
        /\ order' = order /\ credit' = credit
    BY DEF TopupAnswered
  <1>2. \A c \in new : GoodClaim(c)
    BY <1>1, ClaimIsGood
  <1>3. page \in FormRow /\ Shows(page.row, order)
    BY <1>1 DEF PayInv, GoodPage
  <1>4. again \in FormRow /\ again.row = page.row
    BY <1>3 DEF FormRow
  <1>5. GoodPage(Closed, order) /\ GoodPage(again, order)
    BY <1>3, <1>4 DEF GoodPage
  <1>6. credit \in Nat
    BY DEF PayInv
  <1> HIDE DEF new, again
  <1>7. PayInv'
    <2>1. page' \in {Closed, again} /\ GoodPage(page', order)
      BY <1>1, <1>5
    <2> QED BY <1>1, <1>2, <1>6, <2>1 DEF PayInv
  <1> QED BY <1>7

\* What the settlement takes is within the balance and the total.
LEMMA SettledType ==
    ASSUME order \in OrderRow, NEW b \in Nat
    PROVE  /\ settled(b) \in Nat /\ settled(b) <= b
           /\ settled(b) = 0 \/ order.paid + settled(b) <= order.total
           /\ order.total > 0 => \/ settled(b) = b
                                 \/ order.paid + settled(b) >= order.total
  <1>1. order.total \in Nat /\ order.paid \in Nat
    BY DEF OrderRow
  <1> QED BY <1>1 DEF settled, Lesser, Floor0

\* The wallet pays, by the page, a verification or the settlement of a finalization.
LEMMA SettleInv ==
    ASSUME PayInv, NEW b \in Nat, order' = Pay(order, settled(b)), credit' = b - settled(b),
           page' = page, claims' \subseteq claims
    PROVE  PayInv'
  <1>1. PricedOrder(order) /\ order \in OrderRow /\ GoodPage(page, order)
    BY DEF PayInv, PricedOrder
  <1> DEFINE x == settled(b)
  <1>2. x \in Nat /\ x <= b /\ (x = 0 \/ order.paid + x <= order.total)
    BY <1>1, SettledType
  <1>3. order' = Pay(order, x) /\ credit' = b - x
    OBVIOUS
  <1> HIDE DEF x
  <1>4. order.paid + x <= order.total \/ order.paid + x <= order.service
    BY <1>1, <1>2 DEF PricedOrder, OrderRow
  <1>5. credit' \in Nat
    BY <1>2, <1>3
  <1>6. GoodPage(page', order)
    BY <1>1
  <1> QED BY <1>1, <1>2, <1>3, <1>4, <1>5, <1>6, PaymentStep

LEMMA WalletInv == ASSUME PayInv, WalletAnswered PROVE PayInv'
  <1>1. /\ PricedOrder(order) /\ order \in OrderRow /\ credit \in Nat /\ GoodPage(page, order)
        /\ page # Closed /\ claims' = claims
    BY DEF PayInv, PricedOrder, WalletAnswered
  <1>2. CASE /\ dueNow(order) > 0 /\ credit > 0 /\ page' = Closed
             /\ order' = Pay(order, payTicketFromWallet) /\ credit' = credit - payTicketFromWallet
    <2> DEFINE x == payTicketFromWallet
    <2>1. x \in Nat /\ x <= credit /\ x <= dueNow(order)
      BY <1>1, <1>2, DueType DEF payTicketFromWallet, Lesser
    <2>2. order.paid + x <= order.total \/ order.paid + x <= order.service
      <3> HIDE DEF x
      <3> QED BY <1>1, <2>1 DEF dueNow, OrderRow
    <2>3. order' = Pay(order, x) /\ credit' = credit - x
      BY <1>2
    <2> HIDE DEF x
    <2>4. credit' \in Nat
      BY <1>1, <2>1, <2>3
    <2>5. claims' \subseteq claims /\ GoodPage(page', order)
      BY <1>1, <1>2 DEF GoodPage
    <2> QED BY <2>1, <2>2, <2>3, <2>4, <2>5, PaymentStep
  <1>3. CASE page' = [page EXCEPT !.busy = "no"] /\ UNCHANGED <<order, credit>>
    <2> DEFINE p == [page EXCEPT !.busy = "no"]
    <2>1. page \in FormRow /\ Shows(page.row, order)
      BY <1>1 DEF GoodPage
    <2>2. p \in FormRow /\ p.row = page.row
      BY <2>1 DEF FormRow
    <2>3. page' = p /\ order' = order /\ credit' = credit
      BY <1>3
    <2> HIDE DEF p
    <2>4. GoodPage(p, order)
      BY <2>1, <2>2 DEF GoodPage
    <2> QED BY <1>1, <2>3, <2>4, PageStep
  <1> QED BY <1>2, <1>3 DEF WalletAnswered

\* The review adds the remainder.
LEMMA FinalizeInv ==
    ASSUME PayInv, NEW charge \in FinalCharges, FinalizeOrder(charge) PROVE PayInv'
  <1> DEFINE a == [order EXCEPT !.finalized = TRUE]
             o == [a EXCEPT !.total = order.total + charge]
  <1>1. /\ PricedOrder(order) /\ order \in OrderRow /\ GoodPage(page, order) /\ charge \in Nat
    BY PayAssumption DEF PayInv, PricedOrder
  <1>2. /\ ~order.finalized /\ order.model = "SPLIT"
        /\ credit' = credit /\ page' = page /\ claims' = claims
    BY DEF FinalizeOrder
  <1>3. order' = [order EXCEPT !.finalized = TRUE, !.total = order.total + charge]
    BY DEF FinalizeOrder
  <1>4. order' = o
    BY <1>3, Zenon
  <1>5. /\ a \in OrderRow /\ a.finalized /\ a.total = order.total /\ a.paid = order.paid
        /\ a.model = order.model /\ a.currency = order.currency /\ a.service = order.service
        /\ a.rate = order.rate
    BY <1>1 DEF OrderRow
  <1>6. order.total + charge \in Nat
    BY <1>1 DEF OrderRow
  <1> HIDE DEF a
  <1>7. /\ o \in OrderRow /\ o.finalized /\ o.total = order.total + charge /\ o.paid = order.paid
        /\ o.model = order.model /\ o.currency = order.currency /\ o.service = order.service
        /\ o.rate = order.rate
    BY <1>5, <1>6 DEF OrderRow
  <1> HIDE DEF o
  <1>8. PricedOrder(o)
    BY <1>1, <1>7 DEF PricedOrder, OrderRow
  <1>9. ASSUME NEW t, Shows(t, order), t \in OrderRow PROVE Shows(t, o)
    <2>1. CASE t.finalized
      BY <1>2, <1>9, <2>1 DEF Shows
    <2>2. CASE ~t.finalized
      <3>1. t.finalized = order.finalized
        BY <1>1, <1>2, <1>9, <2>2 DEF OrderRow
      <3> QED BY <1>7, <1>9, <2>2, <3>1 DEF Shows
    <2> QED BY <2>1, <2>2
  <1>10. GoodPage(page, o)
    BY <1>1, <1>9 DEF GoodPage, Shows
  <1> QED BY <1>2, <1>4, <1>8, <1>10 DEF PayInv

LEMMA PayStart == PayInit => PayInv
  <1> SUFFICES ASSUME PayInit PROVE PayInv
    OBVIOUS
  <1>1. PICK k \in PayKinds :
          order = [model |-> k.model, currency |-> k.currency, service |-> k.service,
                   total |-> k.total, rate |-> k.rate, paid |-> 0, finalized |-> FALSE]
    BY DEF PayInit
  <1>2. /\ k \in [model : {"SPLIT", "ONE_TIME"}, currency : {"PKR", "USD"}, service : Nat,
                  total : Nat, rate : Nat]
        /\ k.currency = "USD" => k.model = "ONE_TIME"
        /\ k.rate = 0 \/ k.rate >= 100
        /\ k.model = "SPLIT" /\ k.total > 0 => k.service > 0
    BY <1>1, PayAssumption
  <1>3. PricedOrder(order)
    BY <1>1, <1>2 DEF PricedOrder, OrderRow
  <1>4. credit \in Nat /\ page = Closed /\ claims = {}
    BY PayAssumption DEF PayInit
  <1> QED BY <1>3, <1>4 DEF PayInv, GoodPage

LEMMA PayStep == PayInv /\ [PayNext]_payVars => PayInv'
  <1> SUFFICES ASSUME PayInv, [PayNext]_payVars PROVE PayInv'
    OBVIOUS
  <1>1. credit \in Nat /\ order \in OrderRow /\ \A c \in claims : c.amount \in Nat
    BY DEF PayInv, PricedOrder, GoodClaim
  <1>2. CASE \E c \in claims : VerifyClaim(c)
    <2>1. PICK c \in claims : VerifyClaim(c)
      BY <1>2
    <2> DEFINE b == credit + c.amount
               x == settled(b)
    <2>2. /\ order' = Pay(order, x) /\ credit' = credit + (c.amount - x)
          /\ page' = page /\ claims' = claims \ {c}
      BY <2>1 DEF VerifyClaim
    <2>3. b \in Nat /\ credit \in Nat /\ c.amount \in Nat
      BY <1>1
    <2>4. x \in Nat
      <3> HIDE DEF b
      <3> QED BY <1>1, <2>3, SettledType
    <2>5. credit' = b - x
      <3> HIDE DEF x
      <3> QED BY <2>2, <2>3, <2>4
    <2>6. claims' \subseteq claims
      BY <2>2
    <2> HIDE DEF b
    <2> QED BY <2>2, <2>3, <2>5, <2>6, SettleInv
  <1>3. CASE \E c \in claims : RejectClaim(c)
    BY <1>3 DEF RejectClaim, PayInv
  <1>4. CASE SettleOrder
    <2>1. order' = Pay(order, settled(credit)) /\ credit' = credit - settled(credit)
          /\ page' = page /\ claims' = claims
      BY <1>4 DEF SettleOrder
    <2> QED BY <1>1, <2>1, SettleInv
  <1>5. CASE UNCHANGED payVars
    BY <1>5 DEF payVars, PayInv
  <1> QED BY <1>2, <1>3, <1>4, <1>5, PageInv, TopupInv, WalletInv, FinalizeInv DEF PayNext

LEMMA PrefillIsDue == PayInv => PrefillCreditsDue
  BY DEF PayInv, GoodClaim, PrefillCreditsDue

LEMMA OffersAreDue == PayInv => OfferedIsDue
  <1> SUFFICES ASSUME PayInv PROVE OfferedIsDue
    OBVIOUS
  <1>1. PricedOrder(order) /\ order.model \in {"SPLIT", "ONE_TIME"} /\ order.finalized \in BOOLEAN
        /\ order.service \in Nat /\ order.total \in Nat /\ order.paid \in Nat
    BY DEF PayInv, PricedOrder, OrderRow
  <1> QED BY <1>1 DEF PricedOrder, OfferedIsDue, showPayNow, showFinalPayment, fullyPaid, dueNow

LEMMA NothingOverpaid == PayInv => NeverOverpaid
  BY DEF PayInv, PricedOrder, NeverOverpaid

LEMMA ClaimsSettle == PayInv => ClaimSettles
  <1> SUFFICES ASSUME PayInv, NEW c \in claims, VerifyClaim(c), c.form = "pay", c.kept,
                      c.row = order, order.total > 0
               PROVE  dueNow(order') <= 0 \/ fullyPaid(order')
    BY DEF ClaimSettles
  <1>1. order \in OrderRow /\ credit \in Nat /\ c.amount = computeDueNow(order)
    BY DEF PayInv, PricedOrder, GoodClaim
  <1>2. c.amount \in Nat /\ c.amount >= dueNow(order)
    BY <1>1, DueType DEF computeDueNow, Floor0
  <1> DEFINE b == credit + c.amount
             x == settled(b)
             o == Pay(order, x)
  <1>3. b \in Nat /\ b >= dueNow(order)
    BY <1>1, <1>2, DueType
  <1>4. order' = o
    BY DEF VerifyClaim
  <1> HIDE DEF b
  <1>5. x \in Nat /\ (x = b \/ order.paid + x >= order.total)
    BY <1>1, <1>3, SettledType
  <1> HIDE DEF x
  <1>6. /\ o.paid = order.paid + x /\ o.model = order.model /\ o.service = order.service
        /\ o.total = order.total /\ o.finalized = order.finalized
    BY <1>1, <1>5, PaidOrder
  <1> HIDE DEF o
  <1>7. /\ order.service \in Nat /\ order.total \in Nat /\ order.paid \in Nat
    BY <1>1 DEF OrderRow
  <1>8. dueNow(o) <= 0 \/ fullyPaid(o)
    BY <1>3, <1>5, <1>6, <1>7 DEF dueNow, fullyPaid
  <1> QED BY <1>4, <1>8

LEMMA ShownIsPaid == PayInv /\ [PayNext]_payVars => NoMoreThanShown
  <1> SUFFICES ASSUME PayInv, [PayNext]_payVars, page # Closed, page.busy = "wallet",
                      order' # order, page' = Closed
               PROVE  LET shown == Lesser(page.credit, computeDueNow(page.row))
                          applied == order'.paid - order.paid
                      IN  /\ page.row.finalized = order.finalized
                               => applied =< Lesser(credit, computeDueNow(page.row))
                          /\ page.row = order /\ page.credit = credit => applied = shown
    BY DEF NoMoreThanShown
  <1>1. WalletAnswered
    BY DEF PayNext, payVars, OpenPage, OpenTopup, ChooseMethod, TypeAmount, CreditAnswered,
           PayUpfront, AttachReceipt, handleSubmit, ReceiptAnswered, LeavePage, TopupAnswered,
           handlePayFromWallet, VerifyClaim, RejectClaim, FinalizeOrder, SettleOrder, OnPage
  <1>2. /\ dueNow(order) > 0 /\ credit > 0
        /\ order' = Pay(order, payTicketFromWallet)
    BY <1>1 DEF WalletAnswered
  <1>3. /\ order \in OrderRow /\ credit \in Nat /\ page \in FormRow /\ Shows(page.row, order)
        /\ page.row \in OrderRow
    BY DEF PayInv, PricedOrder, GoodPage, Shows
  <1> DEFINE x == payTicketFromWallet
             o == Pay(order, x)
             d == computeDueNow(page.row)
  <1>4. x \in Nat /\ x = Lesser(credit, dueNow(order))
    BY <1>2, <1>3, DueType DEF payTicketFromWallet, Lesser
  <1> HIDE DEF x
  <1>5. o.paid - order.paid = x
    <2>1. order \in OrderRow /\ x \in Nat
      BY <1>3, <1>4
    <2>2. o.paid = order.paid + x
      BY <2>1, PaidOrder
    <2>3. order.paid \in Nat
      BY <2>1 DEF OrderRow
    <2> QED BY <2>1, <2>2, <2>3
  <1>6. page.row.finalized = order.finalized => dueNow(order) <= d
    BY <1>3 DEF Shows, OrderRow, dueNow, computeDueNow, Floor0
  <1>7. page.row = order => dueNow(order) = d
    BY <1>2, <1>3, DueType DEF computeDueNow, Floor0
  <1>8. d \in Nat /\ dueNow(order) \in Int
    BY <1>3, DueType
  <1>9. order' = o
    BY <1>2 DEF x
  <1> HIDE DEF o, d
  <1>10. /\ page.row.finalized = order.finalized => x <= Lesser(credit, d)
         /\ page.row = order /\ page.credit = credit => x = Lesser(page.credit, d)
    BY <1>3, <1>4, <1>6, <1>7, <1>8 DEF Lesser
  <1> QED BY <1>5, <1>9, <1>10 DEF d

\* The consumer pays what is due and was shown: whatever the price, the rate and the amounts
\* typed, an amount left as the page filled it in is credited as the sum that was due and
\* settles the ticket, the wallet pays what its button said, what is offered is due and
\* nothing is overpaid (pay/page.tsx:45-306, wallet.service.ts:531-956).
THEOREM PaysDue == PaySpec => PaysWhatIsDue
  <1> DEFINE Good == PrefillCreditsDue /\ OfferedIsDue /\ NeverOverpaid
  <1>1. PayInit => PayInv
    BY PayStart
  <1>2. PayInv /\ [PayNext]_payVars => PayInv'
    BY PayStep
  <1>3. PayInv => Good
    BY PrefillIsDue, OffersAreDue, NothingOverpaid
  <1>4. PayInv /\ PayInv' /\ [PayNext]_payVars
          => [/\ PrefillCreditsDue' /\ OfferedIsDue' /\ NeverOverpaid'
              /\ ClaimSettles /\ NoMoreThanShown]_payVars
    <2> SUFFICES ASSUME PayInv, PayInv', [PayNext]_payVars
                 PROVE  /\ PrefillCreditsDue' /\ OfferedIsDue' /\ NeverOverpaid'
                        /\ ClaimSettles /\ NoMoreThanShown
      OBVIOUS
    <2>1. Good'
      BY <1>3, PTL
    <2> QED BY <2>1, ClaimsSettle, ShownIsPaid
  <1> QED BY <1>1, <1>2, <1>4, PTL DEF PaySpec, PaysWhatIsDue

-----------------------------------------------------------------------------
\* The price list and its resolver.

\* What the rows of the list are made of, whatever staff edit.
PriceInv ==
    \A r \in priceRules : /\ DOMAIN r = RuleField
                          /\ r.basePrice \in Nat /\ r.deliveryCharge \in Nat
                          /\ r.priority \in Nat

LEMMA NewRuleIs ==
    ASSUME NEW flow, NEW court, NEW set, NEW priority \in 0..1, NEW legacy
    PROVE  LET r == NewRule(flow, court, set, 50, priority, legacy) IN
           /\ DOMAIN r = RuleField /\ r.currency = "PKR"
           /\ r.basePrice \in Nat /\ r.deliveryCharge \in Nat /\ r.priority \in Nat
  BY DEF NewRule, RuleField

LEMMA UpdateKeeps ==
    ASSUME PriceInv, NEW r \in priceRules, NEW q, NEW set, NEW priority \in 0..1,
           NEW s \in Edited(r, q, set, priority)
    PROVE  /\ DOMAIN s = RuleField
           /\ s.basePrice \in Nat /\ s.deliveryCharge \in Nat /\ s.priority \in Nat
  BY DEF PriceInv, RuleField, Edited

LEMMA PriceStep == PriceInv /\ [PriceNext]_priceVars => PriceInv'
  <1> SUFFICES ASSUME PriceInv, [PriceNext]_priceVars PROVE PriceInv'
    OBVIOUS
  <1>1. CASE CreateRule
    <2>1. PICK q \in PriceRequests, set \in {NullDim, "attested"}, priority \in 0..1,
               legacy \in BOOLEAN :
             priceRules' = priceRules \cup {NewRule(q.flow, q.court, set, 50, priority, legacy)}
      BY <1>1 DEF CreateRule
    <2> DEFINE r == NewRule(q.flow, q.court, set, 50, priority, legacy)
    <2>2. /\ DOMAIN r = RuleField /\ r.currency = "PKR"
          /\ r.basePrice \in Nat /\ r.deliveryCharge \in Nat /\ r.priority \in Nat
      BY NewRuleIs
    <2>3. priceRules' = priceRules \cup {r}
      BY <2>1
    <2> HIDE DEF r
    <2> QED BY <2>2, <2>3 DEF PriceInv
  <1>2. CASE UpdateRule
    <2> PICK r \in priceRules, q \in PriceRequests, set \in {NullDim, "attested"},
             priority \in 0..1 :
               \E s \in Edited(r, q, set, priority) : priceRules' = (priceRules \ {r}) \cup {s}
      BY <1>2 DEF UpdateRule
    <2>1. PICK s \in Edited(r, q, set, priority) : priceRules' = (priceRules \ {r}) \cup {s}
      OBVIOUS
    <2>2. /\ DOMAIN s = RuleField
          /\ s.basePrice \in Nat /\ s.deliveryCharge \in Nat /\ s.priority \in Nat
      BY UpdateKeeps
    <2> QED BY <2>1, <2>2 DEF PriceInv
  <1>3. CASE RemoveRule
    <2>1. priceRules' \subseteq priceRules
      BY <1>3 DEF RemoveRule
    <2> QED BY <2>1 DEF PriceInv
  <1>4. CASE UpdateSettings \/ UNCHANGED priceVars
    BY <1>4 DEF UpdateSettings, priceVars, PriceInv
  <1> QED BY <1>1, <1>2, <1>3, <1>4 DEF PriceNext

\* The resolver takes the first tier that has a rule.
LEMMA TierIs ==
    ASSUME NEW q
    PROVE  /\ candidates(q) \subseteq priceRules
           /\ candidates(q) = {} =>
                strict(q) = {} /\ currentBand(q) = {} /\ noSetType(q) = {}
           /\ strict(q) # {} => candidates(q) = strict(q)
           /\ strict(q) = {} /\ currentBand(q) # {} => candidates(q) = currentBand(q)
  <1> DEFINE tiers == <<strict(q), currentBand(q), noSetType(q), yearRange(q)>>
             tried == {i \in 1..4 : tiers[i] # {}}
             first == CHOOSE i \in tried : \A j \in tried : i <= j
  <1>1. candidates(q) = IF tried = {} THEN {} ELSE tiers[first]
    BY DEF candidates
  <1>2. /\ strict(q) \subseteq priceRules /\ currentBand(q) \subseteq priceRules
        /\ noSetType(q) \subseteq priceRules /\ yearRange(q) \subseteq priceRules
    BY DEF strict, currentBand, noSetType, yearRange, lookup, inPlace, flowRules
  <1>3. /\ tiers[1] = strict(q) /\ tiers[2] = currentBand(q) /\ tiers[3] = noSetType(q)
        /\ tiers[4] = yearRange(q)
    OBVIOUS
  <1> HIDE DEF tiers
  <1>4. tried # {} => \E i \in tried : \A j \in tried : i <= j
    <2>1. tried \subseteq {1, 2, 3, 4}
      OBVIOUS
    <2>2. CASE 1 \in tried
      BY <2>1, <2>2
    <2>3. CASE 1 \notin tried /\ 2 \in tried
      BY <2>1, <2>3
    <2>4. CASE 1 \notin tried /\ 2 \notin tried /\ 3 \in tried
      BY <2>1, <2>4
    <2>5. CASE 1 \notin tried /\ 2 \notin tried /\ 3 \notin tried
      BY <2>1, <2>5
    <2> QED BY <2>2, <2>3, <2>4, <2>5
  <1>5. tried # {} => first \in tried /\ \A j \in tried : first <= j
    BY <1>4
  <1>6. tried \subseteq 1..4 /\ \A i \in 1..4 : i \in tried <=> tiers[i] # {}
    OBVIOUS
  <1> HIDE DEF tried, first
  <1>7. candidates(q) \subseteq priceRules
    <2>1. CASE tried = {}
      BY <1>1, <2>1
    <2>2. CASE tried # {}
      <3>1. first \in {1, 2, 3, 4} /\ candidates(q) = tiers[first]
        <4>1. first \in tried /\ candidates(q) = tiers[first]
          BY <1>1, <1>5, <2>2
        <4>2. tried \subseteq {1, 2, 3, 4}
          BY <1>6
        <4> QED BY <4>1, <4>2
      <3>2. \A i \in {1, 2, 3, 4} : tiers[i] \subseteq priceRules
        <4>1. /\ tiers[1] \subseteq priceRules /\ tiers[2] \subseteq priceRules
              /\ tiers[3] \subseteq priceRules /\ tiers[4] \subseteq priceRules
          BY <1>2, <1>3
        <4> QED BY <4>1
      <3> QED BY <3>1, <3>2
    <2> QED BY <2>1, <2>2
  <1>8. tried # {} => candidates(q) # {}
    BY <1>1, <1>5, <1>6
  <1>9. strict(q) # {} => candidates(q) = strict(q)
    <2> SUFFICES ASSUME strict(q) # {} PROVE candidates(q) = strict(q)
      OBVIOUS
    <2>1. 1 \in tried
      BY <1>3, <1>6
    <2>2. first = 1
      BY <1>5, <1>6, <2>1
    <2> QED BY <1>1, <1>3, <2>1, <2>2
  <1>10. strict(q) = {} /\ currentBand(q) # {} => candidates(q) = currentBand(q)
    <2> SUFFICES ASSUME strict(q) = {}, currentBand(q) # {} PROVE candidates(q) = currentBand(q)
      OBVIOUS
    <2>1. 1 \notin tried /\ 2 \in tried
      BY <1>3, <1>6
    <2>2. first \in 1..4 /\ first <= 2 /\ first # 1
      BY <1>5, <1>6, <2>1
    <2>3. first = 2
      BY <2>2
    <2> QED BY <1>1, <1>3, <2>1, <2>3
  <1> QED BY <1>3, <1>6, <1>7, <1>8, <1>9, <1>10

\* The arithmetic of one rule.
LEMMA SurchargeIs ==
    ASSUME NEW status, NEW y \in Nat
    PROVE  computeDecidedAgeSurcharge(status, y) \in Int
  <1>1. currentYear \in Nat
    BY PriceAssumption
  <1> QED BY <1>1 DEF computeDecidedAgeSurcharge

LEMMA PartsOfRule ==
    ASSUME NEW q, q.year \in Nat, q.cities \in Nat,
           NEW r, r.basePrice \in Nat, r.deliveryCharge \in Nat
    PROVE  priced(q, r).total = priced(q, r).service + priced(q, r).delivery
  <1>1. CASE q.currency = "USD"
    BY <1>1 DEF priced
  <1>2. CASE q.currency # "USD"
    <2> DEFINE search == q.flow = "judicial_case_search"
               base == IF search THEN computeCaseSearchBase(q.year)
                       ELSE IF caseInfoBundleBase(q) > 0 THEN caseInfoBundleBase(q)
                            ELSE r.basePrice
               fee == IF isPhysicalDeliveryFlow(q.flow) /\ q.courier THEN 100 ELSE 0
               static == IF isPhysicalDeliveryFlow(q.flow) THEN r.deliveryCharge ELSE 0
               extras == (IF q.stateVs THEN 1000 ELSE 0)
                           + (IF search THEN 0 ELSE computeDecidedAgeSurcharge(q.status, q.year))
                           + (IF q.wantPdf THEN 300 ELSE 0)
               both == IF search /\ q.searchBoth THEN 1000 ELSE 0
               count == IF search /\ q.cities > 1 THEN q.cities ELSE 1
               block == base + extras + both + fee
    <2>1. base \in Int
      <3>1. computeCaseSearchBase(q.year) \in Int
        BY PriceAssumption DEF computeCaseSearchBase, CASE_SEARCH_PER_YEAR_RATE
      <3>2. caseInfoBundleBase(q) \in Int
        <4>1. CASE_INFO_BUNDLE_BASE(q.region, q.docBundle) \in Int
          BY DEF CASE_INFO_BUNDLE_BASE
        <4> QED BY <4>1 DEF caseInfoBundleBase
      <3> QED BY <3>1, <3>2
    <2>2. computeDecidedAgeSurcharge(q.status, q.year) \in Int
      BY SurchargeIs
    <2>3. extras \in Int
      BY <2>2
    <2>4. fee \in Int /\ static \in Int /\ both \in Int /\ count \in Int
      OBVIOUS
    <2>5. isSplit(q.flow) => ~search
      BY DEF isSplit
    <2>6. /\ priced(q, r).total = block * count + static
          /\ priced(q, r).delivery = static + fee
          /\ priced(q, r).service = IF isSplit(q.flow) THEN base + extras ELSE block * count
      BY <1>2 DEF priced, serviceCost
    <2>7. /\ isSplit(q.flow) => both = 0 /\ count = 1
          /\ ~isSplit(q.flow) => fee = 0
      BY <2>5 DEF isPhysicalDeliveryFlow
    <2> HIDE DEF base, fee, static, extras, both, count
    <2>8. block * count \in Int
      BY <2>1, <2>3, <2>4
    <2>9. CASE isSplit(q.flow)
      <3>1. block * count = base + extras + fee
        BY <2>1, <2>3, <2>4, <2>7, <2>9
      <3> QED BY <2>1, <2>3, <2>4, <2>6, <2>9, <3>1
    <2>10. CASE ~isSplit(q.flow)
      <3> HIDE DEF block
      <3> QED BY <2>4, <2>6, <2>7, <2>8, <2>10
    <2> QED BY <2>9, <2>10
  <1> QED BY <1>1, <1>2

LEMMA PartsAdd == PriceInv => PartsMakeTotal
  <1> SUFFICES ASSUME PriceInv, NEW q \in PriceRequests, NEW answer \in resolve(q),
                      answer.available
               PROVE  answer.price.total = answer.price.service + answer.price.delivery
    BY DEF PartsMakeTotal
  <1>1. candidates(q) # {} /\ candidates(q) \subseteq priceRules
    BY TierIs DEF resolve
  <1>2. PICK r \in best(candidates(q)) : answer.price = priced(q, r)
    BY <1>1 DEF resolve
  <1>3. r \in priceRules
    BY <1>1 DEF best
  <1>4. priced(q, r).total = priced(q, r).service + priced(q, r).delivery
    BY <1>3, PartsOfRule, PriceAssumption DEF PriceInv
  <1> QED BY <1>2, <1>4

LEMMA OffersPriced == PriceInv => OfferedIsPriced
  <1> SUFFICES ASSUME PriceInv, NEW q \in PriceRequests, q.setType # NullDim,
                      q.currency = "USD" => FlatList(priceRules),
                      TRUE \in availabilityFor(q, q.setType), NEW answer \in resolve(q)
               PROVE  answer.matched
    BY DEF OfferedIsPriced
  <1> DEFINE band == requestedYearBand(q)
             own == lookup(q, q.setType, {band})
             later == lookup(q, q.setType, {"current"})
             plain == lookup(q, NullDim, {band, "current"})
  <1>1. own # {} \/ later # {} \/ plain # {}
    BY DEF availabilityFor, best
  <1>2. strict(q) # {} \/ currentBand(q) # {} \/ noSetType(q) # {}
    <2>1. CASE q.currency = "USD"
      <3>1. own = {} /\ later = {}
        BY <2>1 DEF lookup, inPlace, flowRules, FlatList
      <3>2. PICK r \in plain : TRUE
        BY <1>1, <3>1
      <3>3. r \in lookup(q, NullDim, {band}) \/ r \in lookup(q, NullDim, {"current"})
        BY DEF lookup
      <3>4. requestedSetType(q) = NullDim
        BY <2>1 DEF requestedSetType
      <3> QED BY <3>3, <3>4 DEF strict, currentBand
    <2>2. CASE q.currency # "USD"
      <3>1. requestedSetType(q) = q.setType
        BY <2>2 DEF requestedSetType
      <3> QED BY <1>1, <3>1 DEF strict, currentBand, noSetType
    <2> QED BY <2>1, <2>2
  <1>3. candidates(q) # {}
    BY <1>2, TierIs
  <1>4. PICK r : answer = IF r.availability
                          THEN [matched |-> TRUE, available |-> TRUE, price |-> priced(q, r)]
                          ELSE [matched |-> TRUE, available |-> FALSE]
    BY <1>3 DEF resolve
  <1> QED BY <1>4

LEMMA UsdDetermined == PriceInv => UsdPriceDetermined
  <1> SUFFICES ASSUME PriceInv, FlatList(priceRules), NEW q \in PriceRequests, q.currency = "USD",
                      strict(q) \cup currentBand(q) # {}
               PROVE  Cardinality(resolve(q)) = 1
    BY DEF UsdPriceDetermined
  <1> DEFINE C == candidates(q)
  <1>1. requestedSetType(q) = NullDim
    BY DEF requestedSetType
  <1>2. PICK b : C = lookup(q, NullDim, {b}) /\ C # {}
    <2>1. CASE strict(q) # {}
      BY <1>1, <2>1, TierIs DEF strict
    <2>2. CASE strict(q) = {}
      BY <1>1, <2>2, TierIs DEF currentBand
    <2> QED BY <2>1, <2>2
  <1>3. \A r, s \in C : r = s
    <2> SUFFICES ASSUME NEW r \in C, NEW s \in C PROVE r = s
      OBVIOUS
    <2>1. /\ r \in priceRules /\ s \in priceRules /\ r.currency = "USD" /\ s.currency = "USD"
          /\ r.flow = s.flow /\ Fits(r.court, q.court) /\ Fits(s.court, q.court)
          /\ Fits(r.region, q.region) /\ Fits(s.region, q.region)
          /\ r.yearBand \in {b, NullDim} /\ s.yearBand \in {b, NullDim}
      BY <1>2 DEF lookup, inPlace, flowRules
    <2>2. r.court = s.court /\ r.region = s.region
      BY <2>1 DEF Fits, FlatList
    <2>3. r.yearBand = s.yearBand
      BY <2>1, <2>2 DEF FlatList
    <2> QED BY <2>1, <2>2, <2>3 DEF FlatList
  <1>4. PICK r \in C : C = {r} /\ r.priority \in Nat
    <2>1. C \subseteq priceRules
      BY TierIs
    <2> QED BY <1>2, <1>3, <2>1 DEF PriceInv
  <1>5. best(C) = {r}
    BY <1>4 DEF best
  <1>6. \E a : resolve(q) = {a}
    <2> DEFINE answer(s) ==
                 IF s.availability THEN [matched |-> TRUE, available |-> TRUE, price |-> priced(q, s)]
                 ELSE [matched |-> TRUE, available |-> FALSE]
    <2>1. resolve(q) = {answer(s) : s \in best(C)}
      BY <1>2 DEF resolve
    <2> HIDE DEF answer, C
    <2>2. resolve(q) = {answer(r)}
      BY <1>5, <2>1
    <2> QED BY <2>2
  <1> QED BY <1>6, FS_Singleton

\* The band of a decided case by its year.
YearRank(y) ==
    IF y = 0 \/ y >= currentYear \/ y > 2025 THEN 6 ELSE IF y = 2025 THEN 5
    ELSE IF y >= 2023 THEN 4 ELSE IF y >= 2020 THEN 3 ELSE IF y >= 2017 THEN 2 ELSE 1

LEMMA RankOfYear ==
    ASSUME NEW y \in Nat
    PROVE  BandRank(deriveYearBand("Decided Case", y)) = YearRank(y)
  <1> DEFINE band == deriveYearBand("Decided Case", y)
  <1>1. CASE y = 0 \/ y >= currentYear
    <2>1. band = "current"
      BY <1>1, PriceAssumption DEF deriveYearBand
    <2>2. BandRank("current") = 6
      BY DEF BandRank
    <2>3. YearRank(y) = 6
      BY <1>1, PriceAssumption DEF YearRank
    <2> QED BY <2>1, <2>2, <2>3
  <1>2. CASE ~(y = 0 \/ y >= currentYear)
    <2>1. y \in 1..(currentYear - 1)
      BY <1>2, PriceAssumption
    <2>2. band = CASE y = 2025 -> "y2025" [] y \in 2023..2024 -> "y2024_2023"
                   [] y \in 2020..2022 -> "y2022_2020" [] y \in 2017..2019 -> "y2019_2017"
                   [] y <= 2016 -> "y2016_back" [] OTHER -> "current"
      BY <1>2, <2>1 DEF deriveYearBand
    <2> HIDE DEF band
    <2> DEFINE goal == BandRank(band) = YearRank(y)
    <2>3. y > 2025 => goal
      <3>1. y > 2025 => band = "current" /\ YearRank(y) = 6
        BY <1>2, <2>2, PriceAssumption DEF YearRank
      <3> QED BY <3>1 DEF BandRank
    <2>4. y = 2025 => goal
      <3>1. y = 2025 => band = "y2025" /\ YearRank(y) = 5
        BY <1>2, <2>2, PriceAssumption DEF YearRank
      <3> QED BY <3>1 DEF BandRank
    <2>5. y \in 2023..2024 => goal
      <3>1. y \in 2023..2024 => band = "y2024_2023" /\ YearRank(y) = 4
        BY <1>2, <2>2, PriceAssumption DEF YearRank
      <3> QED BY <3>1 DEF BandRank
    <2>6. y \in 2020..2022 => goal
      <3>1. y \in 2020..2022 => band = "y2022_2020" /\ YearRank(y) = 3
        BY <1>2, <2>2, PriceAssumption DEF YearRank
      <3> QED BY <3>1 DEF BandRank
    <2>7. y \in 2017..2019 => goal
      <3>1. y \in 2017..2019 => band = "y2019_2017" /\ YearRank(y) = 2
        BY <1>2, <2>2, PriceAssumption DEF YearRank
      <3> QED BY <3>1 DEF BandRank
    <2>8. y <= 2016 => goal
      <3>1. y <= 2016 => band = "y2016_back" /\ YearRank(y) = 1
        BY <1>2, <2>2, PriceAssumption DEF YearRank
      <3> QED BY <3>1 DEF BandRank
    <2> HIDE DEF goal
    <2>9. goal
      BY <2>3, <2>4, <2>5, <2>6, <2>7, <2>8
    <2> QED BY <2>9 DEF goal, band
  <1> QED BY <1>1, <1>2

LEMMA AgeCosts == OlderNeverCheaper
  <1> SUFFICES ASSUME NEW y \in Nat, NEW z \in Nat
               PROVE  /\ 0 < y /\ y <= z =>
                           /\ BandRank(deriveYearBand("Decided Case", y))
                                <= BandRank(deriveYearBand("Decided Case", z))
                           /\ computeDecidedAgeSurcharge("Decided Case", y)
                                >= computeDecidedAgeSurcharge("Decided Case", z)
                           /\ computeCaseSearchBase(y) >= computeCaseSearchBase(z)
                      /\ computeCaseSearchBase(0) <= computeCaseSearchBase(y)
    <2>1. {q.year : q \in PriceRequests} \subseteq Nat
      BY PriceAssumption
    <2> QED BY <2>1 DEF OlderNeverCheaper
  <1>1. 0 < y /\ y <= z => BandRank(deriveYearBand("Decided Case", y))
                             <= BandRank(deriveYearBand("Decided Case", z))
    <2> DEFINE a == BandRank(deriveYearBand("Decided Case", y))
               b == BandRank(deriveYearBand("Decided Case", z))
    <2>1. 0 < y /\ y <= z => YearRank(y) <= YearRank(z)
      BY PriceAssumption DEF YearRank
    <2>2. a = YearRank(y)
      BY RankOfYear
    <2>3. b = YearRank(z)
      BY RankOfYear
    <2> HIDE DEF a, b
    <2>4. 0 < y /\ y <= z => a <= b
      BY <2>1, <2>2, <2>3
    <2> QED BY <2>4 DEF a, b
  <1>2. 0 < y /\ y <= z => computeDecidedAgeSurcharge("Decided Case", y)
                             >= computeDecidedAgeSurcharge("Decided Case", z)
    BY PriceAssumption DEF computeDecidedAgeSurcharge
  <1>3. 0 < y /\ y <= z => computeCaseSearchBase(y) >= computeCaseSearchBase(z)
    BY PriceAssumption DEF computeCaseSearchBase, CASE_SEARCH_PER_YEAR_RATE
  <1>4. computeCaseSearchBase(0) <= computeCaseSearchBase(y)
    BY PriceAssumption DEF computeCaseSearchBase, CASE_SEARCH_PER_YEAR_RATE
  <1> QED BY <1>1, <1>2, <1>3, <1>4

\* For any list the seed and any edits by staff leave, and any requests: the parts of a quote
\* make its total, what the page offers is priced, a USD price does not depend on the order of
\* the rows while these are flat, and an older case never costs less
\* (pricing.service.ts:225-700).
THEOREM PricesSound == PriceSpec => []PricesAgree
  <1>1. PriceInit => PriceInv
    BY PriceAssumption DEF PriceInit, PriceInv
  <1>2. PriceInv /\ [PriceNext]_priceVars => PriceInv'
    BY PriceStep
  <1>3. PriceInv => PricesAgree
    BY PartsAdd, OffersPriced, UsdDetermined, AgeCosts DEF PricesAgree
  <1> QED BY <1>1, <1>2, <1>3, PTL DEF PriceSpec

-----------------------------------------------------------------------------
\* The forms.  What a field may hold in any flow, and what it may hold in this one.
FormChoices == {"", "given", "Other", "Pending Case", "Decided Case", "Unknown Case", "New Case",
                "attested", "non_attested", "both", "TCS", "Uber", "Self Collection", "courier",
                "portal", "petition", "complete_file", "have_fir_number", "search_by_cnic"}
Offered(flow, p) == \A k \in FormKeys : p[k] \in FieldValues(flow, k) \cup {""}

\* A form of a known flow, with a court exactly when the flow has one, that was never refused.
Papers == [flow : FormFlow, court : CourtType \cup {NoCourt}, payload : [FormKeys -> FormChoices],
           changes : Nat, copied : BOOLEAN, answer : {"none", "created"}]
PaperInv ==
    /\ paper \in Papers
    /\ (paper.court = NoCourt) <=> (paper.flow \notin Judicial)
    /\ ChoicesAreOffered

LEMMA StepKeys ==
    ASSUME NEW flow \in FormFlow, NEW f \in flowSteps(flow)
    PROVE  f.key \in FormKeys
  <1>1. f.key \in {g.key : g \in flowSteps(flow)}
    OBVIOUS
  <1> QED BY <1>1 DEF FormKeys

LEMMA PlainChoice ==
    ASSUME NEW flow, NEW k,
           k \notin {"case_status", "set_type", "delivery_mode", "required_documentations",
                     "fir_mode", "case_type"}
    PROVE  FieldValues(flow, k) = {"given"}
  BY DEF FieldValues

LEMMA ChoiceIs ==
    ASSUME NEW flow, NEW k, NEW v \in FieldValues(flow, k) \cup {""}
    PROVE  v \in FormChoices
  <1>1. CASE k \notin {"case_status", "set_type", "delivery_mode", "required_documentations",
                       "fir_mode", "case_type"}
    BY <1>1, PlainChoice DEF FormChoices
  <1>2. CASE k = "case_status"
    BY <1>2 DEF FieldValues, FormChoices
  <1>3. CASE k = "set_type"
    BY <1>3 DEF FieldValues, FormChoices
  <1>4. CASE k = "delivery_mode"
    BY <1>4 DEF FieldValues, FormChoices
  <1>5. CASE k = "required_documentations"
    BY <1>5 DEF FieldValues, FormChoices
  <1>6. CASE k = "fir_mode"
    BY <1>6 DEF FieldValues, FormChoices
  <1>7. CASE k = "case_type"
    BY <1>7 DEF FieldValues, FormChoices
  <1> QED BY <1>1, <1>2, <1>3, <1>4, <1>5, <1>6, <1>7

\* The fields of the steps.
LEMMA FieldIs ==
    ASSUME NEW k, NEW C
    PROVE  /\ Field(k, C).key = k /\ Field(k, C).courts = C /\ Field(k, C).field = "none"
           /\ Always(k).key = k /\ Always(k).courts = CourtType \cup {NoCourt}
           /\ Always(k).field = "none"
  BY DEF Field, Always

LEMMA WhenIs ==
    ASSUME NEW k, NEW c, NEW x
    PROVE  /\ When(Always(k), c, x).key = k /\ When(Always(k), c, x).field = c
           /\ When(Always(k), c, x).courts = CourtType \cup {NoCourt}
           /\ When(Always(k), c, x).values = x
  BY DEF Field, Always, When

LEMMA OnlyFilesHaveSets ==
    ASSUME NEW flow \in FlowsWithForms, NEW f \in flowSteps(flow), f.key = "set_type"
    PROVE  flow = "judicial_case_files"
  <1> DEFINE keyed == /\ \A k, C : Field(k, C).key = k
                      /\ \A k : Always(k).key = k
                      /\ \A k, c, x : When(Always(k), c, x).key = k
  <1>0. keyed
    <2>1. \A k, C : Field(k, C).key = k
      BY FieldIs
    <2>2. \A k : Always(k).key = k
      BY FieldIs
    <2>3. \A k, c, x : When(Always(k), c, x).key = k
      BY WhenIs
    <2> QED BY <2>1, <2>2, <2>3
  <1>a. \A K : \A g \in AlwaysAll(K) : g.key \in K
    BY <1>0 DEF AlwaysAll
  <1>1. \A g \in CaseDetails : g.key # "set_type"
    <2> SUFFICES ASSUME NEW g \in CaseDetails PROVE g.key # "set_type"
      OBVIOUS
    <2>1. \/ g \in AlwaysAll({"case_status", "required_documentations"})
          \/ \E k \in {"case_type", "case_no", "year", "case_title", "bench",
                       "judge_designation", "judge_name"} : \E C : g = Field(k, C)
          \/ \E k \in {"decided_date", "case_type_other"} : \E c, x : g = When(Always(k), c, x)
      BY DEF CaseDetails, OtherType
    <2> QED BY <1>0, <1>a, <2>1
  <1>2. \A g \in Delivery \cup InformationDelivery : g.key # "set_type"
    BY <1>0, <1>a DEF Delivery, InformationDelivery
  <1>3. \A g \in caseSearchSteps : g.key # "set_type"
    BY <1>0, <1>a, <1>2 DEF caseSearchSteps, SearchDocuments, OtherType
  <1>4. \A g \in caseFilingSteps : g.key # "set_type"
    <2> SUFFICES ASSUME NEW g \in caseFilingSteps PROVE g.key # "set_type"
      OBVIOUS
    <2>1. \/ g \in AlwaysAll({"case_status", "case_type", "case_title"})
          \/ \E C : g = Field("year", C)
          \/ \E k \in {"party_type", "case_type_other"} : \E c, x : g = When(Always(k), c, x)
      BY DEF caseFilingSteps, OtherType
    <2> QED BY <1>0, <1>a, <2>1
  <1>5. \A g \in powerOfAttorneySteps : g.key # "set_type"
    BY <1>0, <1>a DEF powerOfAttorneySteps, OtherType
  <1>6. \A g \in copyOfFirSteps : g.key # "set_type"
    BY <1>0, <1>a DEF copyOfFirSteps, Subject
  <1>7. \A g \in registryDeedSteps \cup criminalRecordSearchSteps : g.key # "set_type"
    BY <1>0, <1>a DEF registryDeedSteps, criminalRecordSearchSteps, Subject
  <1> QED BY <1>1, <1>2, <1>3, <1>4, <1>5, <1>6, <1>7
          DEF flowSteps, FlowsWithForms, Judicial, caseInformationSteps

LEMMA DefaultOffered ==
    ASSUME NEW flow \in FormFlow, NEW k
    PROVE  defaultValue(flow, k) \in FieldValues(flow, k) \cup {""}
  <1>1. CASE k = "case_status"
    BY <1>1 DEF defaultValue, FieldValues
  <1>2. CASE k = "delivery_mode"
    BY <1>2 DEF defaultValue, FieldValues
  <1>3. CASE k = "party_type"
    BY <1>3 DEF defaultValue, FieldValues
  <1>4. CASE k \notin {"case_status", "delivery_mode", "party_type"}
    BY <1>4 DEF defaultValue
  <1> QED BY <1>1, <1>2, <1>3, <1>4

\* What is sent is what was filled in, with the year and the sets the page derives.
LEMMA DerivedYear ==
    ASSUME NEW p \in [FormKeys -> FormChoices]
    PROVE  LET d == withDerivedYear(p) IN
           /\ d \in [FormKeys -> FormChoices]
           /\ \A k \in FormKeys : d[k] = p[k] \/ (k = "year" /\ d[k] = "given")
  BY DEF withDerivedYear, FormChoices

LEMMA SetTypeKeys ==
    ASSUME "set_type" \in FormKeys
    PROVE  {"attested_qty", "non_attested_qty", "both_attested_qty"} \subseteq FormKeys
  <1>1. PICK flow \in FormFlow : "set_type" \in {f.key : f \in flowSteps(flow)}
    <2> DEFINE U == UNION {{f.key : f \in flowSteps(flow)} : flow \in FormFlow}
    <2>1. FormKeys = U \cup {"year", "sets"}
      BY DEF FormKeys
    <2> HIDE DEF U
    <2>2. "set_type" \in U
      BY <2>1
    <2> QED BY <2>2 DEF U
  <1>2. flow \in FlowsWithForms
    BY ChangeAssumption
  <1>3. flow = "judicial_case_files"
    BY <1>1, <1>2, OnlyFilesHaveSets
  <1>4. /\ When(Always("attested_qty"), "set_type", {"attested"}) \in flowSteps(flow)
        /\ When(Always("non_attested_qty"), "set_type", {"non_attested"}) \in flowSteps(flow)
        /\ When(Always("both_attested_qty"), "set_type", {"both"}) \in flowSteps(flow)
    BY <1>3 DEF flowSteps, caseFilesSteps, SET_TYPE_WITH_QUANTITIES
  <1>5. \A k, c, x : When(Always(k), c, x).key = k
    BY WhenIs
  <1> QED BY <1>4, <1>5, StepKeys

LEMMA SentKeeps ==
    ASSUME NEW p \in [FormKeys -> FormChoices], NEW k \in FormKeys, k # "sets", p[k] # ""
    PROVE  withSets(withDerivedYear(p))[k] # ""
  <1> DEFINE d == withDerivedYear(p)
  <1>1. DOMAIN d = FormKeys /\ d[k] # ""
    BY DerivedYear
  <1> HIDE DEF d
  <1>2. withSets(d)[k] # ""
    BY <1>1 DEF withSets
  <1> QED BY <1>2 DEF d

LEMMA SentOffered ==
    ASSUME NEW flow \in FormFlow, NEW p \in [FormKeys -> FormChoices], Offered(flow, p)
    PROVE  LET s == withSets(withDerivedYear(p)) IN
           s \in [FormKeys -> FormChoices] /\ Offered(flow, s)
  <1> DEFINE d == withDerivedYear(p)
             s == withSets(d)
  <1>1. FieldValues(flow, "year") = {"given"} /\ FieldValues(flow, "sets") = {"given"}
    BY PlainChoice
  <1>2. d \in [FormKeys -> FormChoices] /\ Offered(flow, d)
    BY <1>1, DerivedYear DEF Offered
  <1> HIDE DEF d
  <1>3. \A k \in {"attested_qty", "non_attested_qty", "both_attested_qty"} :
          FieldValues(flow, k) = {"given"}
    BY PlainChoice
  <1>4. "set_type" \in FormKeys =>
          \A k \in {"attested_qty", "non_attested_qty", "both_attested_qty"} : d[k] \in {"given", ""}
    BY <1>2, <1>3, SetTypeKeys DEF Offered
  <1>5. /\ DOMAIN s = FormKeys
        /\ \A k \in FormKeys : s[k] = d[k] \/ (k = "sets" /\ s[k] \in {"given", ""})
    BY <1>2, <1>4 DEF withSets
  <1>6. s = [k \in FormKeys |-> s[k]]
    BY <1>2 DEF withSets
  <1> HIDE DEF s
  <1>7. Offered(flow, s)
    BY <1>1, <1>2, <1>5 DEF Offered
  <1>8. \A k \in FormKeys : s[k] \in FormChoices
    BY <1>7, ChoiceIs DEF Offered
  <1> QED BY <1>6, <1>7, <1>8 DEF s, d

\* A form that the page lets through.
Has(k) == k \in FormKeys /\ paper.payload[k] # ""

LEMMA Filled ==
    ASSUME PaperInv, stepFieldErrors = {}, NEW k
    PROVE  /\ Always(k) \in flowSteps(paper.flow) => Has(k)
           /\ \A C : Field(k, C) \in flowSteps(paper.flow) /\ paper.court \in C => Has(k)
           /\ \A c, x : When(Always(k), c, x) \in flowSteps(paper.flow) /\ paper.payload[c] \in x =>
                       Has(k)
  <1>1. paper.flow \in FormFlow /\ paper.court \in CourtType \cup {NoCourt}
    BY DEF PaperInv, Papers
  <1>2. ASSUME NEW f \in flowSteps(paper.flow), paper.court \in f.courts,
               f.field = "none" \/ paper.payload[f.field] \in f.values
        PROVE  Has(f.key)
    <2>1. f.key \in FormKeys
      BY <1>1, StepKeys
    <2>2. paper.payload[f.key] # ""
      BY <1>2 DEF stepFieldErrors, resolveRequired, showWhenSatisfied
    <2> QED BY <2>1, <2>2 DEF Has
  <1>3. Always(k) \in flowSteps(paper.flow) => Has(k)
    <2>1. Always(k).key = k /\ Always(k).courts = CourtType \cup {NoCourt} /\ Always(k).field = "none"
      BY FieldIs
    <2> QED BY <1>1, <1>2, <2>1
  <1>4. ASSUME NEW C, Field(k, C) \in flowSteps(paper.flow), paper.court \in C
        PROVE  Has(k)
    <2>1. Field(k, C).key = k /\ Field(k, C).courts = C /\ Field(k, C).field = "none"
      BY FieldIs
    <2> QED BY <1>2, <1>4, <2>1
  <1>5. ASSUME NEW c, NEW x, When(Always(k), c, x) \in flowSteps(paper.flow), paper.payload[c] \in x
        PROVE  Has(k)
    <2> DEFINE f == When(Always(k), c, x)
    <2>1. f.key = k /\ f.courts = CourtType \cup {NoCourt} /\ f.field = c /\ f.values = x
      BY WhenIs
    <2>2. f \in flowSteps(paper.flow)
      BY <1>5
    <2> HIDE DEF f
    <2> QED BY <1>1, <1>2, <1>5, <2>1, <2>2
  <1> QED BY <1>3, <1>4, <1>5

LEMMA AlwaysIn ==
    ASSUME NEW K, NEW k \in K
    PROVE  Always(k) \in AlwaysAll(K)
  BY DEF AlwaysAll

LEMMA DetailsFilled ==
    ASSUME PaperInv, stepFieldErrors = {}, CaseDetails \subseteq flowSteps(paper.flow)
    PROVE  /\ Has("case_status") /\ Has("required_documentations")
           /\ paper.court = Special => Has("case_type") /\ Has("year")
           /\ paper.court \in Appeals \cup {High} => Has("case_no")
           /\ paper.court \in {Lower, Special, "Federal Shariat Court"} => Has("case_title")
           /\ paper.court = Lower => Has("judge_name")
  <1>1. /\ Always("case_status") \in CaseDetails /\ Always("required_documentations") \in CaseDetails
        /\ Field("case_type", {Special}) \in CaseDetails /\ Field("year", {Special}) \in CaseDetails
        /\ Field("case_no", Appeals \cup {High}) \in CaseDetails
        /\ Field("case_title", {Lower, Special, "Federal Shariat Court"}) \in CaseDetails
        /\ Field("judge_name", {Lower}) \in CaseDetails
    BY AlwaysIn DEF CaseDetails
  <1>2. Has("case_status") /\ Has("required_documentations")
    BY <1>1, Filled
  <1>3. \A k, C : Field(k, C) \in CaseDetails /\ paper.court \in C => Has(k)
    BY Filled
  <1> QED BY <1>1, <1>2, <1>3

\* What is asked for of each flow, at the page, covers what the server asks for.
LEMMA SetsFilled ==
    ASSUME PaperInv, stepFieldErrors = {}, paper.flow = "judicial_case_files"
    PROVE  /\ "sets" \in FormKeys /\ withSets(withDerivedYear(paper.payload))["sets"] # ""
           /\ Has("set_type")
  <1> DEFINE p == paper.payload
             d == withDerivedYear(p)
  <1>1. SET_TYPE_WITH_QUANTITIES \subseteq flowSteps(paper.flow)
    BY DEF flowSteps, caseFilesSteps
  <1>2. Has("set_type")
    BY <1>1, Filled DEF SET_TYPE_WITH_QUANTITIES
  <1>3. /\ p["set_type"] \in {"attested"} => Has("attested_qty")
        /\ p["set_type"] \in {"non_attested"} => Has("non_attested_qty")
        /\ p["set_type"] \in {"both"} => Has("both_attested_qty")
    <2>1. /\ When(Always("attested_qty"), "set_type", {"attested"}) \in flowSteps(paper.flow)
          /\ When(Always("non_attested_qty"), "set_type", {"non_attested"}) \in flowSteps(paper.flow)
          /\ When(Always("both_attested_qty"), "set_type", {"both"}) \in flowSteps(paper.flow)
      BY <1>1 DEF SET_TYPE_WITH_QUANTITIES
    <2> QED BY <2>1, Filled
  <1>4. p["set_type"] \in {"attested", "non_attested", "both"}
    <2>1. p["set_type"] \in FieldValues(paper.flow, "set_type") \cup {""}
      BY <1>2 DEF PaperInv, Papers, Has, ChoicesAreOffered
    <2>2. FieldValues(paper.flow, "set_type") = {"attested", "non_attested", "both"}
      BY DEF FieldValues
    <2> QED BY <1>2, <2>1, <2>2 DEF Has
  <1>5. p \in [FormKeys -> FormChoices]
    BY DEF PaperInv, Papers
  <1>6. d \in [FormKeys -> FormChoices] /\ \A k \in FormKeys : k # "year" => d[k] = p[k]
    BY <1>5, DerivedYear
  <1>7. d["set_type"] = p["set_type"]
    BY <1>2, <1>6 DEF Has
  <1>8. \A k \in {"attested_qty", "non_attested_qty", "both_attested_qty"} : Has(k) => d[k] # ""
    BY <1>6 DEF Has
  <1>9. "sets" \in FormKeys /\ "set_type" \in FormKeys
    BY <1>2 DEF FormKeys, Has
  <1> HIDE DEF p, d
  <1>10. withSets(d)["sets"] # ""
    <2>1. CASE p["set_type"] = "attested"
      BY <1>3, <1>6, <1>7, <1>8, <1>9, <2>1 DEF withSets
    <2>2. CASE p["set_type"] = "non_attested"
      BY <1>3, <1>6, <1>7, <1>8, <1>9, <2>2 DEF withSets
    <2>3. CASE p["set_type"] = "both"
      BY <1>3, <1>6, <1>7, <1>8, <1>9, <2>3 DEF withSets
    <2> QED BY <1>4, <2>1, <2>2, <2>3
  <1> QED BY <1>2, <1>9, <1>10 DEF p, d

LEMMA IdentityFilled ==
    ASSUME PaperInv, stepFieldErrors = {}, CaseDetails \subseteq flowSteps(paper.flow),
           paper.flow \in {"judicial_case_files", "judicial_case_information"},
           NEW k \in CaseIdentity \cup {"judge_name"},
           k \notin REQUIRED_FIELDS_OPTIONAL_BY_TIER(paper.flow, paper.court)
    PROVE  Has(k)
  <1>1. paper.court \in CourtType
    BY DEF PaperInv, Papers, Judicial
  <1>2. k \notin (CASE paper.court = Lower -> {"case_no", "year", "case_type"}
              [] paper.court = Special -> {"case_no", "judge_name"}
              [] paper.court = "Federal Shariat Court" -> {"year", "case_type", "judge_name"}
              [] OTHER -> {"year", "case_type", "case_title", "judge_name"})
    BY DEF REQUIRED_FIELDS_OPTIONAL_BY_TIER
  <1>3. k \in {"case_no", "year", "case_type", "case_title", "judge_name"}
    BY DEF CaseIdentity
  <1>4. CASE paper.court = Lower
    <2>1. k \notin {"case_no", "year", "case_type"}
      BY <1>2, <1>4 DEF Lower, Special
    <2> QED BY <1>3, <1>4, <2>1, DetailsFilled
  <1>5. CASE paper.court = Special
    <2>1. k \notin {"case_no", "judge_name"}
      BY <1>2, <1>5 DEF Special, Lower
    <2> QED BY <1>3, <1>5, <2>1, DetailsFilled
  <1>6. CASE paper.court \in CourtType \ {Lower, Special}
    <2>1. k \notin {"year", "case_type", "judge_name"}
      BY <1>2, <1>6
    <2>2. k = "case_title" => paper.court = "Federal Shariat Court"
      BY <1>2, <1>6
    <2>3. paper.court \in Appeals \cup {High}
      BY <1>6 DEF Appeals
    <2> QED BY <1>3, <2>1, <2>2, <2>3, DetailsFilled
  <1> QED BY <1>1, <1>4, <1>5, <1>6

LEMMA JudicialFilled ==
    ASSUME PaperInv, stepFieldErrors = {}, paper.flow \in Judicial,
           NEW k \in REQUIRED_FIELDS_BY_FLOW(paper.flow)
                      \ REQUIRED_FIELDS_OPTIONAL_BY_TIER(paper.flow, paper.court)
    PROVE  (k = "sets" /\ paper.flow = "judicial_case_files") \/ Has(k)
  <1>1. paper.court \in CourtType
    BY DEF PaperInv, Papers
  <1>2. CASE paper.flow = "judicial_case_files"
    <2>1. CaseDetails \subseteq flowSteps(paper.flow) /\ Delivery \subseteq flowSteps(paper.flow)
      BY <1>2 DEF flowSteps, caseFilesSteps
    <2>2. Has("set_type")
      BY <1>2, SetsFilled
    <2>3. Has("delivery_mode")
      BY <2>1, Filled DEF Delivery
    <2>4. Has("case_status")
      BY <2>1, DetailsFilled
    <2>5. k \in CaseIdentity \cup {"case_status", "judge_name", "sets", "set_type", "delivery_mode"}
      BY <1>2 DEF REQUIRED_FIELDS_BY_FLOW
    <2>6. CASE k \in CaseIdentity \cup {"judge_name"}
      BY <1>2, <2>1, <2>6, IdentityFilled
    <2> QED BY <1>2, <2>2, <2>3, <2>4, <2>5, <2>6
  <1>3. CASE paper.flow = "judicial_case_information"
    <2>1. CaseDetails \subseteq flowSteps(paper.flow)
      BY <1>3 DEF flowSteps, caseInformationSteps
    <2>2. Has("case_status") /\ Has("required_documentations")
      BY <2>1, DetailsFilled
    <2>3. k \in CaseIdentity \cup {"case_status", "judge_name", "required_documentations"}
      BY <1>3 DEF REQUIRED_FIELDS_BY_FLOW
    <2>4. CASE k \in CaseIdentity \cup {"judge_name"}
      BY <1>3, <2>1, <2>4, IdentityFilled
    <2> QED BY <2>2, <2>3, <2>4
  <1>4. CASE paper.flow = "judicial_case_search"
    <2>1. Delivery \subseteq flowSteps(paper.flow)
      BY <1>4 DEF flowSteps, caseSearchSteps, SearchDocuments
    <2>2. Has("delivery_mode")
      BY <2>1, Filled DEF Delivery
    <2>3. k = "delivery_mode"
      BY <1>4 DEF REQUIRED_FIELDS_BY_FLOW, REQUIRED_FIELDS_OPTIONAL_BY_TIER
    <2> QED BY <2>2, <2>3
  <1>5. CASE paper.flow = "judicial_case_filing"
    <2>1. caseFilingSteps = flowSteps(paper.flow)
      BY <1>5 DEF flowSteps
    <2>2. /\ Always("case_status") \in caseFilingSteps /\ Always("case_type") \in caseFilingSteps
          /\ Always("case_title") \in caseFilingSteps
          /\ Field("year", CourtType \ {Lower}) \in caseFilingSteps
      BY AlwaysIn DEF caseFilingSteps
    <2>3. /\ Has("case_status") /\ Has("case_type") /\ Has("case_title")
          /\ paper.court # Lower => Has("year")
      BY <1>1, <2>1, <2>2, Filled
    <2>4. /\ k \in {"year", "case_type", "case_title", "case_status"}
          /\ paper.court = Lower => k # "year"
      BY <1>5 DEF REQUIRED_FIELDS_BY_FLOW, REQUIRED_FIELDS_OPTIONAL_BY_TIER, CaseIdentity
    <2> QED BY <2>3, <2>4
  <1>6. CASE paper.flow = "judicial_power_of_attorney"
    <2>1. powerOfAttorneySteps = flowSteps(paper.flow)
      BY <1>6 DEF flowSteps
    <2>2. /\ Always("case_title") \in powerOfAttorneySteps
          /\ Field("case_type", {Special}) \in powerOfAttorneySteps
          /\ Field("case_no", Appeals \cup {High}) \in powerOfAttorneySteps
          /\ Field("year", {Special}) \in powerOfAttorneySteps
      BY AlwaysIn DEF powerOfAttorneySteps
    <2>3. /\ Has("case_title")
          /\ paper.court = Special => Has("case_type") /\ Has("year")
          /\ paper.court \in Appeals \cup {High} => Has("case_no")
      BY <2>1, <2>2, Filled
    <2>4. k \in {"case_no", "year", "case_type", "case_title"}
      BY <1>6 DEF REQUIRED_FIELDS_BY_FLOW, CaseIdentity
    <2>5. k \notin (CASE paper.court = Lower -> {"case_no", "year", "case_type"}
              [] paper.court = Special -> {"case_no"}
              [] OTHER -> {"year", "case_type"})
      BY <1>6 DEF REQUIRED_FIELDS_OPTIONAL_BY_TIER
    <2>6. CASE paper.court = Lower
      BY <2>3, <2>4, <2>5, <2>6
    <2>7. CASE paper.court = Special
      BY <2>3, <2>4, <2>5, <2>7 DEF Special, Lower
    <2>8. CASE paper.court \in CourtType \ {Lower, Special}
      <3>1. paper.court \in Appeals \cup {High}
        BY <2>8 DEF Appeals
      <3>2. k \notin {"year", "case_type"}
        BY <2>5, <2>8
      <3> QED BY <2>3, <2>4, <3>1, <3>2
    <2> QED BY <1>1, <2>6, <2>7, <2>8
  <1> QED BY <1>2, <1>3, <1>4, <1>5, <1>6 DEF Judicial

LEMMA OthersFilled ==
    ASSUME PaperInv, stepFieldErrors = {}, paper.flow \notin Judicial,
           NEW k \in REQUIRED_FIELDS_BY_FLOW(submitFlow)
    PROVE  Has(k)
  <1> DEFINE Theirs == {"subject_cnic", "subject_full_name", "purpose", "delivery_mode"}
  <1>1. paper.flow \in {"non_judicial_copy_of_fir", "non_judicial_registry_deed",
                       "non_judicial_criminal_record_search"}
    BY ChangeAssumption DEF PaperInv, Papers, FlowsWithForms
  <1>2. CASE paper.flow = "non_judicial_copy_of_fir"
    <2>1. copyOfFirSteps = flowSteps(paper.flow)
      BY <1>2 DEF flowSteps
    <2>2. Has("fir_mode") /\ Has("delivery_mode")
      <3>1. Always("fir_mode") \in copyOfFirSteps /\ Always("delivery_mode") \in copyOfFirSteps
        BY AlwaysIn DEF copyOfFirSteps
      <3> QED BY <2>1, <3>1, Filled
    <2>3. \A x \in {"fir_no", "year", "offence", "case_title"} :
            When(Always(x), "fir_mode", {"have_fir_number"}) \in copyOfFirSteps
      BY DEF copyOfFirSteps
    <2>4. \A x \in {"subject_cnic", "subject_full_name", "purpose"} :
            When(Always(x), "fir_mode", {"search_by_cnic"}) \in copyOfFirSteps
      BY DEF copyOfFirSteps, Subject
    <2>5. paper.payload["fir_mode"] \in {"have_fir_number", "search_by_cnic"}
      <3>1. FieldValues(paper.flow, "fir_mode") = {"have_fir_number", "search_by_cnic"}
        BY DEF FieldValues
      <3> QED BY <2>2, <3>1 DEF PaperInv, Papers, Has, ChoicesAreOffered
    <2>6. CASE paper.payload["fir_mode"] = "have_fir_number"
      <3>1. k \in {"fir_no", "year", "offence", "case_title", "delivery_mode"}
        BY <1>2, <2>6 DEF submitFlow, REQUIRED_FIELDS_BY_FLOW
      <3>2. \A x \in {"fir_no", "year", "offence", "case_title"} : Has(x)
        BY <2>1, <2>3, <2>6, Filled
      <3> QED BY <2>2, <3>1, <3>2
    <2>7. CASE paper.payload["fir_mode"] = "search_by_cnic"
      <3>1. k \in Theirs
        BY <1>2, <2>7 DEF submitFlow, REQUIRED_FIELDS_BY_FLOW
      <3>2. \A x \in {"subject_cnic", "subject_full_name", "purpose"} : Has(x)
        BY <2>1, <2>4, <2>7, Filled
      <3> QED BY <2>2, <3>1, <3>2
    <2> QED BY <2>5, <2>6, <2>7
  <1>3. CASE paper.flow = "non_judicial_registry_deed"
    <2>1. k \in {"city_type", "doc_no", "year", "case_title", "delivery_mode"}
      BY <1>3 DEF submitFlow, REQUIRED_FIELDS_BY_FLOW
    <2>2. Always(k) \in flowSteps(paper.flow)
      BY <1>3, <2>1, AlwaysIn DEF flowSteps, registryDeedSteps
    <2> QED BY <2>2, Filled
  <1>4. CASE paper.flow = "non_judicial_criminal_record_search"
    <2>1. k \in Theirs
      BY <1>4 DEF submitFlow, REQUIRED_FIELDS_BY_FLOW
    <2>2. Always(k) \in flowSteps(paper.flow)
      BY <1>4, <2>1, AlwaysIn DEF flowSteps, criminalRecordSearchSteps, Subject
    <2> QED BY <2>2, Filled
  <1> QED BY <1>1, <1>2, <1>3, <1>4

\* A form that the page lets through is not refused.
LEMMA NothingMissing ==
    ASSUME PaperInv, stepFieldErrors = {}
    PROVE  validateFlowPayload(submitFlow, paper.court, withSets(withDerivedYear(paper.payload))) = {}
  <1> DEFINE sent == withSets(withDerivedYear(paper.payload))
  <1> SUFFICES ASSUME NEW k \in REQUIRED_FIELDS_BY_FLOW(submitFlow)
                                 \ REQUIRED_FIELDS_OPTIONAL_BY_TIER(submitFlow, paper.court)
               PROVE  k \in FormKeys /\ sent[k] # ""
    BY DEF validateFlowPayload
  <1>1. Has(k) /\ k # "sets" => k \in FormKeys /\ sent[k] # ""
    BY SentKeeps DEF Has, PaperInv, Papers
  <1>2. CASE paper.flow \in Judicial
    <2>1. submitFlow = paper.flow
      BY <1>2 DEF submitFlow, Judicial
    <2>2. (k = "sets" /\ paper.flow = "judicial_case_files") \/ Has(k)
      BY <1>2, <2>1, JudicialFilled
    <2>3. k = "sets" => paper.flow = "judicial_case_files"
      BY <1>2, <2>1 DEF REQUIRED_FIELDS_BY_FLOW, CaseIdentity, Judicial
    <2>4. CASE k = "sets"
      BY <2>3, <2>4, SetsFilled
    <2> QED BY <1>1, <2>2, <2>4
  <1>3. CASE paper.flow \notin Judicial
    <2>1. Has(k)
      BY <1>3, OthersFilled
    <2>2. submitFlow \in FlowsWithForms \ Judicial
      BY <1>3, ChangeAssumption DEF submitFlow, PaperInv, Papers, FlowsWithForms, Judicial
    <2>3. k # "sets"
      BY <2>2 DEF REQUIRED_FIELDS_BY_FLOW, FlowsWithForms, Judicial
    <2> QED BY <1>1, <2>1, <2>3
  <1> QED BY <1>2, <1>3

\* The steps of a form.
LEMMA PaperStart == PaperInit => PaperInv
  <1> SUFFICES ASSUME NEW flow \in FormFlow, NEW court \in CourtType \cup {NoCourt},
                      (court = NoCourt) <=> (flow \notin Judicial), paper = NewPaper(flow, court)
               PROVE  PaperInv
    BY DEF PaperInit
  <1> DEFINE p == [k \in FormKeys |-> defaultValue(flow, k)]
  <1>1. \A k \in FormKeys : p[k] \in FieldValues(flow, k) \cup {""}
    BY DefaultOffered
  <1>2. p \in [FormKeys -> FormChoices]
    BY <1>1, ChoiceIs
  <1> HIDE DEF p
  <1>3. paper = [flow |-> flow, court |-> court, payload |-> p, changes |-> 0, copied |-> FALSE,
                 answer |-> "none"]
    BY DEF NewPaper, p
  <1>4. ChoicesAreOffered
    <2>1. paper.flow = flow /\ paper.payload = p
      BY <1>3
    <2>2. \A k \in FormKeys : p[k] \in FieldValues(flow, k) \cup {""}
      BY <1>1
    <2> QED BY <2>1, <2>2, Zenon DEF ChoicesAreOffered
  <1> QED BY <1>2, <1>3, <1>4 DEF PaperInv, Papers

LEMMA FillSafe == PaperInv /\ FillField => PaperInv'
  <1> SUFFICES ASSUME PaperInv, FillField PROVE PaperInv'
    OBVIOUS
  <1> DEFINE key == CHOOSE k \in stepFieldErrors : TRUE
  <1>1. key \in stepFieldErrors
    BY DEF FillField
  <1>2. PICK v \in FieldValues(paper.flow, key) : paper' = [paper EXCEPT !.payload[key] = v]
    BY DEF FillField
  <1>3. key \in FormKeys
    BY <1>1, StepKeys DEF stepFieldErrors, PaperInv, Papers
  <1> HIDE DEF key
  <1>4. v \in FormChoices
    BY <1>2, <1>3, ChoiceIs
  <1> QED BY <1>2, <1>3, <1>4 DEF PaperInv, Papers, ChoicesAreOffered

LEMMA ChangeSafe == PaperInv /\ (ChangeField \/ ChangeCourt) => PaperInv'
  <1> SUFFICES ASSUME PaperInv, ChangeField \/ ChangeCourt PROVE PaperInv'
    OBVIOUS
  <1>1. CASE ChangeField
    <2>1. PICK key \in Modes(paper.flow) :
               \E v \in FieldValues(paper.flow, key) \ {paper.payload[key]} :
                 paper' = [paper EXCEPT !.payload[key] = v, !.changes = @ + 1]
      BY <1>1 DEF ChangeField
    <2>2. PICK v \in FieldValues(paper.flow, key) :
               paper' = [paper EXCEPT !.payload[key] = v, !.changes = @ + 1]
      BY <2>1
    <2>3. v \in FormChoices
      BY <2>2, ChoiceIs
    <2>4. CASE key \in FormKeys
      <3>1. /\ paper'.flow = paper.flow /\ paper'.court = paper.court
            /\ paper'.payload = [paper.payload EXCEPT ![key] = v]
            /\ paper' = [paper EXCEPT !.payload = paper'.payload, !.changes = @ + 1]
        BY <2>2 DEF PaperInv, Papers
      <3>2. ChoicesAreOffered'
        BY <2>2, <2>4, <3>1 DEF PaperInv, Papers, ChoicesAreOffered
      <3>3. paper'.payload \in [FormKeys -> FormChoices]
        BY <2>3, <2>4, <3>1 DEF PaperInv, Papers
      <3>4. paper' \in Papers
        <4>1. paper' = [flow |-> paper.flow, court |-> paper.court, payload |-> paper'.payload,
                     changes |-> paper.changes + 1, copied |-> paper.copied, answer |-> paper.answer]
          BY <3>1 DEF PaperInv, Papers
        <4>2. /\ paper.flow \in FormFlow /\ paper.court \in CourtType \cup {NoCourt}
            /\ paper.changes + 1 \in Nat /\ paper.copied \in BOOLEAN
            /\ paper.answer \in {"none", "created"} /\ paper.payload \in [FormKeys -> FormChoices]
          BY DEF PaperInv, Papers
        <4> QED BY <3>3, <4>1, <4>2 DEF Papers
      <3> QED BY <3>1, <3>2, <3>4 DEF PaperInv
    <2>5. CASE key \notin FormKeys
      <3>1. paper' = [paper EXCEPT !.changes = @ + 1]
        BY <2>2, <2>5 DEF PaperInv, Papers
      <3>2. /\ paper'.flow = paper.flow /\ paper'.court = paper.court
            /\ paper'.payload = paper.payload
        BY <3>1 DEF PaperInv, Papers
      <3>3. ChoicesAreOffered'
        BY <3>2 DEF PaperInv, ChoicesAreOffered
      <3>4. paper' \in Papers
        BY <3>1 DEF PaperInv, Papers
      <3> QED BY <3>2, <3>3, <3>4 DEF PaperInv
    <2> QED BY <2>4, <2>5
  <1>2. CASE ChangeCourt
    <2>1. PICK court \in CourtType \ {paper.court} :
               paper' = [paper EXCEPT !.court = court, !.changes = @ + 1]
      BY <1>2 DEF ChangeCourt
    <2>2. paper.flow \in Judicial /\ court # NoCourt
      BY <1>2 DEF ChangeCourt, CourtType, NoCourt
    <2>3. /\ paper'.flow = paper.flow /\ paper'.court = court /\ paper'.payload = paper.payload
          /\ paper'.changes = paper.changes + 1 /\ paper'.copied = paper.copied
          /\ paper'.answer = paper.answer
      BY <2>1 DEF PaperInv, Papers
    <2>4. ChoicesAreOffered'
      BY <2>3 DEF PaperInv, Papers, ChoicesAreOffered
    <2>5. paper' \in Papers
      <3>1. paper' = [flow |-> paper.flow, court |-> court, payload |-> paper.payload,
                     changes |-> paper.changes + 1, copied |-> paper.copied, answer |-> paper.answer]
        BY <2>1 DEF PaperInv, Papers
      <3>2. /\ paper.flow \in FormFlow /\ paper.court \in CourtType \cup {NoCourt}
            /\ paper.changes + 1 \in Nat /\ paper.copied \in BOOLEAN
            /\ paper.answer \in {"none", "created"} /\ paper.payload \in [FormKeys -> FormChoices]
        BY DEF PaperInv, Papers
      <3> QED BY <3>1, <3>2 DEF Papers
    <2> QED BY <2>2, <2>3, <2>4, <2>5 DEF PaperInv
  <1> QED BY <1>1, <1>2

LEMMA SubmitSafe == PaperInv /\ SubmitForm => PaperInv'
  <1> SUFFICES ASSUME PaperInv, SubmitForm PROVE PaperInv'
    OBVIOUS
  <1> DEFINE sent == withSets(withDerivedYear(paper.payload))
  <1>1. validateFlowPayload(submitFlow, paper.court, sent) = {}
    BY NothingMissing DEF SubmitForm
  <1>2. paper' = [paper EXCEPT !.answer = "created", !.payload = sent]
    BY <1>1 DEF SubmitForm
  <1>3. sent \in [FormKeys -> FormChoices] /\ Offered(paper.flow, sent)
    BY SentOffered DEF PaperInv, Papers, ChoicesAreOffered, Offered
  <1> HIDE DEF sent
  <1> QED BY <1>2, <1>3 DEF PaperInv, Papers, ChoicesAreOffered, Offered

LEMMA RegenerateSafe == PaperInv /\ Regenerate => PaperInv'
  <1> SUFFICES ASSUME PaperInv, Regenerate PROVE PaperInv'
    OBVIOUS
  <1>1. PICK flow \in FormFlow, court \in CourtType \cup {NoCourt} :
          /\ (court = NoCourt) <=> (flow \notin Judicial)
          /\ paper' = [paper EXCEPT
               !.flow = flow, !.court = court, !.copied = TRUE, !.answer = "none",
               !.changes = ChangeLimit[flow],
               !.payload = normalizeDraftPayload(buildRegeneratePayload(@, flow))]
    BY DEF Regenerate
  <1> DEFINE b == buildRegeneratePayload(paper.payload, flow)
             n == normalizeDraftPayload(b)
  <1>2. DOMAIN b = FormKeys /\ Offered(flow, b)
    BY DEF buildRegeneratePayload, Offered
  <1>3. b = [k \in FormKeys |-> b[k]]
    BY DEF buildRegeneratePayload
  <1> HIDE DEF b
  <1>4. b \in [FormKeys -> FormChoices]
    BY <1>2, <1>3, ChoiceIs DEF Offered
  <1>5. n \in [FormKeys -> FormChoices] /\ Offered(flow, n)
    <2>1. FieldValues(flow, "bench") = {"given"}
      BY PlainChoice
    <2> QED BY <1>2, <1>4, <2>1 DEF normalizeDraftPayload, Offered, FormChoices
  <1> HIDE DEF n
  <1>6. ChangeLimit[flow] \in Nat
    BY ChangeAssumption
  <1>7. paper' = [paper EXCEPT !.flow = flow, !.court = court, !.copied = TRUE, !.answer = "none",
                              !.changes = ChangeLimit[flow], !.payload = n]
    BY <1>1 DEF n, b
  <1> QED BY <1>1, <1>5, <1>6, <1>7 DEF PaperInv, Papers, ChoicesAreOffered, Offered

LEMMA DefaultsSafe == PaperInv /\ DefaultsApplied => PaperInv'
  <1> SUFFICES ASSUME PaperInv, DefaultsApplied PROVE PaperInv'
    OBVIOUS
  <1> DEFINE p == [k \in FormKeys |-> IF paper.payload[k] = "" THEN defaultValue(paper.flow, k)
                                      ELSE paper.payload[k]]
  <1>1. paper' = [paper EXCEPT !.payload = p]
    BY DEF DefaultsApplied
  <1>2. Offered(paper.flow, p)
    BY DefaultOffered DEF Offered, PaperInv, Papers, ChoicesAreOffered
  <1>3. p \in [FormKeys -> FormChoices]
    BY <1>2, ChoiceIs DEF Offered
  <1> HIDE DEF p
  <1> QED BY <1>1, <1>2, <1>3 DEF PaperInv, Papers, ChoicesAreOffered, Offered

\* The server never refuses a form that the page lets through, and a form holds only choices of
\* its flow: for every flow, court type, order of filling and number of changes of mind, forms
\* regenerated from another ticket included (intake-flows.ts, shared index.ts:277-460).
THEOREM FormsAgree == PaperSpec => []PageMatchesServer
  <1>1. PaperInit => PaperInv
    BY PaperStart
  <1>2. PaperInv /\ [PaperNext]_paper => PaperInv'
    <2> SUFFICES ASSUME PaperInv, [PaperNext]_paper PROVE PaperInv'
      OBVIOUS
    <2>1. CASE UNCHANGED paper
      BY <2>1 DEF PaperInv, Papers, ChoicesAreOffered
    <2> QED BY <2>1, FillSafe, ChangeSafe, SubmitSafe, RegenerateSafe, DefaultsSafe DEF PaperNext
  <1>3. PaperInv => PageMatchesServer
    BY DEF PaperInv, Papers, PageMatchesServer
  <1> QED BY <1>1, <1>2, <1>3, PTL DEF PaperSpec

-----------------------------------------------------------------------------
\* What the screens show.

\* The columns the tickets can have, and their assignment rows.
RowStatus == {"ACTIVE", "ACCEPTED", "REJECTED", "SUPERSEDED"}
ViewRow == [status : ViewStatus, archived : BOOLEAN, rate : {Unset, FxRate}, clerkCost : {Unset, 2},
            defaultClerkCost : {1}, submitted : {Unset} \cup 0..FeeLimit, final : 0..FeeLimit,
            wantPdf : BOOLEAN, visible : BOOLEAN]
ViewInv ==
    /\ row \in [ViewTicket -> ViewRow]
    /\ served \in [ViewTicket -> Seq([rep : ViewRep, status : RowStatus])]

LEMMA ViewChangeSafe ==
    ASSUME ViewInv, NEW t \in ViewTicket, NEW r \in ViewRow,
           NEW a \in Seq([rep : ViewRep, status : RowStatus]), Change(t, r, a)
    PROVE  ViewInv'
  BY DEF Change, ViewInv

LEMMA ViewStart == ViewInit => ViewInv
  <1> SUFFICES ASSUME ViewInit PROVE ViewInv
    OBVIOUS
  <1>1. PICK rate \in [ViewTicket -> {Unset, FxRate}], pdf \in SUBSET ViewTicket :
             row = [t \in ViewTicket |-> NewTicket(rate[t], t \in pdf, Unset)]
    BY DEF ViewInit
  <1>2. \A t \in ViewTicket : NewTicket(rate[t], t \in pdf, Unset) \in ViewRow
    BY ViewAssumption DEF NewTicket, ViewRow, ViewStatus
  <1>3. served = [t \in ViewTicket |-> <<>>]
    BY DEF ViewInit
  <1> QED BY <1>1, <1>2, <1>3 DEF ViewInv

LEMMA ViewStep == ViewInv /\ [ViewNext]_viewVars => ViewInv'
  <1> SUFFICES ASSUME ViewInv, [ViewNext]_viewVars PROVE ViewInv'
    OBVIOUS
  <1> DEFINE Rows == [rep : ViewRep, status : RowStatus]
  <1>1. CASE UNCHANGED viewVars
    BY <1>1 DEF viewVars, ViewInv
  <1>2. ASSUME NEW t \in ViewTicket, NEW s \in ViewStatus, SetStatus(t, s) PROVE ViewInv'
    <2>1. [row[t] EXCEPT !.status = s] \in ViewRow /\ served[t] \in Seq(Rows)
      BY DEF ViewInv, ViewRow
    <2> QED BY <1>2, <2>1, ViewChangeSafe DEF SetStatus
  <1>3. ASSUME NEW t \in ViewTicket, NEW rep \in ViewRep, NEW cost \in {Unset, 2},
               AssignRep(t, rep, cost)
        PROVE  ViewInv'
    <2> DEFINE r == [row[t] EXCEPT !.status = "ASSIGNED", !.clerkCost = cost]
               old == [i \in DOMAIN served[t] |->
                        IF served[t][i].status = "ACTIVE"
                        THEN [served[t][i] EXCEPT !.status = "SUPERSEDED"] ELSE served[t][i]]
               a == Append(old, [rep |-> rep, status |-> "ACTIVE"])
    <2>1. r \in ViewRow
      <3>1. [row[t] EXCEPT !.status = "ASSIGNED"] \in ViewRow
        BY DEF ViewInv, ViewRow, ViewStatus
      <3> DEFINE q == [row[t] EXCEPT !.status = "ASSIGNED"]
      <3>2. r = [q EXCEPT !.clerkCost = cost]
        OBVIOUS
      <3> HIDE DEF q, r
      <3>3. q \in ViewRow
        BY <3>1 DEF q
      <3> QED BY <3>2, <3>3 DEF ViewRow
    <2>2. served[t] \in Seq(Rows)
      BY DEF ViewInv
    <2>3. old \in Seq(Rows)
      <3>1. \A i \in DOMAIN served[t] : old[i] \in Rows
        <4> SUFFICES ASSUME NEW i \in DOMAIN served[t] PROVE old[i] \in Rows
          OBVIOUS
        <4>1. i \in 1..Len(served[t])
          BY <2>2
        <4>2. served[t][i] \in Rows
          <5> HIDE DEF Rows
          <5> QED BY <2>2, <4>1, ElementOfSeq
        <4> QED BY <4>2 DEF RowStatus
      <3>2. DOMAIN served[t] = 1..Len(served[t]) /\ Len(served[t]) \in Nat
        BY <2>2
      <3>3. old \in [1..Len(served[t]) -> Rows]
        BY <3>1, <3>2
      <3> HIDE DEF old, Rows
      <3> QED BY <3>2, <3>3, SeqDef
    <2>4. a \in Seq(Rows)
      BY <2>3 DEF RowStatus
    <2>5. Change(t, r, a)
      BY <1>3 DEF AssignRep
    <2> HIDE DEF r, old, a
    <2> QED BY <2>1, <2>4, <2>5, ViewChangeSafe
  <1>4. ASSUME NEW t \in ViewTicket, NEW accepts \in BOOLEAN, AnswerAssignment(t, accepts)
        PROVE  ViewInv'
    <2> DEFINE I == {i \in DOMAIN served[t] : served[t][i].status = "ACTIVE"}
               n == Max(I)
               r == [row[t] EXCEPT !.status = IF accepts THEN "IN_PROGRESS" ELSE "PAID"]
               a == [served[t] EXCEPT ![n].status = IF accepts THEN "ACCEPTED" ELSE "REJECTED"]
    <2>1. r \in ViewRow
      BY DEF ViewInv, ViewRow, ViewStatus
    <2>2. served[t] \in Seq(Rows)
      BY DEF ViewInv
    <2> HIDE DEF n
    <2>3. a \in Seq(Rows)
      <3>1. \A i \in DOMAIN served[t] : a[i] \in Rows
        <4> SUFFICES ASSUME NEW i \in DOMAIN served[t] PROVE a[i] \in Rows
          OBVIOUS
        <4>1. i \in 1..Len(served[t])
          BY <2>2
        <4>2. served[t][i] \in Rows
          <5> HIDE DEF Rows
          <5> QED BY <2>2, <4>1, ElementOfSeq
        <4> QED BY <4>2 DEF RowStatus
      <3>2. DOMAIN served[t] = 1..Len(served[t]) /\ Len(served[t]) \in Nat
        BY <2>2
      <3>3. a \in [1..Len(served[t]) -> Rows]
        BY <3>1, <3>2
      <3> HIDE DEF a, Rows
      <3> QED BY <3>2, <3>3, SeqDef
    <2>4. Change(t, r, a)
      BY <1>4 DEF AnswerAssignment, n
    <2> HIDE DEF r, a
    <2> QED BY <2>1, <2>3, <2>4, ViewChangeSafe
  <1>5. ASSUME NEW t \in ViewTicket, NEW fee \in 0..FeeLimit, SubmitCosts(t, fee) \/ Complete(t, fee)
        PROVE  ViewInv'
    <2> DEFINE done == [row[t] EXCEPT !.status = "COMPLETED", !.final = fee]
               sent == [row[t] EXCEPT !.status = "WAITING_APPROVAL", !.submitted = fee, !.final = fee]
    <2>1. row[t] \in ViewRow /\ served[t] \in Seq(Rows)
      BY DEF ViewInv
    <2>2. done \in ViewRow
      BY <2>1 DEF ViewRow, ViewStatus
    <2>3. sent \in ViewRow
      <3> DEFINE q == [done EXCEPT !.status = "WAITING_APPROVAL"]
      <3>1. q \in ViewRow
        <4> HIDE DEF done
        <4> QED BY <2>2 DEF ViewRow, ViewStatus
      <3>2. sent = [q EXCEPT !.submitted = fee]
        BY <2>1 DEF ViewRow
      <3> HIDE DEF q, sent
      <3> QED BY <3>1, <3>2 DEF ViewRow
    <2>4. CASE SubmitCosts(t, fee)
      <3> HIDE DEF sent
      <3> QED BY <2>1, <2>3, <2>4, ViewChangeSafe DEF SubmitCosts, sent
    <2>5. CASE Complete(t, fee)
      <3> HIDE DEF done
      <3> QED BY <2>1, <2>2, <2>5, ViewChangeSafe DEF Complete, done
    <2> QED BY <1>5, <2>4, <2>5
  <1>6. ASSUME NEW t \in ViewTicket, ArchiveOrRestore(t) \/ ShowDocument(t) PROVE ViewInv'
    <2>1. /\ [row[t] EXCEPT !.archived = ~@] \in ViewRow /\ [row[t] EXCEPT !.visible = TRUE] \in ViewRow
          /\ served[t] \in Seq(Rows)
      BY DEF ViewInv, ViewRow
    <2> QED BY <1>6, <2>1, ViewChangeSafe DEF ArchiveOrRestore, ShowDocument
  <1> QED BY <1>1, <1>2, <1>3, <1>4, <1>5, <1>6 DEF ViewNext

\* What a representative earns by a ticket is a number, and so is every sum of it.
LEMMA EarningsType ==
    ASSUME ViewInv, NEW t \in ViewTicket
    PROVE  earnings(t) \in Nat
  <1> DEFINE r == row[t]
  <1>1. /\ r.clerkCost \in {Unset, 2} /\ r.defaultClerkCost = 1 /\ r.final \in Nat
        /\ r.submitted = Unset \/ r.submitted \in Nat
    BY ViewAssumption DEF ViewInv, ViewRow
  <1>2. ASSUME NEW a \in Nat, NEW b \in Nat PROVE Min({a, b}) \in Nat
    <2>1. \E x \in {a, b} : \A y \in {a, b} : x <= y
      <3>1. CASE a <= b
        BY <3>1
      <3>2. CASE b <= a
        BY <3>2
      <3> QED BY <3>1, <3>2
    <2> QED BY <2>1 DEF Min
  <1>3. r.submitted # Unset => Min({r.submitted, r.final}) \in Nat
    BY <1>1, <1>2
  <1> DEFINE x == IF r.clerkCost # Unset THEN r.clerkCost ELSE r.defaultClerkCost
             y == IF r.submitted = Unset THEN r.final ELSE Min({r.submitted, r.final})
             z == IF r.wantPdf THEN PDF_CLERK_FEE ELSE 0
  <1>4. x \in Nat /\ y \in Nat /\ z \in Nat
    BY <1>1, <1>3 DEF PDF_CLERK_FEE
  <1>5. earnings(t) = x + y + z
    BY DEF earnings
  <1> HIDE DEF x, y, z
  <1> QED BY <1>4, <1>5

LEMMA EarnedIs ==
    ASSUME ViewInv, NEW S \in SUBSET ViewTicket
    PROVE  /\ IsFiniteSet(S)
           /\ earned(S) = SumFunctionOnSet([t \in ViewTicket |-> earnings(t)], S)
           /\ earned(S) \in Nat
  <1> DEFINE e == [t \in ViewTicket |-> earnings(t)]
             f == [t \in S |-> earnings(t)]
  <1>1. IsFiniteSet(S)
    BY ViewAssumption, FS_Subset
  <1>2. \A t \in S : e[t] \in Nat /\ f[t] = e[t]
    BY EarningsType
  <1>3. earned(S) = SumFunctionOnSet(f, S)
    BY DEF earned, SumFunction
  <1> HIDE DEF e, f
  <1>4. SumFunctionOnSet(f, S) = SumFunctionOnSet(e, S)
    <2>1. \A t \in S : e[t] \in Int
      BY <1>2
    <2> QED BY <1>1, <1>2, <2>1, SumSame
  <1>5. SumFunctionOnSet(e, S) \in Nat
    <2>1. \A t \in S : e[t] \in Nat
      BY <1>2
    <2> QED BY <1>1, <2>1, SumNat
  <1> QED BY <1>1, <1>3, <1>4, <1>5 DEF e

\* The two parts of what was earned, by any status, make the whole.
LEMMA EarnedInParts ==
    ASSUME ViewInv, NEW S \in SUBSET ViewTicket
    PROVE  earned(S) = earned({t \in S : row[t].status \in Finished})
                         + earned({t \in S : row[t].status \notin Finished})
  <1> DEFINE e == [t \in ViewTicket |-> earnings(t)]
             A == {t \in S : row[t].status \in Finished}
             B == {t \in S : row[t].status \notin Finished}
  <1>1. S = A \cup B /\ A \cap B = {} /\ A \in SUBSET ViewTicket /\ B \in SUBSET ViewTicket
    OBVIOUS
  <1>2. \A t \in ViewTicket : e[t] \in Int
    BY EarningsType
  <1> HIDE DEF A, B, e
  <1>3. IsFiniteSet(A) /\ IsFiniteSet(B) /\ \A t \in A \cup B : e[t] \in Int
    BY <1>1, <1>2, EarnedIs
  <1>4. SumFunctionOnSet(e, A \cup B) = SumFunctionOnSet(e, A) + SumFunctionOnSet(e, B)
    BY <1>1, <1>3, SumUnion
  <1>5. /\ earned(S) = SumFunctionOnSet(e, S) /\ earned(A) = SumFunctionOnSet(e, A)
        /\ earned(B) = SumFunctionOnSet(e, B)
    BY <1>1, EarnedIs DEF e
  <1> QED BY <1>1, <1>4, <1>5 DEF A, B

\* The newest live assignment of a ticket is one of its assignments, of some representative.
LEMMA NewestLive ==
    ASSUME ViewInv, NEW t \in ViewTicket, live(t) # {}
    PROVE  /\ Max(live(t)) \in DOMAIN served[t] /\ served[t][Max(live(t))].rep \in ViewRep
  <1> DEFINE Rows == [rep : ViewRep, status : RowStatus]
             n == Len(served[t])
  <1>1. served[t] \in Seq(Rows)
    BY DEF ViewInv
  <1>2. DOMAIN served[t] = 1..n /\ n \in Nat
    BY <1>1
  <1> HIDE DEF n
  <1>3. live(t) \in SUBSET (1..n)
    BY <1>2 DEF live
  <1>4. Max(live(t)) \in live(t)
    BY <1>2, <1>3, MaxIsIn
  <1>5. Max(live(t)) \in 1..n
    BY <1>3, <1>4
  <1>6. served[t][Max(live(t))] \in Rows
    <2> HIDE DEF Rows
    <2> QED BY <1>1, <1>5, ElementOfSeq DEF n
  <1> QED BY <1>2, <1>5, <1>6

\* The figures agree.
LEMMA SumsToProfit == ViewInv => EarningsSumToProfit
  <1> SUFFICES ASSUME ViewInv PROVE EarningsSumToProfit
    OBVIOUS
  <1> DEFINE counted == {t \in unarchived : convertible(t)}
             S == {t \in counted : live(t) # {}}
             mine(p) == {t \in unarchived : convertible(t) /\ earner(t, p)}
             e == [t \in ViewTicket |-> earnings(t)]
             w == [t \in S |-> served[t][Max(live(t))].rep]
             g == [p \in ViewRep |-> getRepresentativeEarnings(p).total]
  <1>1. S \in SUBSET ViewTicket /\ \A p : mine(p) \in SUBSET ViewTicket
    BY DEF unarchived
  <1>2. \A t \in S : w[t] \in ViewRep
    BY <1>1, NewestLive
  <1>3. \A p : mine(p) = {t \in S : w[t] = p}
    BY DEF earner
  <1>4. \A p : getRepresentativeEarnings(p).total = earned(mine(p))
    BY DEF getRepresentativeEarnings
  <1>5. getBusinessKpis.representativeProfit = earned(S)
    BY DEF getBusinessKpis
  <1>6. \A t \in S : e[t] \in Int
    BY <1>1, EarningsType
  <1>7. /\ IsFiniteSet(S) /\ IsFiniteSet(ViewRep)
        /\ earned(S) = SumFunctionOnSet(e, S)
        /\ \A p : earned(mine(p)) = SumFunctionOnSet(e, mine(p))
    <2> HIDE DEF S, mine
    <2> QED BY <1>1, ViewAssumption, EarnedIs
  <1>8. SumFunction(g) = SumFunctionOnSet(g, ViewRep)
    BY DEF SumFunction
  <1> DEFINE c == [p \in ViewRep |-> mine(p)]
  <1>9. \A p \in ViewRep : /\ g[p] = SumFunctionOnSet(e, c[p])
                            /\ \A t : t \in c[p] <=> t \in S /\ w[t] = p
    <2> SUFFICES ASSUME NEW p \in ViewRep
                 PROVE  /\ g[p] = SumFunctionOnSet(e, c[p])
                        /\ \A t : t \in c[p] <=> t \in S /\ w[t] = p
      OBVIOUS
    <2>1. g[p] = earned(mine(p)) /\ c[p] = mine(p)
      BY <1>4
    <2> HIDE DEF mine, S, w, e, g, c
    <2>2. \A t : t \in mine(p) <=> t \in S /\ w[t] = p
      BY <1>3
    <2> QED BY <1>7, <2>1, <2>2
  <1>10. SumFunctionOnSet(g, ViewRep) = SumFunctionOnSet(e, S)
    <2>1. IsFiniteSet(S)
      BY <1>7
    <2>2. IsFiniteSet(ViewRep)
      BY <1>7
    <2> HIDE DEF g, e, w, S, c, mine
    <2>3. \A p \in ViewRep : g[p] = SumFunctionOnSet(e, c[p])
      BY <1>9
    <2>4. \A p \in ViewRep : \A t : t \in c[p] <=> t \in S /\ w[t] = p
      BY <1>9
    <2> HIDE DEF counted
    <2> QED BY <2>1, <2>2, <2>3, <2>4, <1>2, <1>6, SumByGroups
  <1>11. SumFunction([p \in ViewRep |-> getRepresentativeEarnings(p).total])
           = getBusinessKpis.representativeProfit
    <2> HIDE DEF e, S
    <2> QED BY <1>5, <1>7, <1>8, <1>10
  <1>12. ASSUME NEW p \in ViewRep
         PROVE  LET x == getRepresentativeEarnings(p) IN x.total = x.realized + x.pending
    <2> DEFINE M == mine(p)
    <2>1. /\ getRepresentativeEarnings(p).total = earned(M)
          /\ getRepresentativeEarnings(p).realized = earned({t \in M : row[t].status \in Finished})
          /\ getRepresentativeEarnings(p).pending = earned({t \in M : row[t].status \notin Finished})
      BY DEF getRepresentativeEarnings
    <2>2. M \in SUBSET ViewTicket
      BY <1>1
    <2> HIDE DEF M
    <2> QED BY <2>1, <2>2, EarnedInParts
  <1> QED BY <1>11, <1>12 DEF EarningsSumToProfit

LEMMA OwedShown == ViewInv => OwedIsShown
  <1> SUFFICES ASSUME ViewInv, NEW p \in ViewRep
               PROVE  getRepresentativeEarnings(p).realized <= getClerkSummary(p).realized
    BY DEF OwedIsShown
  <1> DEFINE T == {t \in unarchived : convertible(t) /\ earner(t, p) /\ row[t].status \in Finished}
             S == {t \in unarchived : everServed(t, p) /\ row[t].status \in Finished}
             e == [t \in ViewTicket |-> earnings(t)]
  <1>1. S \in SUBSET ViewTicket
    BY DEF unarchived
  <1>2. T \in SUBSET S
    BY NewestLive DEF earner, everServed, unarchived
  <1>3. getRepresentativeEarnings(p).realized = earned(T)
    <2>1. T = {t \in {x \in unarchived : convertible(x) /\ earner(x, p)} : row[t].status \in Finished}
      OBVIOUS
    <2> HIDE DEF T
    <2> QED BY <2>1 DEF getRepresentativeEarnings
  <1>4. getClerkSummary(p).realized = earned(S)
    <2>1. S = {t \in {x \in unarchived : everServed(x, p)} : row[t].status \in Finished}
      OBVIOUS
    <2> HIDE DEF S
    <2> QED BY <2>1 DEF getClerkSummary
  <1>5. \A t \in ViewTicket : e[t] \in Nat
    BY EarningsType
  <1> HIDE DEF S, T
  <1>6. /\ IsFiniteSet(S) /\ T \in SUBSET ViewTicket
        /\ earned(S) = SumFunctionOnSet(e, S) /\ earned(T) = SumFunctionOnSet(e, T)
    BY <1>1, <1>2, EarnedIs
  <1> HIDE DEF e
  <1>7. SumFunctionOnSet(e, T) <= SumFunctionOnSet(e, S)
    <2>1. \A t \in S : e[t] \in Nat
      BY <1>1, <1>5
    <2>2. \A t \in T : e[t] \in Nat /\ e[t] <= e[t]
      BY <1>2, <2>1
    <2> QED BY <1>2, <1>6, <2>1, <2>2, SumMonotone
  <1> QED BY <1>3, <1>4, <1>6, <1>7

\* Rows that carry the id of their ticket are as many as the tickets.
LEMMA RowsAreTickets ==
    ASSUME NEW T, IsFiniteSet(T), NEW f, \A t \in T : f[t].id = t
    PROVE  Cardinality({f[t] : t \in T}) = Cardinality(T)
  <1> DEFINE R == {f[t] : t \in T}
             b == [t \in T |-> f[t]]
  <1>1. b \in Bijection(T, R)
    <2>1. b \in [T -> R]
      OBVIOUS
    <2>2. \A s, t \in T : b[s] = b[t] => s = t
      OBVIOUS
    <2>3. \A r \in R : \E t \in T : b[t] = r
      OBVIOUS
    <2> HIDE DEF b, R
    <2>4. b \in Injection(T, R)
      BY <2>1, <2>2 DEF Injection, IsInjective
    <2>5. b \in Surjection(T, R)
      BY <2>1, <2>3 DEF Surjection
    <2> QED BY <2>4, <2>5 DEF Bijection
  <1> HIDE DEF R
  <1>2. ExistsBijection(T, R)
    BY <1>1 DEF ExistsBijection
  <1>3. Cardinality(R) = Cardinality(T)
    BY <1>2, FS_Bijection
  <1> QED BY <1>3 DEF R

\* What the list shows of the tickets that pass a filter of the status.
LEMMA ListCounts ==
    ASSUME NEW caller, NEW X
    PROVE  Cardinality({r \in findAll(caller) : r.status \in X})
             = Cardinality({t \in listed(caller) : row[t].status \in X})
  <1> DEFINE T == {t \in listed(caller) : row[t].status \in X}
             f == [t \in ViewTicket |->
                     [id |-> t, status |-> row[t].status,
                      phone |-> caller.role = "representative" => holds(t, caller.id),
                      documents |-> caller.role = "consumer" /\ redactTicketForConsumer(t)]]
  <1>1. T \in SUBSET ViewTicket /\ listed(caller) \in SUBSET ViewTicket
    BY DEF listed
  <1>2. findAll(caller) = {f[t] : t \in listed(caller)}
    BY <1>1 DEF findAll
  <1>3. \A t \in ViewTicket : f[t].id = t /\ f[t].status = row[t].status
    OBVIOUS
  <1> HIDE DEF f
  <1>4. {r \in findAll(caller) : r.status \in X} = {f[t] : t \in T}
    BY <1>1, <1>2, <1>3
  <1>5. IsFiniteSet(T) /\ \A t \in T : f[t].id = t
    BY <1>1, <1>3, ViewAssumption, FS_Subset
  <1> HIDE DEF T
  <1>6. Cardinality({f[t] : t \in T}) = Cardinality(T)
    BY <1>5, RowsAreTickets
  <1> QED BY <1>4, <1>6 DEF T

\* The tickets a list shows have a status; the consumer's list is the consumer's tickets.
LEMMA ListedTickets ==
    ASSUME ViewInv, NEW caller
    PROVE  /\ IsFiniteSet(listed(caller))
           /\ \A t \in listed(caller) : t \in ViewTicket /\ row[t].status \in ViewStatus
           /\ \A r \in findAll(caller) : r.status \in ViewStatus
  <1>1. listed(caller) \in SUBSET ViewTicket
    BY DEF listed
  <1>2. \A t \in ViewTicket : row[t].status \in ViewStatus
    BY DEF ViewInv, ViewRow
  <1>3. \A r \in findAll(caller) : \E t \in listed(caller) : r.status = row[t].status
    BY DEF findAll
  <1>4. IsFiniteSet(listed(caller))
    BY <1>1, ViewAssumption, FS_Subset
  <1> QED BY <1>1, <1>2, <1>3, <1>4

LEMMA ConsumerCounters ==
    ASSUME ViewInv, NEW c
    PROVE  LET s == getConsumerSummary(c)
               caller == [role |-> "consumer", id |-> c]
               rows == findAll(caller) IN
           /\ s.active = Cardinality(myTicketsTab(c, "active"))
           /\ s.total = s.active + Cardinality(myTicketsTab(c, "completed"))
           /\ s.pending = Cardinality(myTicketsTab(c, "unpaid"))
           /\ \A st \in ViewStatus :
                 countsByStatus(caller, st) = Cardinality({r \in rows : r.status = st})
  <1> DEFINE s == getConsumerSummary(c)
             caller == [role |-> "consumer", id |-> c]
             mine == listed(caller)
             rows == findAll(caller)
             of(X) == {t \in mine : row[t].status \in X}
             Unfinished == ViewStatus \ Finished
  <1>1. {t \in unarchived : Owner[t] = c} = mine
    BY DEF unarchived, listed, inScope
  <1>2. /\ IsFiniteSet(mine) /\ \A t \in mine : row[t].status \in ViewStatus
        /\ \A r \in rows : r.status \in ViewStatus
    BY ListedTickets
  <1>3. \A X : Cardinality({r \in rows : r.status \in X}) = Cardinality(of(X))
    BY ListCounts
  <1>4. /\ s.total = Cardinality(mine)
        /\ s.pending = Cardinality({t \in mine : row[t].status = "UNPAID"})
        /\ s.active = Cardinality({t \in mine : row[t].status \notin Finished})
    BY <1>1 DEF getConsumerSummary, activeOf
  <1>5. /\ myTicketsTab(c, "active") = {r \in rows : r.status \notin Finished}
        /\ myTicketsTab(c, "completed") = {r \in rows : r.status \in Finished}
        /\ myTicketsTab(c, "unpaid") = {r \in rows : r.status = "UNPAID"}
    BY DEF myTicketsTab
  <1> HIDE DEF s, mine, rows
  <1>6. /\ {t \in mine : row[t].status \notin Finished} = of(Unfinished)
        /\ {t \in mine : row[t].status = "UNPAID"} = of({"UNPAID"})
        /\ {r \in rows : r.status \notin Finished} = {r \in rows : r.status \in Unfinished}
        /\ \A x : {r \in rows : r.status = x} = {r \in rows : r.status \in {x}}
    BY <1>2
  <1>7. /\ s.active = Cardinality(of(Unfinished))
        /\ s.pending = Cardinality(of({"UNPAID"}))
        /\ Cardinality(myTicketsTab(c, "active")) = Cardinality(of(Unfinished))
        /\ Cardinality(myTicketsTab(c, "completed")) = Cardinality(of(Finished))
        /\ Cardinality(myTicketsTab(c, "unpaid")) = Cardinality(of({"UNPAID"}))
    <2> HIDE DEF of, Unfinished
    <2> QED BY <1>3, <1>4, <1>5, <1>6
  <1>8. Cardinality(mine) = Cardinality(of(Unfinished)) + Cardinality(of(Finished))
    <2> DEFINE A == of(Unfinished)
               B == of(Finished)
    <2>1. mine = A \cup B /\ A \cap B = {} /\ A \in SUBSET mine /\ B \in SUBSET mine
      BY <1>2
    <2> HIDE DEF A, B
    <2>2. IsFiniteSet(A) /\ IsFiniteSet(B)
      BY <1>2, <2>1, FS_Subset
    <2>3. Cardinality(A \cup B) = Cardinality(A) + Cardinality(B) - Cardinality(A \cap B)
      BY <2>2, FS_Union
    <2>4. Cardinality(A \cap B) = 0 /\ Cardinality(A) \in Nat /\ Cardinality(B) \in Nat
      BY <2>1, <2>2, FS_EmptySet, FS_CardinalityType
    <2>5. Cardinality(mine) = Cardinality(A) + Cardinality(B)
      BY <2>1, <2>3, <2>4
    <2> QED BY <2>5 DEF A, B
  <1>9. ASSUME NEW st \in ViewStatus
        PROVE  countsByStatus(caller, st) = Cardinality({r \in rows : r.status = st})
    <2>1. countsByStatus(caller, st) = Cardinality(of({st}))
      <3>1. {t \in ViewTicket : ~row[t].archived /\ inScope(t, caller) /\ row[t].status = st} = of({st})
        BY DEF mine, listed
      <3> QED BY <3>1 DEF countsByStatus
    <2>2. Cardinality({r \in rows : r.status = st}) = Cardinality(of({st}))
      BY <1>3, <1>6
    <2> QED BY <2>1, <2>2
  <1> HIDE DEF of, Unfinished
  <1>10. s.total = s.active + Cardinality(myTicketsTab(c, "completed"))
    BY <1>4, <1>7, <1>8
  <1> QED BY <1>7, <1>9, <1>10 DEF s, rows

LEMMA CountersShown == ViewInv => CountersAgree
  <1> SUFFICES ASSUME ViewInv PROVE CountersAgree
    OBVIOUS
  <1>1. ASSUME NEW p \in ViewRep, NEW st \in ViewStatus
        PROVE  getClerkSummary(p).counts[st]
                 = countsByStatus([role |-> "representative", id |-> p], st)
    <2> DEFINE caller == [role |-> "representative", id |-> p]
    <2>1. {t \in {x \in unarchived : everServed(x, p)} : row[t].status = st}
            = {t \in ViewTicket : ~row[t].archived /\ inScope(t, caller) /\ row[t].status = st}
      BY DEF unarchived, inScope
    <2>2. getClerkSummary(p).counts[st]
            = Cardinality({t \in {x \in unarchived : everServed(x, p)} : row[t].status = st})
      BY DEF getClerkSummary
    <2> QED BY <2>1, <2>2 DEF countsByStatus
  <1>2. \A c \in {Owner[t] : t \in ViewTicket} :
           LET s == getConsumerSummary(c)
               caller == [role |-> "consumer", id |-> c]
               rows == findAll(caller) IN
           /\ s.active = Cardinality(myTicketsTab(c, "active"))
           /\ s.total = s.active + Cardinality(myTicketsTab(c, "completed"))
           /\ s.pending = Cardinality(myTicketsTab(c, "unpaid"))
           /\ \A st \in ViewStatus :
                 countsByStatus(caller, st) = Cardinality({r \in rows : r.status = st})
    BY ConsumerCounters
  <1> QED BY <1>1, <1>2 DEF CountersAgree

\* A row of a list is the record its ticket opens with, for every kind of caller.
LEMMA DetailsShown == ListAgreesWithDetail
  <1> SUFFICES ASSUME NEW caller \in Everyone, NEW r \in findAll(caller)
               PROVE  opens(r.id, caller) /\ findOne(r.id, caller) = r
    BY DEF ListAgreesWithDetail
  <1>1. PICK t \in listed(caller) : r = findOne(t, caller)
    BY DEF findAll, findOne
  <1>2. r.id = t
    BY <1>1 DEF findOne
  <1>3. ~row[t].archived /\ inScope(t, caller)
    BY DEF listed
  <1>4. opens(t, caller)
    <2>1. CASE caller.role = "consumer"
      BY <1>3, <2>1 DEF inScope, opens
    <2>2. CASE caller.role = "representative"
      BY <1>3, <2>2 DEF inScope, opens
    <2>3. CASE caller.role \notin {"consumer", "representative"}
      BY <1>3, <2>3 DEF inScope, opens
    <2> QED BY <2>1, <2>2, <2>3
  <1> QED BY <1>1, <1>2, <1>4

\* Whatever the tickets go through, two screens that show the same thing show the same.
THEOREM NumbersSound == ViewSpec => []NumbersAgree
  <1>1. ViewInv => NumbersAgree
    BY SumsToProfit, OwedShown, CountersShown, DetailsShown DEF NumbersAgree
  <1> QED BY <1>1, ViewStart, ViewStep, PTL DEF ViewSpec
=============================================================================
