---------------------------- MODULE SumTheorems -----------------------------
(***************************************************************************)
(* What SumFunctionOnSet computes.  The money invariants add up columns of *)
(* finitely many rows; these are the facts about such sums that their      *)
(* proofs use.  The sum is a recursive function that takes the elements in *)
(* the order CHOOSE gives them, so the first thing to show is that there   *)
(* is such a function and that the order does not matter.  Induction is by *)
(* least counterexamples (WFMin) on cardinalities.                         *)
(***************************************************************************)
EXTENDS Integers, FiniteSets, Functions, Folds, FiniteSetTheorems, WellFoundedInduction, TLAPS

-----------------------------------------------------------------------------
\* Induction on natural numbers for a set of numbers.
LEMMA NatSetInduction ==
    ASSUME NEW G, 0 \in G, \A n \in Nat : n \in G => n + 1 \in G
    PROVE  \A n \in Nat : n \in G
<1> DEFINE R == {ss \in Nat \X Nat : ss[1] < ss[2]}
           T == Nat \ G
<1>1. IsWellFoundedOn(R, Nat)
  BY NatLessThanWellFounded, Zenon DEF OpToRel
<1>2. SUFFICES ASSUME T # {} PROVE FALSE
  OBVIOUS
<1>3. \E x \in T : \A y \in T : ~ (<<y, x>> \in R)
  <2>1. T \subseteq Nat
    OBVIOUS
  <2> HIDE DEF R, T
  <2> QED BY <1>1, <1>2, <2>1, WFMin, Zenon
<1>4. PICK x \in T : \A y \in T : ~ (<<y, x>> \in R)
  BY <1>3
<1>5. x - 1 \in Nat /\ x - 1 < x /\ x = (x - 1) + 1
  BY <1>4
<1>6. x - 1 \in G
  BY <1>4, <1>5
<1> QED BY <1>5, <1>6

\* A set of numbers up to n that is not empty has a greatest one.
LEMMA HasGreatest ==
    ASSUME NEW n \in Nat, NEW T \in SUBSET (1..n), T # {}
    PROVE  \E m \in T : \A l \in T : l <= m
  <1> DEFINE G == {k \in Nat : \A R \in SUBSET (1..k) : R # {} => \E m \in R : \A l \in R : l <= m}
  <1>1. 0 \in G
    <2>1. 1..0 = {}
      OBVIOUS
    <2> QED BY <2>1
  <1>2. ASSUME NEW k \in Nat, k \in G PROVE k + 1 \in G
    <2> SUFFICES ASSUME NEW R \in SUBSET (1..(k + 1)), R # {}
                 PROVE  \E m \in R : \A l \in R : l <= m
      OBVIOUS
    <2>1. CASE k + 1 \in R
      <3>1. \A l \in R : l <= k + 1
        OBVIOUS
      <3> QED BY <2>1, <3>1
    <2>2. CASE k + 1 \notin R
      <3>1. R \in SUBSET (1..k)
        BY <2>2
      <3> QED BY <1>2, <3>1
    <2> QED BY <2>1, <2>2
  <1> HIDE DEF G
  <1>3. n \in G
    BY <1>1, <1>2, NatSetInduction
  <1> QED BY <1>3 DEF G

-----------------------------------------------------------------------------
\* The recursive function behind the sum of the values v over the subsets of S.
First(T) == CHOOSE x \in T : TRUE

SumStep(f, v, T) == IF T = {} THEN 0 ELSE v[First(T)] + f[T \ {First(T)}]

IsSum(f, v, S) == f = [T \in SUBSET S |-> SumStep(f, v, T)]

Sums(f, v, S) == \A T \in SUBSET S : f[T] = SumStep(f, v, T)

\* Removing the first element of a nonempty finite set.
LEMMA WithoutFirst ==
    ASSUME NEW S, IsFiniteSet(S), NEW T \in SUBSET S, T # {}
    PROVE  /\ First(T) \in T /\ T \ {First(T)} \in SUBSET S
           /\ Cardinality(T) \in Nat \ {0}
           /\ Cardinality(T \ {First(T)}) = Cardinality(T) - 1
<1>1. First(T) \in T
  BY Zenon DEF First
<1>2. IsFiniteSet(T) /\ Cardinality(T) \in Nat /\ Cardinality(T) # 0
  BY FS_Subset, FS_CardinalityType, FS_EmptySet
<1>3. Cardinality(T \ {First(T)}) = Cardinality(T) - 1
  BY <1>1, <1>2, FS_RemoveElement
<1> QED BY <1>1, <1>2, <1>3

\* There is such a function: it is built up by cardinality.
LEMMA SumExists ==
    ASSUME NEW S, IsFiniteSet(S), NEW v, \A x \in S : v[x] \in Int
    PROVE  \E f \in [SUBSET S -> Int] : IsSum(f, v, S)
<1> DEFINE Upto(f, n) == \A T \in SUBSET S : Cardinality(T) <= n => f[T] = SumStep(f, v, T)
           G == {n \in Nat : \E f \in [SUBSET S -> Int] : Upto(f, n)}
<1>0. \A T \in SUBSET S : Cardinality(T) \in Nat /\ (Cardinality(T) = 0 => T = {})
  BY FS_Subset, FS_CardinalityType, FS_EmptySet
<1>1. 0 \in G
  <2> DEFINE f == [T \in SUBSET S |-> 0]
  <2>1. f \in [SUBSET S -> Int]
    OBVIOUS
  <2>2. Upto(f, 0)
    BY <1>0 DEF SumStep
  <2> QED BY <2>1, <2>2
<1>2. ASSUME NEW n \in Nat, n \in G PROVE n + 1 \in G
  <2>1. PICK f \in [SUBSET S -> Int] : Upto(f, n)
    BY <1>2
  <2> DEFINE g == [T \in SUBSET S |-> IF Cardinality(T) = n + 1 THEN SumStep(f, v, T) ELSE f[T]]
  <2>2. ASSUME NEW T \in SUBSET S PROVE SumStep(f, v, T) \in Int
    <3>1. CASE T = {}
      BY <3>1 DEF SumStep
    <3>2. CASE T # {}
      <4>1. First(T) \in S /\ T \ {First(T)} \in SUBSET S
        BY <3>2, WithoutFirst
      <4>2. v[First(T)] \in Int /\ f[T \ {First(T)}] \in Int
        BY <4>1
      <4> QED BY <3>2, <4>2 DEF SumStep
    <3> QED BY <3>1, <3>2
  <2>3. g \in [SUBSET S -> Int]
    BY <2>2
  <2>4. ASSUME NEW T \in SUBSET S, Cardinality(T) <= n + 1
        PROVE  g[T] = SumStep(g, v, T)
    <3>1. SumStep(g, v, T) = SumStep(f, v, T)
      <4>1. CASE T = {}
        BY <4>1 DEF SumStep
      <4>2. CASE T # {}
        <5>1. /\ T \ {First(T)} \in SUBSET S
              /\ Cardinality(T \ {First(T)}) # n + 1
          BY <4>2, <2>4, WithoutFirst
        <5>2. g[T \ {First(T)}] = f[T \ {First(T)}]
          BY <5>1
        <5> HIDE DEF g
        <5> QED BY <4>2, <5>2 DEF SumStep
      <4> QED BY <4>1, <4>2
    <3>2. CASE Cardinality(T) = n + 1
      <4>1. g[T] = SumStep(f, v, T)
        BY <3>2
      <4> QED BY <3>1, <4>1
    <3>3. CASE Cardinality(T) # n + 1
      <4>1. Cardinality(T) <= n
        BY <1>0, <2>4, <3>3
      <4>2. g[T] = f[T]
        BY <3>3
      <4>3. f[T] = SumStep(f, v, T)
        BY <2>1, <4>1
      <4> QED BY <3>1, <4>2, <4>3
    <3> QED BY <3>2, <3>3
  <2> HIDE DEF g
  <2>5. Upto(g, n + 1)
    BY <2>4
  <2> QED BY <2>3, <2>5
<1>3. Cardinality(S) \in G
  <2>1. Cardinality(S) \in Nat
    BY FS_CardinalityType
  <2> HIDE DEF G
  <2> QED BY <1>1, <1>2, <2>1, NatSetInduction
<1>4. PICK f \in [SUBSET S -> Int] : Upto(f, Cardinality(S))
  BY <1>3
<1>5. \A T \in SUBSET S : f[T] = SumStep(f, v, T)
  BY <1>4, FS_Subset
<1>6. IsSum(f, v, S)
  BY <1>5 DEF IsSum
<1> QED BY <1>6

\* The facts that characterize it.
LEMMA SumFacts ==
    ASSUME NEW S, IsFiniteSet(S), NEW v, \A x \in S : v[x] \in Int
    PROVE  \E f : SumFunctionOnSet(v, S) = f[S] /\ Sums(f, v, S)
<1> DEFINE f == CHOOSE g : IsSum(g, v, S)
<1>1. IsSum(f, v, S)
  BY SumExists, Zenon
<1>2. SumFunctionOnSet(v, S) = f[S]
  BY Zenon DEF SumFunctionOnSet, FoldFunctionOnSet, MapThenFoldSet, IsSum, SumStep, First
<1> HIDE DEF f
<1>3. Sums(f, v, S)
  BY <1>1 DEF IsSum, Sums
<1> QED BY <1>2, <1>3

\* Its values on the subsets are integers.
LEMMA SumInt ==
    ASSUME NEW S, IsFiniteSet(S), NEW v, \A x \in S : v[x] \in Int,
           NEW f, Sums(f, v, S)
    PROVE  \A T \in SUBSET S : f[T] \in Int
<1> DEFINE G == {n \in Nat : \A T \in SUBSET S : Cardinality(T) = n => f[T] \in Int}
<1>0. \A T \in SUBSET S : Cardinality(T) \in Nat /\ (Cardinality(T) = 0 => T = {})
  BY FS_Subset, FS_CardinalityType, FS_EmptySet
<1>1. 0 \in G
  <2> SUFFICES ASSUME NEW T \in SUBSET S, Cardinality(T) = 0 PROVE f[T] \in Int
    OBVIOUS
  <2>1. T = {} /\ f[T] = SumStep(f, v, T)
    BY <1>0 DEF Sums
  <2> QED BY <2>1 DEF SumStep
<1>2. ASSUME NEW n \in Nat, n \in G PROVE n + 1 \in G
  <2> SUFFICES ASSUME NEW T \in SUBSET S, Cardinality(T) = n + 1 PROVE f[T] \in Int
    OBVIOUS
  <2>1. T # {}
    <3>1. Cardinality({}) = 0 /\ n + 1 # 0
      BY FS_EmptySet
    <3> QED BY <3>1, Zenon
  <2>2. First(T) \in S /\ T \ {First(T)} \in SUBSET S /\ Cardinality(T \ {First(T)}) = n
    BY <2>1, WithoutFirst
  <2>3. f[T \ {First(T)}] \in Int /\ v[First(T)] \in Int
    BY <1>2, <2>2
  <2> QED BY <2>1, <2>3 DEF Sums, SumStep
<1>3. \A n \in Nat : n \in G
  <2> HIDE DEF G
  <2> QED BY <1>1, <1>2, NatSetInduction
<1> QED BY <1>0, <1>3

\* Any element may be taken first.
LEMMA AnyOrder ==
    ASSUME NEW S, IsFiniteSet(S), NEW v, \A x \in S : v[x] \in Int,
           NEW f, Sums(f, v, S)
    PROVE  \A T \in SUBSET S : \A x \in T : f[T] = v[x] + f[T \ {x}]
<1> DEFINE Good(T) == \A x \in T : f[T] = v[x] + f[T \ {x}]
           G == {n \in Nat : \A T \in SUBSET S : Cardinality(T) = n => Good(T)}
<1>0. \A T \in SUBSET S : /\ IsFiniteSet(T) /\ Cardinality(T) \in Nat
                          /\ Cardinality(T) = 0 => T = {}
  BY FS_Subset, FS_CardinalityType, FS_EmptySet
<1>00. \A T \in SUBSET S : f[T] \in Int
  BY SumInt
<1>1. 0 \in G
  BY <1>0
<1>2. ASSUME NEW n \in Nat, n \in G PROVE n + 1 \in G
  <2> SUFFICES ASSUME NEW T \in SUBSET S, Cardinality(T) = n + 1 PROVE Good(T)
    OBVIOUS
  <2> DEFINE c == First(T)
  <2>1. T # {}
    <3>1. Cardinality({}) = 0 /\ n + 1 # 0
      BY FS_EmptySet
    <3> QED BY <3>1, Zenon
  <2>2. c \in T /\ T \ {c} \in SUBSET S /\ Cardinality(T \ {c}) = n
    BY <2>1, WithoutFirst
  <2>3. f[T] = v[c] + f[T \ {c}]
    BY <2>1 DEF Sums, SumStep
  <2> HIDE DEF c
  <2>4. Good(T \ {c}) /\ v[c] \in Int
    BY <1>2, <2>2
  <2>5. ASSUME NEW x \in T, x # c PROVE f[T] = v[x] + f[T \ {x}]
    <3>1. /\ T \ {x} \in SUBSET S /\ Cardinality(T \ {x}) = n
          /\ c \in T \ {x} /\ x \in T \ {c}
      BY <1>0, <2>2, <2>5, FS_RemoveElement
    <3>2. Good(T \ {x}) /\ v[x] \in Int
      BY <1>2, <3>1
    <3> DEFINE rest == (T \ {c}) \ {x}
    <3>3. (T \ {x}) \ {c} = rest /\ rest \in SUBSET S
      OBVIOUS
    <3> HIDE DEF rest
    <3>4. f[T \ {x}] = v[c] + f[rest] /\ f[T \ {c}] = v[x] + f[rest]
      BY <2>4, <3>1, <3>2, <3>3 DEF rest
    <3>5. f[rest] \in Int
      BY <1>00, <3>3
    <3> QED BY <2>3, <2>4, <3>2, <3>4, <3>5
  <2> QED BY <2>3, <2>5
<1>3. \A n \in Nat : n \in G
  <2> HIDE DEF G
  <2> QED BY <1>1, <1>2, NatSetInduction
<1> QED BY <1>0, <1>3

\* Functions for two sets and two functions of values that agree have the same value on
\* the common subsets.
LEMMA SumsAgree ==
    ASSUME NEW S, IsFiniteSet(S), NEW T \in SUBSET S, NEW v, NEW u, \A x \in T : v[x] = u[x],
           NEW f, Sums(f, v, S),
           NEW g, Sums(g, u, T)
    PROVE  \A U \in SUBSET T : f[U] = g[U]
<1> DEFINE G == {n \in Nat : \A U \in SUBSET T : Cardinality(U) = n => f[U] = g[U]}
<1>0. IsFiniteSet(T)
  BY FS_Subset
<1>00. \A U \in SUBSET T : /\ Cardinality(U) \in Nat
                           /\ Cardinality(U) = 0 => U = {}
  BY <1>0, FS_Subset, FS_CardinalityType, FS_EmptySet
<1>1. 0 \in G
  <2> SUFFICES ASSUME NEW U \in SUBSET T, Cardinality(U) = 0 PROVE f[U] = g[U]
    OBVIOUS
  <2>1. U = {} /\ U \in SUBSET S
    BY <1>00
  <2> QED BY <2>1 DEF Sums, SumStep
<1>2. ASSUME NEW n \in Nat, n \in G PROVE n + 1 \in G
  <2> SUFFICES ASSUME NEW U \in SUBSET T, Cardinality(U) = n + 1 PROVE f[U] = g[U]
    OBVIOUS
  <2>1. U # {}
    <3>1. Cardinality({}) = 0 /\ n + 1 # 0
      BY FS_EmptySet
    <3> QED BY <3>1, Zenon
  <2>2. /\ First(U) \in T /\ U \ {First(U)} \in SUBSET T
        /\ Cardinality(U \ {First(U)}) = n
    BY <1>0, <2>1, WithoutFirst
  <2>3. f[U \ {First(U)}] = g[U \ {First(U)}] /\ v[First(U)] = u[First(U)]
    BY <1>2, <2>2
  <2>4. U \in SUBSET S
    OBVIOUS
  <2>5. f[U] = SumStep(f, v, U) /\ g[U] = SumStep(g, u, U)
    BY <2>4 DEF Sums
  <2> QED BY <2>1, <2>3, <2>5 DEF SumStep
<1>3. \A n \in Nat : n \in G
  <2> HIDE DEF G
  <2> QED BY <1>1, <1>2, NatSetInduction
<1> QED BY <1>00, <1>3

-----------------------------------------------------------------------------
\* The facts that proofs about models cite.

\* An empty sum is 0.
THEOREM SumEmpty ==
    ASSUME NEW v
    PROVE  SumFunctionOnSet(v, {}) = 0
<1>1. IsFiniteSet({}) /\ \A x \in {} : v[x] \in Int
  BY FS_EmptySet
<1>2. PICK f : SumFunctionOnSet(v, {}) = f[{}] /\ Sums(f, v, {})
  BY <1>1, SumFacts
<1> QED BY <1>2 DEF Sums, SumStep

\* A finite sum of integers is an integer.
THEOREM SumType ==
    ASSUME NEW S, IsFiniteSet(S), NEW v, \A x \in S : v[x] \in Int
    PROVE  SumFunctionOnSet(v, S) \in Int
<1>1. PICK f : SumFunctionOnSet(v, S) = f[S] /\ Sums(f, v, S)
  BY SumFacts
<1>2. f[S] \in Int
  BY <1>1, SumInt
<1> QED BY <1>1, <1>2

\* Only the values on the set matter.
THEOREM SumSame ==
    ASSUME NEW S, IsFiniteSet(S), NEW v, \A x \in S : v[x] \in Int,
           NEW u, \A x \in S : u[x] = v[x]
    PROVE  SumFunctionOnSet(u, S) = SumFunctionOnSet(v, S)
<1>1. PICK f : SumFunctionOnSet(v, S) = f[S] /\ Sums(f, v, S)
  BY SumFacts
<1>2. \A x \in S : u[x] \in Int
  OBVIOUS
<1>3. PICK g : SumFunctionOnSet(u, S) = g[S] /\ Sums(g, u, S)
  BY <1>2, SumFacts
<1>4. S \in SUBSET S /\ \A x \in S : v[x] = u[x]
  OBVIOUS
<1>5. ASSUME NEW W \in SUBSET S, \A x \in W : v[x] = u[x], Sums(g, u, W)
      PROVE  \A T \in SUBSET W : f[T] = g[T]
  BY <1>1, <1>5, SumsAgree
<1> QED BY <1>1, <1>3, <1>4, <1>5, Zenon

\* Any element can be split off.
THEOREM SumRemove ==
    ASSUME NEW S, IsFiniteSet(S), NEW v, \A x \in S : v[x] \in Int, NEW x \in S
    PROVE  SumFunctionOnSet(v, S) = v[x] + SumFunctionOnSet(v, S \ {x})
<1> DEFINE R == S \ {x}
<1>1. PICK f : SumFunctionOnSet(v, S) = f[S] /\ Sums(f, v, S)
  BY SumFacts
<1>2. IsFiniteSet(R) /\ R \in SUBSET S /\ \A y \in R : v[y] \in Int
  BY FS_RemoveElement
<1> HIDE DEF R
<1>3. PICK g : SumFunctionOnSet(v, R) = g[R] /\ Sums(g, v, R)
  BY <1>2, SumFacts
<1>4. R \in SUBSET R /\ \A y \in R : v[y] = v[y]
  OBVIOUS
<1>5. f[R] = g[R]
  BY <1>1, <1>2, <1>3, <1>4, SumsAgree
<1>6. S \in SUBSET S
  OBVIOUS
<1>7. f[S] = v[x] + f[S \ {x}]
  BY <1>1, <1>6, AnyOrder
<1> QED BY <1>1, <1>3, <1>5, <1>7 DEF R

\* A new element adds its value.
THEOREM SumAdd ==
    ASSUME NEW S, IsFiniteSet(S), NEW x, x \notin S, NEW v, \A y \in S \cup {x} : v[y] \in Int
    PROVE  SumFunctionOnSet(v, S \cup {x}) = v[x] + SumFunctionOnSet(v, S)
<1> DEFINE T == S \cup {x}
<1>1. IsFiniteSet(T) /\ x \in T /\ T \ {x} = S /\ \A y \in T : v[y] \in Int
  BY FS_AddElement
<1> HIDE DEF T
<1>2. SumFunctionOnSet(v, T) = v[x] + SumFunctionOnSet(v, T \ {x})
  BY <1>1, SumRemove
<1> QED BY <1>1, <1>2 DEF T

\* Changing one value changes the sum by as much.
THEOREM SumChange ==
    ASSUME NEW S, IsFiniteSet(S), NEW v, \A y \in S : v[y] \in Int,
           NEW u, \A y \in S : u[y] \in Int, NEW x \in S, \A y \in S \ {x} : u[y] = v[y]
    PROVE  SumFunctionOnSet(u, S) = SumFunctionOnSet(v, S) + u[x] - v[x]
<1> DEFINE R == S \ {x}
<1>1. IsFiniteSet(R) /\ \A y \in R : v[y] \in Int /\ u[y] = v[y]
  BY FS_RemoveElement
<1>2. /\ SumFunctionOnSet(v, S) = v[x] + SumFunctionOnSet(v, R)
      /\ SumFunctionOnSet(u, S) = u[x] + SumFunctionOnSet(u, R)
  BY SumRemove
<1> HIDE DEF R
<1>3. SumFunctionOnSet(u, R) = SumFunctionOnSet(v, R) /\ SumFunctionOnSet(v, R) \in Int
  BY <1>1, SumSame, SumType
<1>4. v[x] \in Int /\ u[x] \in Int
  OBVIOUS
<1> QED BY <1>2, <1>3, <1>4

\* The sum of differences is the difference of the sums.
THEOREM SumMinus ==
    ASSUME NEW S, IsFiniteSet(S), NEW v, \A y \in S : v[y] \in Int,
           NEW u, \A y \in S : u[y] \in Int, NEW d, \A y \in S : d[y] = u[y] - v[y]
    PROVE  SumFunctionOnSet(d, S) = SumFunctionOnSet(u, S) - SumFunctionOnSet(v, S)
<1> DEFINE Diff(T) == SumFunctionOnSet(d, T) = SumFunctionOnSet(u, T) - SumFunctionOnSet(v, T)
           G == {n \in Nat : \A T \in SUBSET S : Cardinality(T) = n => Diff(T)}
<1>0. \A T \in SUBSET S : /\ IsFiniteSet(T) /\ Cardinality(T) \in Nat
                          /\ Cardinality(T) = 0 => T = {}
  BY FS_Subset, FS_CardinalityType, FS_EmptySet
<1>1. 0 \in G
  <2> SUFFICES ASSUME NEW T \in SUBSET S, Cardinality(T) = 0 PROVE Diff(T)
    OBVIOUS
  <2>1. T = {}
    BY <1>0
  <2>2. /\ SumFunctionOnSet(d, {}) = 0 /\ SumFunctionOnSet(u, {}) = 0
        /\ SumFunctionOnSet(v, {}) = 0
    BY SumEmpty
  <2> QED BY <2>1, <2>2
<1>2. ASSUME NEW n \in Nat, n \in G PROVE n + 1 \in G
  <2> SUFFICES ASSUME NEW T \in SUBSET S, Cardinality(T) = n + 1 PROVE Diff(T)
    OBVIOUS
  <2>1. T # {}
    <3>1. Cardinality({}) = 0 /\ n + 1 # 0
      BY FS_EmptySet
    <3> QED BY <3>1, Zenon
  <2>2. PICK x \in T : TRUE
    BY <2>1
  <2> DEFINE R == T \ {x}
  <2>3. R \in SUBSET S /\ IsFiniteSet(R) /\ Cardinality(R) = n
    <3>1. IsFiniteSet(T) /\ Cardinality(T) \in Nat
      BY <1>0
    <3>2. IsFiniteSet(R) /\ Cardinality(R) = Cardinality(T) - 1
      BY <3>1, FS_RemoveElement
    <3> QED BY <3>2
  <2>4. \A y \in T : v[y] \in Int /\ u[y] \in Int /\ d[y] \in Int /\ d[y] = u[y] - v[y]
    OBVIOUS
  <2>5. \A y \in R : v[y] \in Int /\ u[y] \in Int /\ d[y] \in Int
    BY <2>4
  <2>6. IsFiniteSet(T)
    BY <1>0
  <2>7. /\ SumFunctionOnSet(v, T) = v[x] + SumFunctionOnSet(v, R)
        /\ SumFunctionOnSet(u, T) = u[x] + SumFunctionOnSet(u, R)
        /\ SumFunctionOnSet(d, T) = d[x] + SumFunctionOnSet(d, R)
    BY <2>4, <2>6, SumRemove
  <2> HIDE DEF R
  <2>8. Diff(R)
    BY <1>2, <2>3
  <2>9. SumFunctionOnSet(v, R) \in Int /\ SumFunctionOnSet(u, R) \in Int
    BY <2>3, <2>5, SumType
  <2> QED BY <2>4, <2>7, <2>8, <2>9
<1>3. \A n \in Nat : n \in G
  <2> HIDE DEF G
  <2> QED BY <1>1, <1>2, NatSetInduction
<1>4. S \in SUBSET S
  OBVIOUS
<1> QED BY <1>0, <1>3, <1>4

\* A sum of zeros is 0.
THEOREM SumZero ==
    ASSUME NEW S, IsFiniteSet(S), NEW v, \A y \in S : v[y] = 0
    PROVE  SumFunctionOnSet(v, S) = 0
<1>1. \A y \in S : v[y] \in Int /\ v[y] = v[y] - v[y]
  OBVIOUS
<1>2. SumFunctionOnSet(v, S) = SumFunctionOnSet(v, S) - SumFunctionOnSet(v, S)
  BY <1>1, SumMinus
<1>3. SumFunctionOnSet(v, S) \in Int
  BY <1>1, SumType
<1> QED BY <1>2, <1>3

\* Elements of value 0 may be left out.
THEOREM SumOutside ==
    ASSUME NEW S, IsFiniteSet(S), NEW T \in SUBSET S, NEW v, \A y \in S : v[y] \in Int,
           \A y \in S \ T : v[y] = 0
    PROVE  SumFunctionOnSet(v, S) = SumFunctionOnSet(v, T)
<1> DEFINE Same(U) == SumFunctionOnSet(v, T \cup U) = SumFunctionOnSet(v, T)
           G == {n \in Nat : \A U \in SUBSET (S \ T) : Cardinality(U) = n => Same(U)}
<1>0. \A U \in SUBSET (S \ T) : /\ IsFiniteSet(U) /\ Cardinality(U) \in Nat
                                /\ IsFiniteSet(T \cup U)
                                /\ Cardinality(U) = 0 => U = {}
  <2> SUFFICES ASSUME NEW U \in SUBSET (S \ T)
               PROVE  /\ IsFiniteSet(U) /\ Cardinality(U) \in Nat
                      /\ IsFiniteSet(T \cup U)
                      /\ Cardinality(U) = 0 => U = {}
    OBVIOUS
  <2>1. U \in SUBSET S /\ T \cup U \in SUBSET S
    OBVIOUS
  <2>2. IsFiniteSet(U) /\ IsFiniteSet(T \cup U)
    BY <2>1, FS_Subset
  <2> QED BY <2>2, FS_CardinalityType, FS_EmptySet
<1>1. 0 \in G
  <2> SUFFICES ASSUME NEW U \in SUBSET (S \ T), Cardinality(U) = 0 PROVE Same(U)
    OBVIOUS
  <2>1. T \cup U = T
    BY <1>0
  <2> QED BY <2>1
<1>2. ASSUME NEW n \in Nat, n \in G PROVE n + 1 \in G
  <2> SUFFICES ASSUME NEW U \in SUBSET (S \ T), Cardinality(U) = n + 1 PROVE Same(U)
    OBVIOUS
  <2>1. U # {}
    <3>1. Cardinality({}) = 0 /\ n + 1 # 0
      BY FS_EmptySet
    <3> QED BY <3>1, Zenon
  <2>2. PICK x \in U : TRUE
    BY <2>1
  <2> DEFINE R == U \ {x}
             W == T \cup U
  <2>3. R \in SUBSET (S \ T) /\ Cardinality(R) = n
    <3>1. IsFiniteSet(U)
      BY <1>0
    <3>2. Cardinality(R) = Cardinality(U) - 1
      BY <3>1, FS_RemoveElement
    <3> QED BY <3>2
  <2>4. /\ W \ {x} = T \cup R /\ x \in W /\ v[x] = 0
        /\ \A y \in W : v[y] \in Int
    OBVIOUS
  <2>5. IsFiniteSet(W)
    BY <1>0
  <2> HIDE DEF R, W
  <2>6. SumFunctionOnSet(v, W) = v[x] + SumFunctionOnSet(v, W \ {x})
    BY <2>4, <2>5, SumRemove
  <2>7. Same(R)
    BY <1>2, <2>3
  <2>8. SumFunctionOnSet(v, T) \in Int
    <3>1. IsFiniteSet(T) /\ \A y \in T : v[y] \in Int
      BY FS_Subset
    <3> QED BY <3>1, SumType
  <2>9. SumFunctionOnSet(v, W) = SumFunctionOnSet(v, T)
    <3>1. SumFunctionOnSet(v, W \ {x}) = SumFunctionOnSet(v, T)
      BY <2>4, <2>7, Zenon
    <3>2. v[x] = 0
      BY <2>4
    <3> QED BY <2>6, <2>8, <3>1, <3>2, SMT
  <2> QED BY <2>9 DEF W
<1>3. \A n \in Nat : n \in G
  <2> HIDE DEF G
  <2> QED BY <1>1, <1>2, NatSetInduction
<1>4. S \ T \in SUBSET (S \ T) /\ T \cup (S \ T) = S
  OBVIOUS
<1>5. Same(S \ T)
  BY <1>0, <1>3, <1>4
<1> QED BY <1>4, <1>5

\* A sum of natural numbers none of which exceeds m lies between 0 and m for each of them.
THEOREM SumBound ==
    ASSUME NEW S, IsFiniteSet(S), NEW m \in Nat, NEW v, \A y \in S : v[y] \in 0..m
    PROVE  SumFunctionOnSet(v, S) \in 0..(Cardinality(S) * m)
<1> DEFINE Good(T) == SumFunctionOnSet(v, T) \in 0..(Cardinality(T) * m)
           G == {n \in Nat : \A T \in SUBSET S : Cardinality(T) = n => Good(T)}
<1>0. \A T \in SUBSET S : /\ IsFiniteSet(T) /\ Cardinality(T) \in Nat
                          /\ Cardinality(T) = 0 => T = {}
  BY FS_Subset, FS_CardinalityType, FS_EmptySet
<1>1. 0 \in G
  <2> SUFFICES ASSUME NEW T \in SUBSET S, Cardinality(T) = 0 PROVE Good(T)
    OBVIOUS
  <2>1. T = {}
    BY <1>0
  <2>2. SumFunctionOnSet(v, T) = 0
    BY <2>1, SumEmpty
  <2> QED BY <2>2
<1>2. ASSUME NEW n \in Nat, n \in G PROVE n + 1 \in G
  <2> SUFFICES ASSUME NEW T \in SUBSET S, Cardinality(T) = n + 1 PROVE Good(T)
    OBVIOUS
  <2>1. T # {}
    <3>1. Cardinality({}) = 0 /\ n + 1 # 0
      BY FS_EmptySet
    <3> QED BY <3>1, Zenon
  <2>2. PICK x \in T : TRUE
    BY <2>1
  <2> DEFINE R == T \ {x}
  <2>3. R \in SUBSET S /\ Cardinality(R) = n
    <3>1. IsFiniteSet(T)
      BY <1>0
    <3>2. Cardinality(R) = Cardinality(T) - 1
      BY <3>1, FS_RemoveElement
    <3> QED BY <3>2
  <2>4. IsFiniteSet(T) /\ (\A y \in T : v[y] \in Int) /\ v[x] \in 0..m
    BY <1>0
  <2>5. SumFunctionOnSet(v, T) = v[x] + SumFunctionOnSet(v, R)
    BY <2>4, SumRemove
  <2> HIDE DEF R
  <2>6. SumFunctionOnSet(v, R) \in 0..(n * m)
    BY <1>2, <2>3
  <2>7. (n + 1) * m = n * m + m /\ n * m \in Nat
    OBVIOUS
  <2>8. SumFunctionOnSet(v, T) \in 0..((n + 1) * m)
    BY <2>4, <2>5, <2>6, <2>7
  <2> QED BY <2>8
<1>3. \A n \in Nat : n \in G
  <2> HIDE DEF G
  <2> QED BY <1>1, <1>2, NatSetInduction
<1>4. S \in SUBSET S
  OBVIOUS
<1> QED BY <1>0, <1>3, <1>4

\* A finite sum of natural numbers is a natural number.
THEOREM SumNat ==
    ASSUME NEW S, IsFiniteSet(S), NEW v, \A y \in S : v[y] \in Nat
    PROVE  SumFunctionOnSet(v, S) \in Nat
<1> DEFINE Good(T) == SumFunctionOnSet(v, T) \in Nat
           G == {n \in Nat : \A T \in SUBSET S : Cardinality(T) = n => Good(T)}
<1>0. \A T \in SUBSET S : /\ IsFiniteSet(T) /\ Cardinality(T) \in Nat
                          /\ Cardinality(T) = 0 => T = {}
  BY FS_Subset, FS_CardinalityType, FS_EmptySet
<1>1. 0 \in G
  <2> SUFFICES ASSUME NEW T \in SUBSET S, Cardinality(T) = 0 PROVE Good(T)
    OBVIOUS
  <2>1. T = {}
    BY <1>0
  <2>2. SumFunctionOnSet(v, T) = 0
    BY <2>1, SumEmpty
  <2> QED BY <2>2
<1>2. ASSUME NEW n \in Nat, n \in G PROVE n + 1 \in G
  <2> SUFFICES ASSUME NEW T \in SUBSET S, Cardinality(T) = n + 1 PROVE Good(T)
    OBVIOUS
  <2>1. T # {}
    <3>1. Cardinality({}) = 0 /\ n + 1 # 0
      BY FS_EmptySet
    <3> QED BY <3>1, Zenon
  <2>2. PICK x \in T : TRUE
    BY <2>1
  <2> DEFINE R == T \ {x}
  <2>3. R \in SUBSET S /\ Cardinality(R) = n
    <3>1. IsFiniteSet(T)
      BY <1>0
    <3>2. Cardinality(R) = Cardinality(T) - 1
      BY <3>1, FS_RemoveElement
    <3> QED BY <3>2
  <2>4. IsFiniteSet(T) /\ (\A y \in T : v[y] \in Int) /\ v[x] \in Nat
    BY <1>0
  <2>5. SumFunctionOnSet(v, T) = v[x] + SumFunctionOnSet(v, R)
    BY <2>4, SumRemove
  <2> HIDE DEF R
  <2>6. SumFunctionOnSet(v, R) \in Nat
    BY <1>2, <2>3
  <2> QED BY <2>4, <2>5, <2>6
<1>3. \A n \in Nat : n \in G
  <2> HIDE DEF G
  <2> QED BY <1>1, <1>2, NatSetInduction
<1>4. S \in SUBSET S
  OBVIOUS
<1> QED BY <1>0, <1>3, <1>4

\* A part of the elements, each with no more than it had, adds up to no more.
THEOREM SumMonotone ==
    ASSUME NEW S, IsFiniteSet(S), NEW T \in SUBSET S, NEW u, \A y \in S : u[y] \in Nat,
           NEW v, \A y \in T : v[y] \in Nat /\ v[y] <= u[y]
    PROVE  SumFunctionOnSet(v, T) <= SumFunctionOnSet(u, S)
<1> DEFINE w == [y \in S |-> IF y \in T THEN v[y] ELSE 0]
           d == [y \in S |-> u[y] - w[y]]
<1>1. /\ \A y \in S : w[y] \in Int /\ u[y] \in Int /\ d[y] = u[y] - w[y] /\ d[y] \in Nat
      /\ \A y \in S \ T : w[y] = 0
      /\ \A y \in T : w[y] = v[y] /\ v[y] \in Int
  OBVIOUS
<1>2. IsFiniteSet(T)
  BY FS_Subset
<1> HIDE DEF w, d
<1>3. SumFunctionOnSet(w, S) = SumFunctionOnSet(w, T)
  BY <1>1, SumOutside
<1>4. SumFunctionOnSet(w, T) = SumFunctionOnSet(v, T)
  BY <1>1, <1>2, SumSame
<1>5. SumFunctionOnSet(d, S) = SumFunctionOnSet(u, S) - SumFunctionOnSet(w, S)
  BY <1>1, SumMinus
<1>6. SumFunctionOnSet(d, S) \in Nat
  BY <1>1, SumNat
<1>7. SumFunctionOnSet(u, S) \in Int /\ SumFunctionOnSet(w, S) \in Int
  BY <1>1, SumType
<1> QED BY <1>3, <1>4, <1>5, <1>6, <1>7


\* The sum over two disjoint sets.
THEOREM SumUnion ==
    ASSUME NEW A, IsFiniteSet(A), NEW B, IsFiniteSet(B), A \cap B = {},
           NEW v, \A y \in A \cup B : v[y] \in Int
    PROVE  SumFunctionOnSet(v, A \cup B) = SumFunctionOnSet(v, A) + SumFunctionOnSet(v, B)
<1> DEFINE S == A \cup B
           a == [y \in S |-> IF y \in A THEN v[y] ELSE 0]
           b == [y \in S |-> IF y \in B THEN v[y] ELSE 0]
<1>1. IsFiniteSet(S) /\ A \in SUBSET S /\ B \in SUBSET S /\ \A y \in S : v[y] \in Int
  BY FS_Union
<1>2. /\ \A y \in S : a[y] \in Int /\ b[y] \in Int /\ b[y] = v[y] - a[y]
      /\ \A y \in S \ A : a[y] = 0
      /\ \A y \in S \ B : b[y] = 0
      /\ \A y \in A : a[y] = v[y]
      /\ \A y \in B : b[y] = v[y]
  BY <1>1
<1> HIDE DEF S, a, b
<1>3. SumFunctionOnSet(a, S) = SumFunctionOnSet(a, A)
  BY <1>1, <1>2, SumOutside
<1>4. SumFunctionOnSet(b, S) = SumFunctionOnSet(b, B)
  BY <1>1, <1>2, SumOutside
<1>5. SumFunctionOnSet(a, A) = SumFunctionOnSet(v, A)
  <2>1. \A y \in A : v[y] \in Int
    OBVIOUS
  <2> QED BY <1>2, <2>1, SumSame
<1>6. SumFunctionOnSet(b, B) = SumFunctionOnSet(v, B)
  <2>1. \A y \in B : v[y] \in Int
    OBVIOUS
  <2> QED BY <1>2, <2>1, SumSame
<1>7. SumFunctionOnSet(b, S) = SumFunctionOnSet(v, S) - SumFunctionOnSet(a, S)
  BY <1>1, <1>2, SumMinus
<1>8. SumFunctionOnSet(v, S) \in Int /\ SumFunctionOnSet(a, S) \in Int
  BY <1>1, <1>2, SumType
<1>9. SumFunctionOnSet(v, S) = SumFunctionOnSet(a, S) + SumFunctionOnSet(b, S)
  BY <1>7, <1>8
<1> QED BY <1>3, <1>4, <1>5, <1>6, <1>9 DEF S

\* Adding up by groups: w says which group of R an element of S is in, g is the sum of a group.
THEOREM SumByGroup ==
    ASSUME NEW S, IsFiniteSet(S), NEW R, IsFiniteSet(R), NEW v, \A y \in S : v[y] \in Int,
           NEW w, \A y \in S : w[y] \in R,
           NEW g, \A r \in R : g[r] = SumFunctionOnSet(v, {y \in S : w[y] = r})
    PROVE  SumFunctionOnSet(g, R) = SumFunctionOnSet(v, S)
<1> DEFINE In(U) == {y \in S : w[y] \in U}
           Good(U) == SumFunctionOnSet(g, U) = SumFunctionOnSet(v, In(U))
           G == {n \in Nat : \A U \in SUBSET R : Cardinality(U) = n => Good(U)}
<1>0. \A U \in SUBSET R : /\ IsFiniteSet(U) /\ Cardinality(U) \in Nat
                          /\ Cardinality(U) = 0 => U = {}
  BY FS_Subset, FS_CardinalityType, FS_EmptySet
<1>1. \A T \in SUBSET S : IsFiniteSet(T) /\ \A y \in T : v[y] \in Int
  BY FS_Subset
<1>2. \A r \in R : g[r] \in Int
  <2> SUFFICES ASSUME NEW r \in R PROVE g[r] \in Int
    OBVIOUS
  <2> DEFINE T == {y \in S : w[y] = r}
  <2>1. IsFiniteSet(T) /\ \A y \in T : v[y] \in Int
    BY <1>1
  <2>2. g[r] = SumFunctionOnSet(v, T)
    OBVIOUS
  <2> HIDE DEF T
  <2> QED BY <2>1, <2>2, SumType
<1>3. 0 \in G
  <2>1. In({}) = {}
    OBVIOUS
  <2>2. Good({})
    BY <2>1, SumEmpty
  <2> HIDE DEF Good
  <2> QED BY <1>0, <2>2
<1>4. ASSUME NEW n \in Nat, n \in G PROVE n + 1 \in G
  <2> SUFFICES ASSUME NEW U \in SUBSET R, Cardinality(U) = n + 1 PROVE Good(U)
    OBVIOUS
  <2>1. PICK r \in U : TRUE
    BY FS_EmptySet
  <2> DEFINE V == U \ {r}
             T == {y \in S : w[y] = r}
  <2>2. /\ V \in SUBSET R /\ IsFiniteSet(V) /\ Cardinality(V) = n /\ r \notin V
        /\ U = V \cup {r} /\ r \in R
    BY <1>0, FS_RemoveElement
  <2>3. Good(V)
    <3> HIDE DEF Good, V
    <3> QED BY <1>4, <2>2
  <2>4. SumFunctionOnSet(g, U) = g[r] + SumFunctionOnSet(g, V)
    <3> HIDE DEF V
    <3>1. \A y \in V \cup {r} : g[y] \in Int
      BY <1>2, <2>2
    <3> QED BY <2>2, <3>1, SumAdd
  <2>5. In(U) = In(V) \cup T /\ In(V) \cap T = {} /\ In(V) \in SUBSET S /\ T \in SUBSET S
    BY <2>2
  <2>6. g[r] = SumFunctionOnSet(v, T)
    BY <2>2
  <2>7. SumFunctionOnSet(v, In(U)) = SumFunctionOnSet(v, In(V)) + SumFunctionOnSet(v, T)
    <3> DEFINE A == In(V)
    <3>1. /\ IsFiniteSet(A) /\ IsFiniteSet(T) /\ A \cap T = {}
          /\ \A y \in A \cup T : v[y] \in Int
      BY <1>1, <2>5
    <3>2. In(U) = A \cup T
      BY <2>5
    <3> HIDE DEF A, T, In
    <3>3. SumFunctionOnSet(v, A \cup T) = SumFunctionOnSet(v, A) + SumFunctionOnSet(v, T)
      BY <3>1, SumUnion
    <3> QED BY <3>2, <3>3 DEF A
  <2>8. SumFunctionOnSet(v, In(V)) \in Int /\ SumFunctionOnSet(v, T) \in Int
    <3> DEFINE A == In(V)
    <3>1. /\ IsFiniteSet(A) /\ \A y \in A : v[y] \in Int
          /\ IsFiniteSet(T) /\ \A y \in T : v[y] \in Int
      BY <1>1, <2>5
    <3> HIDE DEF A, T
    <3>2. SumFunctionOnSet(v, A) \in Int /\ SumFunctionOnSet(v, T) \in Int
      BY <3>1, SumType
    <3> QED BY <3>2 DEF A
  <2>9. SumFunctionOnSet(g, V) = SumFunctionOnSet(v, In(V))
    BY <2>3
  <2> HIDE DEF In, V, T
  <2> QED BY <2>4, <2>6, <2>7, <2>8, <2>9
<1> HIDE DEF G
<1>5. Cardinality(R) \in G
  BY <1>3, <1>4, FS_CardinalityType, NatSetInduction
<1>6. Good(R)
  BY <1>5 DEF G
<1>7. In(R) = S
  OBVIOUS
<1> QED BY <1>6, <1>7

\* The same where c[r] is the group of r.
COROLLARY SumByGroups ==
    ASSUME NEW S, IsFiniteSet(S), NEW R, IsFiniteSet(R), NEW v, \A y \in S : v[y] \in Int,
           NEW w, \A y \in S : w[y] \in R,
           NEW c, \A r \in R : \A y : y \in c[r] <=> y \in S /\ w[y] = r,
           NEW g, \A r \in R : g[r] = SumFunctionOnSet(v, c[r])
    PROVE  SumFunctionOnSet(g, R) = SumFunctionOnSet(v, S)
<1>1. \A r \in R : c[r] = {y \in S : w[y] = r}
  OBVIOUS
<1>2. \A r \in R : g[r] = SumFunctionOnSet(v, {y \in S : w[y] = r})
  BY <1>1
<1> QED BY <1>2, SumByGroup
=============================================================================
