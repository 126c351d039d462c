----------------------------- MODULE SumTheorems -----------------------------
(* What a sum over a finite set comes to, for the sums of the community    *)
(* modules (MapThenSumSet) that the models take over memory and counters.  *)
(* Each fact is proved by way of a smallest set that would contradict it.  *)
EXTENDS Integers, FiniteSets, FiniteSetsExt, FiniteSetTheorems, WellFoundedInduction, TLAPS

Sum(f, S) == MapThenSumSet(LAMBDA x : f[x], S)

\* A set of numbers has a least one.
LEMMA Least ==
    ASSUME NEW T, T \subseteq Nat, T # {}
    PROVE  \E n \in T : \A m \in T : n <= m
<1> DEFINE R == {ss \in Nat \X Nat : ss[1] < ss[2]}
<1>1. IsWellFoundedOn(R, Nat)
  BY NatLessThanWellFounded DEF OpToRel
<1> HIDE DEF R
<1>2. PICK n \in T : \A m \in T : <<m, n>> \notin R
  BY <1>1, WFMin, Zenon
<1>3. \A m \in T : ~(m < n)
  BY <1>2 DEF R
<1>4. QED
  BY <1>3

\* What holds of a set when it holds of all smaller ones holds of every finite set.
LEMMA BySubsets ==
    ASSUME NEW U, IsFiniteSet(U), NEW Q,
           \A s \in SUBSET U : (\A v \in SUBSET s : v # s => v \in Q) => s \in Q
    PROVE  \A s \in SUBSET U : s \in Q
<1> SUFFICES ASSUME NEW odd \in SUBSET U, odd \notin Q
             PROVE  FALSE
  OBVIOUS
<1> DEFINE Bad == {s \in SUBSET U : s \notin Q}
           T   == {Cardinality(s) : s \in Bad}
<1>1. \A s \in SUBSET U : IsFiniteSet(s) /\ Cardinality(s) \in Nat
  BY FS_Subset, FS_CardinalityType
<1>2. T \subseteq Nat /\ T # {}
  BY <1>1
<1>3. PICK n \in T : \A m \in T : n <= m
  BY <1>2, Least
<1>4. PICK s \in Bad : n = Cardinality(s)
  BY <1>3
<1>5. \A v \in SUBSET s : v # s => Cardinality(v) < Cardinality(s)
  BY <1>1, <1>4, FS_Subset
<1>6. ASSUME NEW v \in SUBSET s, v # s
      PROVE  v \in Q
  <2>1. v \in SUBSET U /\ Cardinality(v) < Cardinality(s)
    BY <1>5, <1>6
  <2>2. Cardinality(v) \in Nat /\ Cardinality(s) \in Nat
    BY <1>1, <2>1
  <2>3. v \notin Q => Cardinality(v) \in T
    BY <2>1
  <2>4. QED
    BY <1>3, <1>4, <2>1, <2>2, <2>3
<1>7. QED
  BY <1>4, <1>6

-----------------------------------------------------------------------------
\* The recursion that a sum stands for.
Pick(s) == CHOOSE x \in s : TRUE
IsIter(f, S, h) ==
    h = [s \in SUBSET S |-> IF s = {} THEN 0 ELSE f[Pick(s)] + h[s \ {Pick(s)}]]
Iter(f, S) == CHOOSE h : IsIter(f, S, h)

\* A sum is the recursion that the fold of the community modules stands for.
LEMMA SumIter == ASSUME NEW f, NEW S PROVE Sum(f, S) = Iter(f, S)[S]
BY DEF Sum, MapThenSumSet, MapThenFoldSet, Iter, IsIter, Pick

\* The element that CHOOSE picks is one of the set.
LEMMA PickIn == ASSUME NEW s, s # {} PROVE Pick(s) \in s
BY DEF Pick

\* Two recursions agree wherever both are defined.
LEMMA IterUnique ==
    ASSUME NEW f, NEW S, NEW U \in SUBSET S, NEW h, NEW g, IsFiniteSet(U),
           IsIter(f, U, h), IsIter(f, S, g)
    PROVE  \A s \in SUBSET U : h[s] = g[s]
<1> DEFINE Q == {s \in SUBSET U : h[s] = g[s]}
<1>1. ASSUME NEW s \in SUBSET U, \A v \in SUBSET s : v # s => v \in Q
      PROVE  s \in Q
  <2>1. CASE s = {}
    BY <2>1 DEF IsIter
  <2>2. CASE s # {}
    <3> DEFINE v == s \ {Pick(s)}
    <3>1. v \in SUBSET s /\ v # s /\ Pick(s) \in s
      BY <2>2, PickIn
    <3>2. h[v] = g[v]
      BY <1>1, <3>1
    <3>3. h[s] = f[Pick(s)] + h[v]
      BY <2>2 DEF IsIter
    <3>4. g[s] = f[Pick(s)] + g[v]
      BY <2>2 DEF IsIter
    <3>5. QED
      BY <3>2, <3>3, <3>4
  <2>3. QED
    BY <2>1, <2>2
<1> HIDE DEF Q
<1>2. \A s \in SUBSET U : s \in Q
  BY <1>1, BySubsets, Zenon
<1>3. QED
  BY <1>2 DEF Q

\* There is one for every finite set.
LEMMA IterExists ==
    ASSUME NEW f, NEW U, IsFiniteSet(U)
    PROVE  \A s \in SUBSET U : IsIter(f, s, Iter(f, s))
<1> DEFINE Q == {s \in SUBSET U : \E h : IsIter(f, s, h)}
<1>1. ASSUME NEW s \in SUBSET U, \A v \in SUBSET s : v # s => v \in Q
      PROVE  s \in Q
  <2> DEFINE h == [t \in SUBSET s |-> IF t = {} THEN 0
                     ELSE f[Pick(t)] + Iter(f, t \ {Pick(t)})[t \ {Pick(t)}]]
  <2>1. \A v \in SUBSET s : v # s => IsIter(f, v, Iter(f, v))
    BY <1>1 DEF Iter
  <2>2. ASSUME NEW v \in SUBSET s, v # s
        PROVE  h[v] = Iter(f, v)[v]
    <3> DEFINE w == v \ {Pick(v)}
    <3>1. CASE v = {}
      <4>1. IsIter(f, v, Iter(f, v))
        BY <2>1, <2>2
      <4> HIDE DEF Iter
      <4>2. Iter(f, v)[v] = 0
        BY <3>1, <4>1 DEF IsIter
      <4>3. QED
        BY <3>1, <4>2
    <3>2. CASE v # {}
      <4>1. w \in SUBSET v /\ w \in SUBSET s /\ w # s
        BY <2>2, <3>2, PickIn
      <4>2. IsIter(f, v, Iter(f, v)) /\ IsIter(f, w, Iter(f, w))
        BY <2>1, <2>2, <4>1
      <4>3. IsFiniteSet(w)
        BY <4>1, FS_Subset
      <4>4. Iter(f, w)[w] = Iter(f, v)[w]
        <5>1. \A t \in SUBSET w : Iter(f, w)[t] = Iter(f, v)[t]
          <6> HIDE DEF w, Iter, h, Q
          <6>1. QED
            BY <4>1, <4>2, <4>3, IterUnique
        <5>2. QED
          BY <5>1
      <4>5. Iter(f, v)[v] = f[Pick(v)] + Iter(f, v)[w]
        BY <3>2, <4>2 DEF IsIter
      <4>6. h[v] = f[Pick(v)] + Iter(f, w)[w]
        BY <3>2
      <4>7. QED
        BY <4>4, <4>5, <4>6
    <3>3. QED
      BY <3>1, <3>2
  <2>3. \A t \in SUBSET s : t # {} => t \ {Pick(t)} \in SUBSET s /\ t \ {Pick(t)} # s
    BY PickIn
  <2>4. \A t \in SUBSET s : t # {} =>
           h[t \ {Pick(t)}] = Iter(f, t \ {Pick(t)})[t \ {Pick(t)}]
    <3> HIDE DEF h
    <3>1. QED
      BY <2>2, <2>3
  <2>5. IsIter(f, s, h)
    BY <2>4 DEF IsIter
  <2>6. QED
    BY <2>5
<1> HIDE DEF Q
<1>2. \A s \in SUBSET U : s \in Q
  BY <1>1, BySubsets, Zenon
<1>3. QED
  BY <1>2 DEF Q, Iter

\* So whatever satisfies the recursion ends in the sum.  A sum of expressions, rather than
\* of a function's values, is seen to be one by this.
LEMMA IterIsSum ==
    ASSUME NEW f, NEW S, IsFiniteSet(S), NEW h, IsIter(f, S, h)
    PROVE  h[S] = Sum(f, S)
<1>1. S \in SUBSET S /\ IsIter(f, S, Iter(f, S))
  BY IterExists
<1>2. ASSUME NEW U \in SUBSET S, U = S
      PROVE  \A s \in SUBSET U : h[s] = Iter(f, S)[s]
  <2>1. IsFiniteSet(U) /\ IsIter(f, U, h)
    BY <1>2
  <2>2. QED
    BY <1>1, <2>1, IterUnique
<1>3. QED
  BY <1>1, <1>2, SumIter

-----------------------------------------------------------------------------
\* The sum over nothing is 0,
LEMMA SumEmpty == ASSUME NEW f PROVE Sum(f, {}) = 0
<1>1. IsIter(f, {}, Iter(f, {}))
  BY IterExists, FS_EmptySet
<1>2. QED
  BY <1>1, SumIter DEF IsIter

\* A sum is the term of the picked element and the sum over the rest.
LEMMA SumPick ==
    ASSUME NEW f, NEW S, IsFiniteSet(S), S # {}
    PROVE  Sum(f, S) = f[Pick(S)] + Sum(f, S \ {Pick(S)})
<1> DEFINE v == S \ {Pick(S)}
<1>1. v \in SUBSET S /\ IsFiniteSet(v)
  BY FS_Subset
<1>2. IsIter(f, S, Iter(f, S)) /\ IsIter(f, v, Iter(f, v))
  BY <1>1, IterExists
<1>3. Iter(f, v)[v] = Iter(f, S)[v]
  <2>1. \A t \in SUBSET v : Iter(f, v)[t] = Iter(f, S)[t]
    <3> HIDE DEF v
    <3>1. QED
      BY <1>1, <1>2, IterUnique
  <2>2. QED
    BY <2>1
<1>4. Iter(f, S)[S] = f[Pick(S)] + Iter(f, S)[v]
  BY <1>2 DEF IsIter
<1>5. QED
  BY <1>3, <1>4, SumIter

\* a sum of integers is one, and of natural numbers,
LEMMA SumIsInt ==
    ASSUME NEW f, NEW U, IsFiniteSet(U), \A x \in U : f[x] \in Int
    PROVE  \A s \in SUBSET U : Sum(f, s) \in Int
<1> DEFINE Q == {s \in SUBSET U : Sum(f, s) \in Int}
<1>1. ASSUME NEW s \in SUBSET U, \A v \in SUBSET s : v # s => v \in Q
      PROVE  s \in Q
  <2>1. CASE s = {}
    BY <2>1, SumEmpty
  <2>2. CASE s # {}
    <3> DEFINE v == s \ {Pick(s)}
    <3>1. v \in SUBSET s /\ v # s /\ Pick(s) \in s
      BY <2>2, PickIn
    <3>2. Sum(f, v) \in Int /\ f[Pick(s)] \in Int /\ IsFiniteSet(s)
      BY <1>1, <3>1, FS_Subset
    <3>3. QED
      BY <2>2, <3>2, SumPick
  <2>3. QED
    BY <2>1, <2>2
<1> HIDE DEF Q
<1>2. \A s \in SUBSET U : s \in Q
  BY <1>1, BySubsets, Zenon
<1>3. QED
  BY <1>2 DEF Q

\* A sum of naturals is a natural.
LEMMA SumIsNat ==
    ASSUME NEW f, NEW U, IsFiniteSet(U), \A x \in U : f[x] \in Nat
    PROVE  \A s \in SUBSET U : Sum(f, s) \in Nat
<1> DEFINE Q == {s \in SUBSET U : Sum(f, s) \in Nat}
<1>1. ASSUME NEW s \in SUBSET U, \A v \in SUBSET s : v # s => v \in Q
      PROVE  s \in Q
  <2>1. CASE s = {}
    BY <2>1, SumEmpty
  <2>2. CASE s # {}
    <3> DEFINE v == s \ {Pick(s)}
    <3>1. v \in SUBSET s /\ v # s /\ Pick(s) \in s
      BY <2>2, PickIn
    <3>2. Sum(f, v) \in Nat /\ f[Pick(s)] \in Nat /\ IsFiniteSet(s)
      BY <1>1, <3>1, FS_Subset
    <3>3. QED
      BY <2>2, <3>2, SumPick
  <2>3. QED
    BY <2>1, <2>2
<1> HIDE DEF Q
<1>2. \A s \in SUBSET U : s \in Q
  BY <1>1, BySubsets, Zenon
<1>3. QED
  BY <1>2 DEF Q

\* it depends on the elements alone,
LEMMA SumSame ==
    ASSUME NEW f, NEW g, NEW U, IsFiniteSet(U), \A x \in U : f[x] = g[x]
    PROVE  \A s \in SUBSET U : Sum(f, s) = Sum(g, s)
<1> DEFINE Q == {s \in SUBSET U : Sum(f, s) = Sum(g, s)}
<1>1. ASSUME NEW s \in SUBSET U, \A v \in SUBSET s : v # s => v \in Q
      PROVE  s \in Q
  <2>1. CASE s = {}
    BY <2>1, SumEmpty
  <2>2. CASE s # {}
    <3> DEFINE v == s \ {Pick(s)}
    <3>1. v \in SUBSET s /\ v # s /\ Pick(s) \in s
      BY <2>2, PickIn
    <3>2. Sum(f, v) = Sum(g, v) /\ f[Pick(s)] = g[Pick(s)] /\ IsFiniteSet(s)
      BY <1>1, <3>1, FS_Subset
    <3>3. Sum(f, s) = f[Pick(s)] + Sum(f, v) /\ Sum(g, s) = g[Pick(s)] + Sum(g, v)
      BY <2>2, <3>2, SumPick
    <3>4. QED
      BY <3>2, <3>3
  <2>3. QED
    BY <2>1, <2>2
<1> HIDE DEF Q
<1>2. \A s \in SUBSET U : s \in Q
  BY <1>1, BySubsets, Zenon
<1>3. QED
  BY <1>2 DEF Q

\* and any element can be taken out of it.
LEMMA SumTakeOut ==
    ASSUME NEW f, NEW U, IsFiniteSet(U), \A x \in U : f[x] \in Int
    PROVE  \A x \in U : Sum(f, U) = f[x] + Sum(f, U \ {x})
<1> DEFINE Q == {s \in SUBSET U : \A x \in s : Sum(f, s) = f[x] + Sum(f, s \ {x})}
<1>1. ASSUME NEW s \in SUBSET U, \A v \in SUBSET s : v # s => v \in Q
      PROVE  s \in Q
  <2>1. ASSUME NEW x \in s PROVE Sum(f, s) = f[x] + Sum(f, s \ {x})
    <3> DEFINE p == Pick(s)
               v == s \ {x}
               w == s \ {p}
               u == s \ {x, p}
    <3>1. p \in s /\ IsFiniteSet(s) /\ IsFiniteSet(w)
      BY <2>1, PickIn, FS_Subset
    <3>2. Sum(f, s) = f[p] + Sum(f, w)
      BY <3>1, SumPick
    <3>3. CASE x = p
      BY <3>2, <3>3
    <3>4. CASE x # p
      <4>1. /\ v \in SUBSET s /\ v # s /\ p \in v /\ v \ {p} = u
            /\ w \in SUBSET s /\ w # s /\ x \in w /\ w \ {x} = u
        BY <3>1, <3>4
      <4> HIDE DEF p, v, w, u
      <4>2. Sum(f, v) = f[p] + Sum(f, u) /\ Sum(f, w) = f[x] + Sum(f, u)
        BY <1>1, <4>1
      <4>3. f[p] \in Int /\ f[x] \in Int /\ u \in SUBSET U
        BY <3>1, <4>1
      <4>4. Sum(f, u) \in Int
        BY <4>3, SumIsInt
      <4>5. Sum(f, s) = f[x] + Sum(f, v)
        BY <3>2, <4>2, <4>3, <4>4
      <4>6. QED
        BY <4>5 DEF v
    <3>5. QED
      BY <3>3, <3>4
  <2>2. QED
    BY <2>1
<1> HIDE DEF Q
<1>2. \A s \in SUBSET U : s \in Q
  BY <1>1, BySubsets, Zenon
<1>3. QED
  BY <1>2 DEF Q

\* Of a smaller set of natural numbers the sum is no greater.
LEMMA SumMonotone ==
    ASSUME NEW f, NEW U, IsFiniteSet(U), \A x \in U : f[x] \in Nat
    PROVE  \A s \in SUBSET U : Sum(f, s) <= Sum(f, U)
<1> DEFINE Q == {s \in SUBSET U : \A v \in SUBSET s : Sum(f, v) <= Sum(f, s)}
<1>0. \A s \in SUBSET U : Sum(f, s) \in Nat
  BY SumIsNat
<1>1. ASSUME NEW s \in SUBSET U, \A v \in SUBSET s : v # s => v \in Q
      PROVE  s \in Q
  <2>1. ASSUME NEW v \in SUBSET s, v # s
        PROVE  Sum(f, v) <= Sum(f, s)
    <3>1. PICK x \in s : x \notin v
      BY <2>1
    <3>2. Sum(f, v) <= Sum(f, s \ {x})
      BY <1>1, <3>1
    <3>3. Sum(f, s) = f[x] + Sum(f, s \ {x})
      <4>1. IsFiniteSet(s) /\ \A y \in s : f[y] \in Int
        BY FS_Subset
      <4>2. QED
        BY <4>1, SumTakeOut
    <3>4. f[x] \in Nat /\ Sum(f, v) \in Nat /\ Sum(f, s \ {x}) \in Nat
      BY <1>0
    <3>5. QED
      BY <3>2, <3>3, <3>4
  <2>2. Sum(f, s) <= Sum(f, s)
    BY <1>0
  <2>3. QED
    BY <2>1, <2>2
<1> HIDE DEF Q
<1>2. \A s \in SUBSET U : s \in Q
  BY <1>1, BySubsets, Zenon
<1>3. QED
  BY <1>2 DEF Q
=============================================================================
