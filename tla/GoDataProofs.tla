---------------------------- MODULE GoDataProofs ----------------------------
(***************************************************************************)
(* What the operators of GoData return, for any numbers, maps and slices:  *)
(* the facts that the proofs about the components cite.                    *)
(***************************************************************************)
EXTENDS GoData, SequencesExt, FiniteSetTheorems, SequenceTheorems, WellFoundedInduction,
        NaturalsInduction, TLAPS

-----------------------------------------------------------------------------
(* Least and greatest numbers.                                             *)

\* Some numbers have a least one.
LEMMA LeastNumber ==
    ASSUME NEW T \in SUBSET Nat, T # {}
    PROVE  \E x \in T : \A y \in T : x <= y
<1> DEFINE R == OpToRel(<, Nat)
<1>1. IsWellFoundedOn(R, Nat)
  BY NatLessThanWellFounded
<1> HIDE DEF R
<1>2. PICK x \in T : \A y \in T : ~(<<y, x>> \in R)
  BY <1>1, WFMin
<1>3. \A y \in T : ~(y < x)
  BY <1>2 DEF R, OpToRel
<1> QED
  BY <1>2, <1>3

\* What holds of 0, and of a number up to l if it holds of the one before.
LEMMA EachNumber ==
    ASSUME NEW l \in Nat, NEW T, 0 \in T, \A i \in 1..l : i - 1 \in T => i \in T
    PROVE  \A i \in 0..l : i \in T
<1> DEFINE bad == {i \in 0..l : i \notin T}
<1> SUFFICES ASSUME bad # {} PROVE FALSE
  OBVIOUS
<1>1. PICK i \in bad : \A j \in bad : i <= j
  <2>1. bad \in SUBSET Nat
    OBVIOUS
  <2> HIDE DEF bad
  <2> QED
    BY <2>1, LeastNumber
<1>2. i # 0 /\ i \in 1..l /\ i - 1 \in 0..l /\ ~(i <= i - 1)
  OBVIOUS
<1>3. i - 1 \in T
  BY <1>1, <1>2
<1> QED
  BY <1>2, <1>3

\* Some of the numbers from 1 to n have a greatest one, and Max finds it.
LEMMA MaxIsGreatest ==
    ASSUME NEW n \in Int, NEW s \in SUBSET (1..n), s # {}
    PROVE  Max(s) \in s /\ \A y \in s : y <= Max(s)
<1> DEFINE T == {k \in Nat : n - k \in s}
<1>1. T \in SUBSET Nat /\ T # {}
  <2>1. PICK y \in s : TRUE
    OBVIOUS
  <2>2. n - y \in Nat /\ n - (n - y) = y
    OBVIOUS
  <2> QED
    BY <2>2
<1>2. PICK k \in T : \A j \in T : k <= j
  <2> HIDE DEF T
  <2> QED
    BY <1>1, LeastNumber
<1>3. \A y \in s : y <= n - k
  <2> TAKE y \in s
  <2>1. n - y \in Nat /\ n - (n - y) = y /\ y \in Int
    OBVIOUS
  <2>2. k <= n - y
    BY <1>2, <2>1
  <2> QED
    BY <1>2, <2>1, <2>2
<1>4. n - k \in s
  BY <1>2
<1>5. \E x \in s : \A y \in s : x >= y
  BY <1>3, <1>4
<1> QED
  BY <1>5 DEF Max

\* Min of two numbers is the lesser.
LEMMA MinOfTwo ==
    ASSUME NEW a \in Int, NEW b \in Int
    PROVE  Min({a, b}) = IF a <= b THEN a ELSE b
<1> DEFINE S == {a, b}
           n == IF a <= b THEN a ELSE b
<1>1. n \in S /\ n \in Int /\ \A y \in S : y \in Int /\ n <= y
  OBVIOUS
<1>2. \A x \in S : (\A y \in S : x <= y) => x = n
  <2> HIDE DEF S, n
  <2> QED
    BY <1>1
<1> HIDE DEF S, n
<1>3. Min(S) \in S /\ \A y \in S : Min(S) <= y
  BY <1>1 DEF Min
<1>4. Min(S) = n
  BY <1>2, <1>3
<1> QED
  BY <1>4 DEF S, n

-----------------------------------------------------------------------------
(* Sums.  A sum of counts is the number of their units, which has the      *)
(* closed form that the proofs about a recursive sum need.                 *)

\* Some finite sets have one that is minimal among them.
LEMMA MinimalSubset ==
    ASSUME NEW D, IsFiniteSet(D), NEW T \in SUBSET (SUBSET D), T # {}
    PROVE  \E m \in T : \A s \in SUBSET m : s # m => s \notin T
<1> DEFINE R == StrictSubsetOrdering(D)
<1>1. IsWellFoundedOn(R, FiniteSubsetsOf(D))
  BY FS_StrictSubsetOrderingWellFounded
<1>2. T \subseteq FiniteSubsetsOf(D)
  BY FS_FiniteSubsetsOfFinite
<1> HIDE DEF R
<1>3. PICK m \in T : \A s \in T : ~(<<s, m>> \in R)
  BY <1>1, <1>2, WFMin
<1>4. ASSUME NEW s \in SUBSET m, s # m PROVE s \notin T
  <2>1. s \in SUBSET D
    OBVIOUS
  <2>2. <<s, m>> \in R
    BY <1>4, <2>1 DEF R, StrictSubsetOrdering
  <2> QED
    BY <1>3, <2>2
<1> QED
  BY <1>3, <1>4

\* The units of the counts of the keys in s.
Units(counts, s) == {p \in s \X Nat : p[2] \in 1..counts[p[1]]}

UnitsOf(counts, k) == {k} \X (1..counts[k])

Numbers(counts) == IsFiniteSet(DOMAIN counts) /\ \A k \in DOMAIN counts : counts[k] \in Nat

\* The units of one key are as many as it counts, and add to those of others.
LEMMA UnitsAdd ==
    ASSUME NEW counts, Numbers(counts), NEW s \in SUBSET (DOMAIN counts), NEW k \in s,
           IsFiniteSet(Units(counts, s \ {k}))
    PROVE  /\ IsFiniteSet(Units(counts, s))
           /\ Cardinality(Units(counts, s)) = counts[k] + Cardinality(Units(counts, s \ {k}))
<1> DEFINE U == UnitsOf(counts, k)
           V == Units(counts, s \ {k})
<1>0. counts[k] \in Nat
  BY DEF Numbers
<1>1. IsFiniteSet(1..counts[k]) /\ Cardinality(1..counts[k]) = counts[k]
  BY <1>0, FS_Interval
<1>2. IsFiniteSet({k}) /\ Cardinality({k}) = 1
  BY FS_Singleton
<1>3. IsFiniteSet(U) /\ Cardinality(U) = Cardinality({k}) * Cardinality(1..counts[k])
  BY <1>1, <1>2, FS_Product DEF UnitsOf
<1>4. Cardinality(U) = counts[k]
  BY <1>0, <1>1, <1>2, <1>3
<1>5. Units(counts, s) = U \cup V
  BY <1>0 DEF Units, UnitsOf
<1>6. U \cap V = {}
  BY DEF Units, UnitsOf
<1> HIDE DEF U, V
<1>7. IsFiniteSet(U \cup V)
      /\ Cardinality(U \cup V) = Cardinality(U) + Cardinality(V) - Cardinality(U \cap V)
  BY <1>3, FS_Union DEF V
<1>8. Cardinality(U \cap V) = 0 /\ Cardinality(V) \in Nat
  BY <1>6, FS_EmptySet, FS_CardinalityType DEF V
<1> QED
  BY <1>0, <1>4, <1>5, <1>7, <1>8 DEF V

\* There are finitely many.
LEMMA UnitsFinite ==
    ASSUME NEW counts, Numbers(counts), NEW s \in SUBSET (DOMAIN counts)
    PROVE  IsFiniteSet(Units(counts, s))
<1> DEFINE T == {t \in SUBSET (DOMAIN counts) : ~IsFiniteSet(Units(counts, t))}
<1> SUFFICES ASSUME T # {} PROVE FALSE
  OBVIOUS
<1>1. PICK m \in T : \A t \in SUBSET m : t # m => t \notin T
  <2>1. T \in SUBSET (SUBSET (DOMAIN counts)) /\ IsFiniteSet(DOMAIN counts)
    BY DEF Numbers
  <2> HIDE DEF T
  <2> QED
    BY <2>1, MinimalSubset
<1>2. m # {}
  <2> SUFFICES ASSUME m = {} PROVE FALSE
    OBVIOUS
  <2>1. Units(counts, m) = {}
    BY DEF Units
  <2> QED
    BY <2>1, FS_EmptySet
<1>3. PICK k \in m : TRUE
  BY <1>2
<1>4. IsFiniteSet(Units(counts, m \ {k}))
  BY <1>1, <1>3
<1> QED
  BY <1>3, <1>4, UnitsAdd

\* A sum is the number of units.
LEMMA TotalIsUnits ==
    ASSUME NEW counts, Numbers(counts)
    PROVE  Total(counts) = Cardinality(Units(counts, DOMAIN counts))
<1> DEFINE D == DOMAIN counts
           Pick(s) == CHOOSE x \in s : TRUE
           Step(g, s) == IF s = {} THEN 0 ELSE counts[Pick(s)] + g[s \ {Pick(s)}]
           IsSum(g) == g = [s \in SUBSET D |-> Step(g, s)]
           w == [s \in SUBSET D |-> Cardinality(Units(counts, s))]
           f == CHOOSE g : IsSum(g)
<1>1. Total(counts) = f[D]
  BY DEF Total, MapThenSumSet, MapThenFoldSet
<1>2. \A s : s # {} => Pick(s) \in s
  OBVIOUS
<1> HIDE DEF Pick
<1>3. \A s \in SUBSET D : w[s] = Step(w, s)
  <2> TAKE s \in SUBSET D
  <2>1. CASE s = {}
    <3>1. Units(counts, s) = {}
      BY <2>1 DEF Units
    <3> QED
      BY <2>1, <3>1, FS_EmptySet
  <2>2. CASE s # {}
    <3>1. Pick(s) \in s
      BY <1>2, <2>2
    <3>2. IsFiniteSet(Units(counts, s \ {Pick(s)}))
      BY UnitsFinite
    <3>3. Cardinality(Units(counts, s))
            = counts[Pick(s)] + Cardinality(Units(counts, s \ {Pick(s)}))
      BY <3>1, <3>2, UnitsAdd
    <3> QED
      BY <2>2, <3>3
  <2> QED
    BY <2>1, <2>2
<1>4. IsSum(w)
  <2> HIDE DEF Step
  <2>1. w = [s \in SUBSET D |-> w[s]]
    OBVIOUS
  <2> HIDE DEF w
  <2> QED
    BY <1>3, <2>1
<1>5. \A s \in SUBSET D : f[s] = Step(f, s)
  <2>1. IsSum(f)
    <3> HIDE DEF IsSum
    <3> QED
      BY <1>4
  <2> HIDE DEF f, Step
  <2> QED
    BY <2>1
<1> HIDE DEF f
<1>6. \A s \in SUBSET D : f[s] = w[s]
  <2> DEFINE T == {s \in SUBSET D : f[s] # w[s]}
  <2> SUFFICES ASSUME T # {} PROVE FALSE
    OBVIOUS
  <2>1. PICK m \in T : \A s \in SUBSET m : s # m => s \notin T
    <3>1. T \in SUBSET (SUBSET D) /\ IsFiniteSet(D)
      BY DEF Numbers
    <3> HIDE DEF T
    <3> QED
      BY <3>1, MinimalSubset
  <2>2. f[m] = Step(f, m) /\ w[m] = Step(w, m)
    <3> HIDE DEF Step
    <3> QED
      BY <1>3, <1>5
  <2>3. m # {}
    BY <2>2
  <2>4. f[m \ {Pick(m)}] = w[m \ {Pick(m)}]
    <3> HIDE DEF w
    <3> QED
      BY <1>2, <2>1, <2>3
  <2> HIDE DEF w
  <2> QED
    BY <2>2, <2>3, <2>4
<1> QED
  BY <1>1, <1>6

LEMMA TotalIsNumber == \A counts : Numbers(counts) => Total(counts) \in Nat
  BY TotalIsUnits, UnitsFinite, FS_CardinalityType

\* What a key counts, if it counts.
At(counts, k) == IF k \in DOMAIN counts THEN counts[k] ELSE 0

\* A sum changes by what one of its counts changes.
LEMMA TotalChanges ==
    ASSUME NEW counts, NEW new, Numbers(counts), Numbers(new), NEW k,
           (DOMAIN new) \ {k} = (DOMAIN counts) \ {k},
           \A x \in (DOMAIN counts) \ {k} : new[x] = counts[x]
    PROVE  /\ Total(new) = Total(counts) - At(counts, k) + At(new, k)
           /\ At(counts, k) \in 0..Total(counts)
           /\ At(new, k) \in Nat
<1> DEFINE rest == Cardinality(Units(counts, (DOMAIN counts) \ {k}))
<1>1. ASSUME NEW c, Numbers(c)
      PROVE  /\ Total(c) = At(c, k) + Cardinality(Units(c, (DOMAIN c) \ {k}))
             /\ At(c, k) \in Nat
             /\ Cardinality(Units(c, (DOMAIN c) \ {k})) \in Nat
  <2>1. IsFiniteSet(Units(c, (DOMAIN c) \ {k}))
    BY <1>1, UnitsFinite
  <2>2. Cardinality(Units(c, (DOMAIN c) \ {k})) \in Nat
    BY <2>1, FS_CardinalityType
  <2>3. CASE k \in DOMAIN c
    BY <1>1, <2>1, <2>2, <2>3, TotalIsUnits, UnitsAdd DEF At, Numbers
  <2>4. CASE k \notin DOMAIN c
    <3>1. (DOMAIN c) \ {k} = DOMAIN c
      BY <2>4
    <3> QED
      BY <1>1, <2>2, <2>4, <3>1, TotalIsUnits DEF At
  <2> QED
    BY <2>2, <2>3, <2>4
<1>2. Units(new, (DOMAIN new) \ {k}) = Units(counts, (DOMAIN counts) \ {k})
  BY DEF Units
<1>3. /\ Total(counts) = At(counts, k) + rest /\ At(counts, k) \in Nat /\ rest \in Nat
      /\ Total(new) = At(new, k) + rest /\ At(new, k) \in Nat
  BY <1>1, <1>2
<1> HIDE DEF rest
<1> QED
  BY <1>3

\* The sum of no counts.
LEMMA NothingCounted == \A counts : DOMAIN counts = {} => Numbers(counts) /\ Total(counts) = 0
<1> SUFFICES ASSUME NEW counts, DOMAIN counts = {} PROVE Numbers(counts) /\ Total(counts) = 0
  OBVIOUS
<1>1. Numbers(counts)
  BY FS_EmptySet DEF Numbers
<1>2. Units(counts, DOMAIN counts) = {}
  BY DEF Units
<1> QED
  BY <1>1, <1>2, TotalIsUnits, FS_EmptySet

\* A sum does not depend on how its counts are named.
LEMMA TotalReindexed ==
    ASSUME NEW a, NEW b, Numbers(a), Numbers(b), NEW f \in Bijection(DOMAIN a, DOMAIN b),
           \A x \in DOMAIN a : b[f[x]] = a[x]
    PROVE  Total(a) = Total(b)
<1> DEFINE U == Units(a, DOMAIN a)
           V == Units(b, DOMAIN b)
           h == [p \in U |-> <<f[p[1]], p[2]>>]
<1>1. /\ \A x \in DOMAIN a : f[x] \in DOMAIN b
      /\ \A x, y \in DOMAIN a : f[x] = f[y] => x = y
      /\ \A y \in DOMAIN b : \E x \in DOMAIN a : f[x] = y
  BY DEF Bijection, Injection, Surjection, IsInjective
<1>2. \A p \in U : /\ p = <<p[1], p[2]>> /\ p[1] \in DOMAIN a /\ p[2] \in Nat /\ p[2] \in 1..a[p[1]]
  BY DEF Units
<1>3. \A p \in U : h[p] \in V
  BY <1>1, <1>2 DEF Units
<1>4. \A p, q \in U : h[p] = h[q] => p = q
  <2> SUFFICES ASSUME NEW p \in U, NEW q \in U, h[p] = h[q] PROVE p = q
    OBVIOUS
  <2>1. f[p[1]] = f[q[1]] /\ p[2] = q[2]
    <3> HIDE DEF U
    <3> QED
      OBVIOUS
  <2>2. p[1] = q[1]
    BY <1>1, <1>2, <2>1
  <2> QED
    BY <1>2, <2>1, <2>2
<1>5. \A r \in V : \E p \in U : h[p] = r
  <2> TAKE r \in V
  <2>1. r = <<r[1], r[2]>> /\ r[1] \in DOMAIN b /\ r[2] \in Nat /\ r[2] \in 1..b[r[1]]
    BY DEF Units
  <2>2. PICK x \in DOMAIN a : f[x] = r[1]
    BY <1>1, <2>1
  <2>3. <<x, r[2]>> \in U
    BY <2>1, <2>2 DEF Units
  <2>4. h[<<x, r[2]>>] = r
    <3> HIDE DEF U
    <3> QED
      BY <2>1, <2>2, <2>3
  <2> QED
    BY <2>3, <2>4
<1>6. h \in Bijection(U, V)
  <2>1. h \in [U -> V]
    <3> HIDE DEF V, U
    <3> QED
      BY <1>3
  <2> HIDE DEF h, U, V
  <2> QED
    BY <1>4, <1>5, <2>1 DEF Bijection, Injection, Surjection, IsInjective
<1>7. IsFiniteSet(U)
  BY UnitsFinite
<1> HIDE DEF h, U, V
<1>8. Cardinality(U) = Cardinality(V)
  <2>1. ExistsBijection(U, V)
    BY <1>6 DEF ExistsBijection
  <2> QED
    BY <1>7, <2>1, FS_Bijection
<1> QED
  BY <1>8, TotalIsUnits DEF U, V

-----------------------------------------------------------------------------
(* Filters.                                                                *)

\* The index of the k-th element that a filter takes.
Nth(chosen, k) == CHOOSE i \in chosen : Cardinality({j \in chosen : j <= i}) = k

\* Rank k is that of one of the chosen indices, and of no other.
LEMMA NthIs ==
    ASSUME NEW n \in Nat, NEW chosen \in SUBSET (1..n)
    PROVE  /\ IsFiniteSet(chosen) /\ Cardinality(chosen) \in Nat
           /\ \A k \in 1..Cardinality(chosen) :
                 /\ Nth(chosen, k) \in chosen
                 /\ Cardinality({j \in chosen : j <= Nth(chosen, k)}) = k
           /\ \A i \in chosen : /\ Cardinality({j \in chosen : j <= i}) \in 1..Cardinality(chosen)
                                /\ Nth(chosen, Cardinality({j \in chosen : j <= i})) = i
           /\ \A k, l \in 1..Cardinality(chosen) : k < l => Nth(chosen, k) < Nth(chosen, l)
<1> DEFINE upTo(i) == {j \in chosen : j <= i}
           rank == [i \in chosen |-> Cardinality(upTo(i))]
           size == Cardinality(chosen)
<1>1. IsFiniteSet(chosen) /\ size \in Nat
  <2>1. IsFiniteSet(1..n)
    BY FS_Interval
  <2>2. IsFiniteSet(chosen)
    BY <2>1, FS_Subset
  <2> QED
    BY <2>2, FS_CardinalityType
<1>2. \A i \in chosen : IsFiniteSet(upTo(i)) /\ Cardinality(upTo(i)) \in 1..size
  <2> TAKE i \in chosen
  <2>1. upTo(i) \in SUBSET chosen /\ i \in upTo(i)
    OBVIOUS
  <2> HIDE DEF upTo
  <2>2. IsFiniteSet(upTo(i)) /\ Cardinality(upTo(i)) <= size
    BY <1>1, <2>1, FS_Subset
  <2>3. Cardinality(upTo(i)) \in Nat /\ Cardinality(upTo(i)) # 0
    BY <2>1, <2>2, FS_CardinalityType, FS_EmptySet
  <2> HIDE DEF size
  <2> QED
    BY <1>1, <2>2, <2>3
<1>3. \A i, j \in chosen : i < j => Cardinality(upTo(i)) < Cardinality(upTo(j))
  <2> SUFFICES ASSUME NEW i \in chosen, NEW j \in chosen, i < j
               PROVE  Cardinality(upTo(i)) < Cardinality(upTo(j))
    OBVIOUS
  <2>0. \A x \in chosen : x \in Int
    OBVIOUS
  <2>1. upTo(i) \in SUBSET upTo(j) /\ j \in upTo(j) /\ j \notin upTo(i)
    <3>1. \A x \in chosen : x <= i => x <= j
      BY <2>0
    <3>2. j <= j /\ ~(j <= i)
      BY <2>0
    <3> QED
      BY <3>1, <3>2
  <2> HIDE DEF upTo, size
  <2>2. /\ Cardinality(upTo(i)) <= Cardinality(upTo(j))
        /\ Cardinality(upTo(i)) # Cardinality(upTo(j))
    BY <1>2, <2>1, FS_Subset
  <2>3. Cardinality(upTo(i)) \in Int /\ Cardinality(upTo(j)) \in Int
    BY <1>1, <1>2
  <2> QED
    BY <2>2, <2>3
<1>4. \A i, j \in chosen : Cardinality(upTo(i)) = Cardinality(upTo(j)) => i = j
  <2> HIDE DEF upTo, size
  <2> SUFFICES ASSUME NEW i \in chosen, NEW j \in chosen,
                      Cardinality(upTo(i)) = Cardinality(upTo(j)), i # j
               PROVE  FALSE
    OBVIOUS
  <2>1. i < j \/ j < i
    OBVIOUS
  <2>2. Cardinality(upTo(i)) \in Int
    BY <1>1, <1>2
  <2> QED
    BY <1>3, <2>1, <2>2
<1>5. \A k \in 1..size : \E i \in chosen : Cardinality(upTo(i)) = k
  <2>1. rank \in Injection(chosen, 1..size)
    <3> HIDE DEF upTo, size
    <3> QED
      BY <1>2, <1>4 DEF Injection, IsInjective
  <2>2. IsFiniteSet(1..size) /\ Cardinality(1..size) = size
    BY <1>1, FS_Interval
  <2>3. rank \in Surjection(chosen, 1..size)
    <3> HIDE DEF rank
    <3> QED
      BY <2>1, <2>2, FS_Injection
  <2> HIDE DEF upTo, size
  <2> QED
    BY <2>3 DEF Surjection
<1>6. \A k \in 1..size : Nth(chosen, k) \in chosen /\ Cardinality(upTo(Nth(chosen, k))) = k
  BY <1>5 DEF Nth
<1>7. \A i \in chosen : Nth(chosen, Cardinality(upTo(i))) = i
  <2> HIDE DEF upTo, size
  <2> QED
    BY <1>2, <1>4, <1>6
<1>8. \A k, l \in 1..size : k < l => Nth(chosen, k) < Nth(chosen, l)
  <2> HIDE DEF upTo
  <2> SUFFICES ASSUME NEW k \in 1..size, NEW l \in 1..size, k < l
               PROVE  Nth(chosen, k) < Nth(chosen, l)
    OBVIOUS
  <2> DEFINE p == Nth(chosen, k)
             q == Nth(chosen, l)
  <2>1. p \in chosen /\ q \in chosen /\ Cardinality(upTo(p)) = k /\ Cardinality(upTo(q)) = l
    BY <1>6
  <2> HIDE DEF p, q, size
  <2>2. p \in Int /\ q \in Int /\ k \in Int /\ l \in Int
    BY <1>1, <2>1
  <2>3. p # q /\ ~(q < p)
    BY <1>3, <2>1, <2>2
  <2> QED
    BY <2>2, <2>3 DEF p, q
<1> QED
  BY <1>1, <1>2, <1>6, <1>7, <1>8

\* A filter takes the chosen elements, each once, in their order.
LEMMA FilteredIs ==
    ASSUME NEW S, NEW s \in Seq(S), NEW chosen \in SUBSET (DOMAIN s)
    PROVE  /\ Filtered(s, chosen) \in Seq(S)
           /\ Len(Filtered(s, chosen)) = Cardinality(chosen) /\ Cardinality(chosen) \in Nat
           /\ \A k \in 1..Cardinality(chosen) :
                 Nth(chosen, k) \in chosen /\ Filtered(s, chosen)[k] = s[Nth(chosen, k)]
           /\ \A k, l \in 1..Cardinality(chosen) : k < l => Nth(chosen, k) < Nth(chosen, l)
           /\ \A i \in chosen : \E k \in 1..Cardinality(chosen) : Nth(chosen, k) = i
<1>1. Len(s) \in Nat /\ chosen \in SUBSET (1..Len(s)) /\ \A i \in 1..Len(s) : s[i] \in S
  OBVIOUS
<1>2. /\ Cardinality(chosen) \in Nat
      /\ \A k \in 1..Cardinality(chosen) : Nth(chosen, k) \in chosen
      /\ \A k, l \in 1..Cardinality(chosen) : k < l => Nth(chosen, k) < Nth(chosen, l)
      /\ \A i \in chosen : \E k \in 1..Cardinality(chosen) : Nth(chosen, k) = i
  BY <1>1, NthIs
<1>3. Filtered(s, chosen) = [k \in 1..Cardinality(chosen) |-> s[Nth(chosen, k)]]
  BY DEF Filtered, Nth
<1> DEFINE t == [k \in 1..Cardinality(chosen) |-> s[Nth(chosen, k)]]
<1>4. t \in Seq(S) /\ Len(t) = Cardinality(chosen)
  <2> DEFINE n == Cardinality(chosen)
  <2>1. \A k \in 1..n : s[Nth(chosen, k)] \in S
    BY <1>1, <1>2
  <2>2. n \in Nat
    BY <1>2
  <2> HIDE DEF n
  <2> QED
    BY <2>1, <2>2 DEF n
<1> QED
  BY <1>2, <1>3, <1>4

\* An index above the others is the last that a filter takes.
LEMMA NthGrows ==
    ASSUME NEW n \in Nat, NEW chosen \in SUBSET (1..n)
    PROVE  LET more == chosen \cup {n + 1}
               size == Cardinality(chosen)
           IN  /\ size \in Nat /\ Cardinality(more) = size + 1
               /\ \A k \in 1..size : Nth(more, k) = Nth(chosen, k)
               /\ Nth(more, size + 1) = n + 1
<1> DEFINE more == chosen \cup {n + 1}
           size == Cardinality(chosen)
<1>1. /\ IsFiniteSet(chosen) /\ size \in Nat
      /\ \A k \in 1..size : /\ Nth(chosen, k) \in chosen
                            /\ Cardinality({j \in chosen : j <= Nth(chosen, k)}) = k
  BY NthIs
<1>2. more \in SUBSET (1..n + 1) /\ n + 1 \in more /\ n + 1 \notin chosen /\ n + 1 \in Nat
      /\ \A i \in chosen : i \in more
  OBVIOUS
<1>3. Cardinality(more) = size + 1
  BY <1>1, <1>2, FS_AddElement
<1>4. \A i \in chosen : {j \in more : j <= i} = {j \in chosen : j <= i}
  OBVIOUS
<1>5. {j \in more : j <= n + 1} = more
  <2>1. \A j \in chosen : j <= n + 1
    OBVIOUS
  <2>2. n + 1 <= n + 1
    OBVIOUS
  <2> QED
    BY <2>1, <2>2
<1> HIDE DEF more
<1>6. \A i \in more : Nth(more, Cardinality({j \in more : j <= i})) = i
  BY <1>2, NthIs
<1> HIDE DEF size
<1>7. \A k \in 1..size : Nth(more, k) = Nth(chosen, k)
  <2> TAKE k \in 1..size
  <2> DEFINE i == Nth(chosen, k)
  <2>1. i \in chosen /\ Cardinality({j \in chosen : j <= i}) = k
    BY <1>1
  <2> HIDE DEF i
  <2>2. Nth(more, k) = i
    BY <1>2, <1>4, <1>6, <2>1
  <2> QED
    BY <2>2 DEF i
<1>8. Nth(more, size + 1) = n + 1
  BY <1>2, <1>3, <1>5, <1>6
<1> QED
  BY <1>1, <1>3, <1>7, <1>8 DEF more, size

\* The k-th of the first n numbers is k.
LEMMA NthOfAll ==
    ASSUME NEW n \in Nat
    PROVE  Cardinality(1..n) = n /\ \A k \in 1..n : Nth(1..n, k) = k
<1>1. Cardinality(1..n) = n
  BY FS_Interval
<1>2. \A i \in 1..n : Nth(1..n, Cardinality({j \in 1..n : j <= i})) = i
  BY NthIs
<1>3. ASSUME NEW k \in 1..n PROVE Nth(1..n, k) = k
  <2>1. {j \in 1..n : j <= k} = 1..k
    OBVIOUS
  <2>2. Cardinality(1..k) = k
    BY FS_Interval
  <2> QED
    BY <1>2, <2>1, <2>2
<1> QED
  BY <1>1, <1>3

\* A filter of a slice that grew takes the new element last, or not at all.
LEMMA FilteredGrows ==
    ASSUME NEW S, NEW s \in Seq(S), NEW x \in S, NEW chosen \in SUBSET (DOMAIN s)
    PROVE  /\ Filtered(Append(s, x), chosen) = Filtered(s, chosen)
           /\ Filtered(Append(s, x), chosen \cup {Len(s) + 1}) = Append(Filtered(s, chosen), x)
<1> DEFINE t == Append(s, x)
           more == chosen \cup {Len(s) + 1}
           size == Cardinality(chosen)
<1>1. /\ Len(s) \in Nat /\ chosen \in SUBSET (1..Len(s)) /\ t[Len(s) + 1] = x
      /\ \A i \in 1..Len(s) : t[i] = s[i]
  OBVIOUS
<1>2. /\ Filtered(s, chosen) = [k \in 1..size |-> s[Nth(chosen, k)]]
      /\ Filtered(t, chosen) = [k \in 1..size |-> t[Nth(chosen, k)]]
      /\ Filtered(t, more) = [k \in 1..Cardinality(more) |-> t[Nth(more, k)]]
  BY DEF Filtered, Nth
<1> HIDE DEF t, more
<1>3. /\ size \in Nat /\ Cardinality(more) = size + 1
      /\ \A k \in 1..size : Nth(more, k) = Nth(chosen, k)
      /\ Nth(more, size + 1) = Len(s) + 1
  BY <1>1, NthGrows DEF more
<1>4. \A k \in 1..size : Nth(chosen, k) \in 1..Len(s)
  BY <1>1, NthIs
<1> HIDE DEF size
<1>5. [k \in 1..size |-> t[Nth(chosen, k)]] = [k \in 1..size |-> s[Nth(chosen, k)]]
  BY <1>1, <1>4
<1> DEFINE short == [k \in 1..size |-> s[Nth(chosen, k)]]
           long == [k \in 1..size + 1 |-> t[Nth(more, k)]]
<1>6. Append(short, x) = [k \in 1..size + 1 |-> IF k = size + 1 THEN x ELSE short[k]]
  BY <1>3
<1>7. \A k \in 1..size : k \in 1..size + 1 /\ k # size + 1
  BY <1>3
<1>8. \A k \in 1..size + 1 : k \in 1..size \/ k = size + 1
  BY <1>3
<1>9. long = [k \in 1..size + 1 |-> IF k = size + 1 THEN x ELSE short[k]]
  BY <1>1, <1>3, <1>4, <1>7, <1>8
<1> QED
  BY <1>2, <1>3, <1>5, <1>6, <1>9 DEF t, more

-----------------------------------------------------------------------------
(* Concatenations.                                                         *)

\* One sequence after the other: g[i] is the concatenation of the first i.
Flattens(g, seqs, n) == g = [i \in 1..n |-> IF i = 1 THEN seqs[i] ELSE g[i - 1] \o seqs[i]]

LEMMA FlattenExists ==
    ASSUME NEW seqs, NEW n \in Nat
    PROVE  \E g : Flattens(g, seqs, n)
<1> DEFINE T == {k \in Nat : ~\E g : Flattens(g, seqs, k)}
<1> SUFFICES ASSUME T # {} PROVE FALSE
  OBVIOUS
<1>1. PICK k \in T : \A j \in T : k <= j
  <2>1. T \in SUBSET Nat
    OBVIOUS
  <2> HIDE DEF T
  <2> QED
    BY <2>1, LeastNumber
<1>2. k \in Nat /\ ~\E g : Flattens(g, seqs, k)
  OBVIOUS
<1>3. k # 0
  <2> SUFFICES ASSUME k = 0 PROVE FALSE
    OBVIOUS
  <2> DEFINE none == [i \in 1..0 |-> 0]
  <2>1. Flattens(none, seqs, 0)
    BY DEF Flattens
  <2> QED
    BY <1>2, <2>1
<1>4. PICK g : Flattens(g, seqs, k - 1)
  BY <1>1, <1>2, <1>3
<1> DEFINE h == [i \in 1..k |-> IF i < k THEN g[i] ELSE IF i = 1 THEN seqs[i] ELSE g[i - 1] \o seqs[i]]
<1>5. Flattens(h, seqs, k)
  <2>1. ASSUME NEW i \in 1..k PROVE h[i] = IF i = 1 THEN seqs[i] ELSE h[i - 1] \o seqs[i]
    <3>1. i < k => g[i] = IF i = 1 THEN seqs[i] ELSE g[i - 1] \o seqs[i]
      <4>1. i < k => i \in 1..k - 1
        BY <1>2
      <4> QED
        BY <1>4, <4>1 DEF Flattens
    <3>2. i # 1 => i - 1 \in 1..k /\ i - 1 < k
      BY <1>2
    <3>3. i # 1 => h[i - 1] = g[i - 1]
      BY <3>2
    <3> QED
      BY <3>1, <3>3
  <2>2. h = [i \in 1..k |-> h[i]]
    OBVIOUS
  <2> HIDE DEF h
  <2> QED
    BY <2>1, <2>2 DEF Flattens
<1> QED
  BY <1>2, <1>5

LEMMA FlattenUnique ==
    ASSUME NEW seqs, NEW more, NEW n \in Nat, NEW m \in Nat, n <= m, NEW g, NEW h,
           Flattens(g, seqs, n), Flattens(h, more, m), \A i \in 1..n : seqs[i] = more[i]
    PROVE  \A i \in 1..n : g[i] = h[i]
<1> DEFINE T == {i \in Nat : i \in 1..n /\ g[i] # h[i]}
<1> SUFFICES ASSUME T # {} PROVE FALSE
  OBVIOUS
<1>1. PICK k \in T : \A j \in T : k <= j
  <2>1. T \in SUBSET Nat
    OBVIOUS
  <2> HIDE DEF T
  <2> QED
    BY <2>1, LeastNumber
<1>2. k \in 1..n /\ k \in 1..m /\ g[k] # h[k]
  OBVIOUS
<1>3. k # 1 => g[k - 1] = h[k - 1]
  <2>1. k # 1 => k - 1 \in 1..n /\ k - 1 \in Nat /\ ~(k <= k - 1)
    BY <1>2
  <2> QED
    BY <1>1, <2>1
<1> HIDE DEF T
<1>4. /\ g[k] = IF k = 1 THEN seqs[k] ELSE g[k - 1] \o seqs[k]
      /\ h[k] = IF k = 1 THEN more[k] ELSE h[k - 1] \o more[k]
  BY <1>2 DEF Flattens
<1> QED
  BY <1>2, <1>3, <1>4

\* FlattenSeq takes the last of the concatenations.
LEMMA FlattenIs ==
    ASSUME NEW seqs, NEW n \in Nat, n # 0, Len(seqs) = n
    PROVE  \E g : Flattens(g, seqs, n) /\ FlattenSeq(seqs) = g[n]
<1> DEFINE flatten == CHOOSE g : Flattens(g, seqs, n)
<1>1. Flattens(flatten, seqs, n)
  BY FlattenExists
<1>2. FlattenSeq(seqs) = flatten[n]
  BY DEF FlattenSeq, Flattens
<1> HIDE DEF flatten
<1> QED
  BY <1>1, <1>2

\* One more comes after the others.
LEMMA FlattenOneMore ==
    ASSUME NEW few, NEW many, NEW n \in Nat, Len(few) = n, Len(many) = n + 1,
           \A i \in 1..n : few[i] = many[i]
    PROVE  FlattenSeq(many) = IF n = 0 THEN many[n + 1] ELSE FlattenSeq(few) \o many[n + 1]
<1>1. PICK h : Flattens(h, many, n + 1) /\ FlattenSeq(many) = h[n + 1]
  BY FlattenIs
<1>2. h[n + 1] = IF n = 0 THEN many[n + 1] ELSE h[n] \o many[n + 1]
  <2>1. n + 1 \in 1..n + 1 /\ (n + 1) - 1 = n /\ (n + 1 = 1 <=> n = 0)
    OBVIOUS
  <2> QED
    BY <1>1, <2>1 DEF Flattens
<1>3. ASSUME n # 0 PROVE h[n] = FlattenSeq(few)
  <2>1. PICK g : Flattens(g, few, n) /\ FlattenSeq(few) = g[n]
    BY <1>3, FlattenIs
  <2>2. n + 1 \in Nat /\ n <= n + 1 /\ n \in 1..n
    BY <1>3
  <2>3. \A i \in 1..n : g[i] = h[i]
    BY SMTT(30), <1>1, <2>1, <2>2, FlattenUnique
  <2> QED
    BY <2>1, <2>2, <2>3
<1> QED
  BY <1>1, <1>2, <1>3

\* A sequence of sequences grows by one.
LEMMA FlattenGrows ==
    ASSUME NEW S, NEW s \in Seq(Seq(S)), NEW x \in Seq(S), FlattenSeq(s) \in Seq(S)
    PROVE  /\ FlattenSeq(Append(s, x)) = FlattenSeq(s) \o x
           /\ FlattenSeq(Append(s, x)) \in Seq(S)
           /\ Len(FlattenSeq(Append(s, x))) = Len(FlattenSeq(s)) + Len(x)
<1> DEFINE n == Len(s)
           t == Append(s, x)
<1>1. /\ n \in Nat /\ Len(t) = n + 1 /\ t[n + 1] = x /\ \A i \in 1..n : s[i] = t[i]
  OBVIOUS
<1>2. FlattenSeq(t) = IF n = 0 THEN x ELSE FlattenSeq(s) \o x
  <2> HIDE DEF t
  <2> QED
    BY <1>1, FlattenOneMore
<1>3. n = 0 => FlattenSeq(s) \o x = x
  <2> SUFFICES ASSUME n = 0 PROVE FlattenSeq(s) \o x = x
    OBVIOUS
  <2>1. s = <<>>
    OBVIOUS
  <2>2. FlattenSeq(s) = <<>>
    BY <2>1 DEF FlattenSeq
  <2> QED
    BY <2>2
<1>4. FlattenSeq(t) = FlattenSeq(s) \o x
  BY <1>2, <1>3
<1> QED
  BY <1>4

LEMMA FlattenNothing == FlattenSeq(<<>>) = <<>>
  BY DEF FlattenSeq

\* A concatenation has elements of what is concatenated, and begins with the
\* first element if there is one.
LEMMA FlattenTyped ==
    ASSUME NEW S, NEW s \in Seq(Seq(S))
    PROVE  /\ FlattenSeq(s) \in Seq(S)
           /\ s # <<>> /\ s[1] # <<>> =>
                 Len(FlattenSeq(s)) > 0 /\ FlattenSeq(s)[1] = s[1][1]
<1> DEFINE n == Len(s)
<1>1. n \in Nat /\ DOMAIN s = 1..n /\ \A i \in 1..n : s[i] \in Seq(S)
  OBVIOUS
<1>2. CASE n = 0
  <2>1. s = <<>>
    BY <1>2
  <2>2. FlattenSeq(s) = <<>>
    BY <2>1, FlattenNothing
  <2>3. FlattenSeq(s) \in Seq(S)
    BY <2>2
  <2> QED
    BY <2>1, <2>3
<1>3. CASE n # 0
  <2>1. PICK g : Flattens(g, s, n) /\ FlattenSeq(s) = g[n]
    BY <1>1, <1>3, FlattenIs
  <2> HIDE DEF n
  <2>2. \A i \in 1..n : g[i] = IF i = 1 THEN s[i] ELSE g[i - 1] \o s[i]
    BY <2>1 DEF Flattens
  <2> DEFINE Begins(i) == /\ g[i] \in Seq(S)
                          /\ s[1] # <<>> => Len(g[i]) > 0 /\ g[i][1] = s[1][1]
             T == {i \in 0..n : i # 0 => Begins(i)}
  <2>3. 0 \in T
    BY <1>1
  <2>4. ASSUME NEW i \in 1..n, i - 1 \in T PROVE i \in T
    <3>1. CASE i = 1
      <4>1. g[1] = s[1] /\ s[1] \in Seq(S)
        BY <1>1, <2>2, <3>1
      <4> QED
        BY <3>1, <4>1
    <3>2. CASE i # 1
      <4> DEFINE before == g[i - 1]
                 piece == s[i]
      <4>1. /\ before \in Seq(S) /\ piece \in Seq(S) /\ g[i] = before \o piece
            /\ s[1] # <<>> => Len(before) > 0 /\ before[1] = s[1][1]
        <5>1. Begins(i - 1)
          BY <2>4, <3>2
        <5>2. s[i] \in Seq(S) /\ g[i] = g[i - 1] \o s[i]
          BY <1>1, <2>2, <3>2
        <5> QED
          BY <5>1, <5>2
      <4> HIDE DEF before, piece
      <4>2. /\ before \o piece \in Seq(S)
            /\ Len(before) > 0 => Len(before \o piece) > 0 /\ (before \o piece)[1] = before[1]
        BY <4>1
      <4>3. g[i] \in Seq(S)
        BY <4>1, <4>2
      <4>4. s[1] # <<>> => Len(g[i]) > 0 /\ g[i][1] = s[1][1]
        <5> SUFFICES ASSUME s[1] # <<>> PROVE Len(g[i]) > 0 /\ g[i][1] = s[1][1]
          OBVIOUS
        <5>1. Len(before) > 0 /\ before[1] = s[1][1]
          BY <4>1
        <5> QED
          BY <4>1, <4>2, <5>1
      <4> QED
        BY <4>3, <4>4
    <3> QED
      BY <3>1, <3>2
  <2>5. \A i \in 0..n : i \in T
    <3> HIDE DEF T
    <3> QED
      BY <1>1, <2>3, <2>4, EachNumber
  <2>6. Begins(n)
    <3>1. n \in 0..n
      BY <1>1
    <3> QED
      BY <1>3, <2>5, <3>1
  <2> QED
    BY <2>1, <2>6
<1> QED
  BY <1>2, <1>3

-----------------------------------------------------------------------------
(* Counting in a slice.                                                    *)

\* How many of the first n elements are x.
Among(s, x, n) == Cardinality({i \in 1..n : s[i] = x})

LEMMA AmongOneMore ==
    ASSUME NEW s, NEW x, NEW n \in Nat
    PROVE  /\ Among(s, x, 0) = 0
           /\ Among(s, x, n) \in Nat
           /\ Among(s, x, n + 1) = Among(s, x, n) + (IF s[n + 1] = x THEN 1 ELSE 0)
<1> DEFINE few == {i \in 1..n : s[i] = x}
           more == {i \in 1..n + 1 : s[i] = x}
<1>1. IsFiniteSet(few) /\ Cardinality(few) \in Nat
  <2>1. IsFiniteSet(1..n) /\ few \subseteq 1..n
    BY FS_Interval
  <2> HIDE DEF few
  <2> QED
    BY <2>1, FS_Subset, FS_CardinalityType
<1>2. more = IF s[n + 1] = x THEN few \cup {n + 1} ELSE few
  <2>1. \A i : i \in 1..n + 1 <=> i \in 1..n \/ i = n + 1
    OBVIOUS
  <2> QED
    BY <2>1
<1>3. n + 1 \notin few
  OBVIOUS
<1>4. {i \in 1..0 : s[i] = x} = {}
  OBVIOUS
<1>5. Among(s, x, 0) = 0
  BY <1>4, FS_EmptySet DEF Among
<1> HIDE DEF few, more
<1>6. Cardinality(more) = Cardinality(few) + (IF s[n + 1] = x THEN 1 ELSE 0)
  <2>1. Cardinality(few \cup {n + 1}) = Cardinality(few) + 1
    BY <1>1, <1>3, FS_AddElement
  <2> QED
    BY <1>1, <1>2, <2>1
<1> QED
  BY <1>1, <1>5, <1>6 DEF Among, few, more

\* The sum over a slice that has become longer.
LEMMA TotalOneMore ==
    ASSUME NEW n \in Nat, NEW few \in [1..n -> Nat], NEW more \in [1..n + 1 -> Nat],
           \A i \in 1..n : more[i] = few[i]
    PROVE  Total(few) \in Nat /\ Total(more) = Total(few) + more[n + 1]
<1>1. Numbers(few) /\ Numbers(more)
  <2>1. IsFiniteSet(1..n) /\ IsFiniteSet(1..n + 1)
    BY FS_Interval
  <2>2. DOMAIN few = 1..n /\ DOMAIN more = 1..n + 1
    OBVIOUS
  <2> QED
    BY <2>1, <2>2 DEF Numbers
<1>2. (DOMAIN more) \ {n + 1} = (DOMAIN few) \ {n + 1}
  OBVIOUS
<1>3. \A i \in (DOMAIN few) \ {n + 1} : more[i] = few[i]
  OBVIOUS
<1>4. Total(more) = Total(few) - At(few, n + 1) + At(more, n + 1)
  BY <1>1, <1>2, <1>3, TotalChanges
<1>5. At(few, n + 1) = 0 /\ At(more, n + 1) = more[n + 1] /\ more[n + 1] \in Nat
  BY DEF At
<1>6. Total(few) \in Nat
  BY <1>1, TotalIsNumber
<1> QED
  BY <1>4, <1>5, <1>6

\* What orders a set has every element of it once.
LEMMA OrderIs ==
    ASSUME NEW S, IsFiniteSet(S), NEW order \in SetToSeqs(S)
    PROVE  /\ order \in Seq(S) /\ Len(order) = Cardinality(S) /\ Cardinality(S) \in Nat
           /\ \A i, j \in 1..Len(order) : i # j => order[i] # order[j]
           /\ \A x \in S : \E i \in 1..Len(order) : order[i] = x
           /\ ToSet(order) = S
<1> DEFINE n == Cardinality(S)
<1>1. n \in Nat
  BY FS_CardinalityType
<1>2. order \in [1..n -> S] /\ \A i, j \in 1..n : i # j => order[i] # order[j]
  BY DEF SetToSeqs
<1>3. order \in Seq(S) /\ Len(order) = n
  BY <1>1, <1>2
<1>4. order \in Injection(1..n, S)
  BY <1>2 DEF Injection, IsInjective
<1>5. Cardinality(1..n) = n
  BY <1>1, FS_Interval
<1>6. order \in Surjection(1..n, S)
  BY <1>4, <1>5, FS_Injection
<1>7. \A x \in S : \E i \in 1..n : order[i] = x
  BY <1>6 DEF Surjection
<1> HIDE DEF n
<1>8. ToSet(order) = S
  BY <1>2, <1>7 DEF ToSet
<1> QED
  BY <1>1, <1>2, <1>3, <1>7, <1>8 DEF n
=============================================================================
