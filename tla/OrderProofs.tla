----------------------------- MODULE OrderProofs -----------------------------
(***************************************************************************)
(* What Ascending, Greatest and Least yield, for every finite set of       *)
(* integers.  An element's rank is the number of elements below it.        *)
(***************************************************************************)
EXTENDS Order, Sequences, FiniteSetTheorems, TLAPS

Lesser(S, x) == {y \in S : y < x}

\* How many elements of a finite set are below x: fewer than all of them,
\* and more for a greater x.
LEMMA RankOrder ==
  ASSUME NEW S \in SUBSET Int, IsFiniteSet(S)
  PROVE  /\ Cardinality(S) \in Nat
         /\ \A x \in S : Cardinality(Lesser(S, x)) \in 0 .. Cardinality(S) - 1
         /\ \A x, z \in S : x < z =>
              Cardinality(Lesser(S, x)) < Cardinality(Lesser(S, z))
<1>1. Cardinality(S) \in Nat
  BY FS_CardinalityType
<1>2. ASSUME NEW T, NEW U, IsFiniteSet(U), T \subseteq U, NEW e \in U, e \notin T
      PROVE  /\ Cardinality(T) \in Nat /\ Cardinality(U) \in Nat
             /\ Cardinality(T) < Cardinality(U)
  <2>1. /\ IsFiniteSet(T)
        /\ Cardinality(T) <= Cardinality(U)
        /\ Cardinality(U) = Cardinality(T) => U = T
    BY <1>2, FS_Subset
  <2>2. Cardinality(T) \in Nat /\ Cardinality(U) \in Nat
    BY <1>2, <2>1, FS_CardinalityType
  <2>3. U # T
    BY <1>2
  <2>4. QED
    BY <2>1, <2>2, <2>3
<1>3. ASSUME NEW x \in S
      PROVE  Cardinality(Lesser(S, x)) \in 0 .. Cardinality(S) - 1
  <2>1. Lesser(S, x) \subseteq S /\ x \notin Lesser(S, x)
    BY DEF Lesser
  <2>2. Cardinality(Lesser(S, x)) \in Nat
        /\ Cardinality(Lesser(S, x)) < Cardinality(S)
    BY <1>2, <2>1
  <2>3. QED
    BY <1>1, <2>2
<1>4. ASSUME NEW x \in S, NEW z \in S, x < z
      PROVE  Cardinality(Lesser(S, x)) < Cardinality(Lesser(S, z))
  <2>1. /\ \A y \in S : y < x => y < z
        /\ ~(x < x)
    <3>1. x \in Int /\ z \in Int /\ \A y \in S : y \in Int
      OBVIOUS
    <3>2. QED
      BY <1>4, <3>1
  <2>2. /\ Lesser(S, x) \subseteq Lesser(S, z)
        /\ x \in Lesser(S, z) /\ x \notin Lesser(S, x)
    BY <1>4, <2>1 DEF Lesser
  <2>3. IsFiniteSet(Lesser(S, z))
    BY FS_Subset DEF Lesser
  <2>4. QED
    BY <1>2, <2>2, <2>3
<1>5. QED
  BY <1>1, <1>3, <1>4

\* Every position of the ascending order is taken by exactly one element.
LEMMA RankOnto ==
  ASSUME NEW S \in SUBSET Int, IsFiniteSet(S)
  PROVE  \A i \in 1 .. Cardinality(S) : \E x \in S : Cardinality(Lesser(S, x)) = i - 1
<1> DEFINE rank == [x \in S |-> Cardinality(Lesser(S, x)) + 1]
           T == 1 .. Cardinality(S)
<1>1. Cardinality(S) \in Nat
  BY RankOrder
<1>2. rank \in [S -> T]
  BY <1>1, RankOrder
<1>3. \A x, z \in S : rank[x] = rank[z] => x = z
  <2> SUFFICES ASSUME NEW x \in S, NEW z \in S, x # z
               PROVE  rank[x] # rank[z]
    OBVIOUS
  <2>1. x < z \/ z < x
    OBVIOUS
  <2>2. Cardinality(Lesser(S, x)) \in Int /\ Cardinality(Lesser(S, z)) \in Int
    BY <1>1, RankOrder
  <2>3. \/ Cardinality(Lesser(S, x)) < Cardinality(Lesser(S, z))
        \/ Cardinality(Lesser(S, z)) < Cardinality(Lesser(S, x))
    BY <2>1, RankOrder
  <2>4. QED
    BY <2>2, <2>3
<1>4. rank \in Injection(S, T)
  BY <1>2, <1>3 DEF Injection, IsInjective
<1>5. IsFiniteSet(T) /\ Cardinality(T) = Cardinality(S)
  BY <1>1, FS_Interval
<1>6. rank \in Surjection(S, T)
  BY <1>4, <1>5, FS_Injection
<1>7. \A i \in T : \E x \in S : rank[x] = i
  BY <1>6 DEF Surjection
<1>8. ASSUME NEW i \in T
      PROVE  \E x \in S : Cardinality(Lesser(S, x)) = i - 1
  <2>1. PICK x \in S : rank[x] = i
    BY <1>7
  <2>2. Cardinality(Lesser(S, x)) \in Int /\ Cardinality(Lesser(S, x)) + 1 = i
    BY <1>1, <2>1, RankOrder
  <2>3. QED
    BY <1>1, <2>2
<1>9. QED
  BY <1>8

\* Ascending(S) lists the elements of S, all of them and no others.
LEMMA AscendingLists ==
  ASSUME NEW S \in SUBSET Int, IsFiniteSet(S)
  PROVE  /\ \A T : S \subseteq T => Ascending(S) \in Seq(T)
         /\ S \subseteq ImageOf(Ascending(S))
<1> DEFINE at(i) == CHOOSE x \in S : Cardinality(Lesser(S, x)) = i - 1
<1>1. Ascending(S) = [i \in 1 .. Cardinality(S) |-> at(i)]
  BY DEF Ascending, Lesser
<1>2. Cardinality(S) \in Nat
  BY RankOrder
<1>3. \A i \in 1 .. Cardinality(S) :
        at(i) \in S /\ Cardinality(Lesser(S, at(i))) = i - 1
  BY RankOnto
<1> HIDE DEF at
<1>4. Ascending(S) \in [1 .. Cardinality(S) -> S]
  BY <1>1, <1>3
<1>5. ASSUME NEW T, S \subseteq T PROVE Ascending(S) \in Seq(T)
  <2>1. Ascending(S) \in [1 .. Cardinality(S) -> T]
    BY <1>4, <1>5
  <2>2. QED
    BY <1>2, <2>1
<1>6. ASSUME NEW x \in S, NEW z \in S,
             Cardinality(Lesser(S, x)) = Cardinality(Lesser(S, z))
      PROVE  x = z
  <2>1. x \in Int /\ z \in Int
    OBVIOUS
  <2>2. Cardinality(Lesser(S, x)) \in Int /\ Cardinality(Lesser(S, z)) \in Int
    BY <1>2, RankOrder
  <2>3. /\ x < z => Cardinality(Lesser(S, x)) < Cardinality(Lesser(S, z))
        /\ z < x => Cardinality(Lesser(S, z)) < Cardinality(Lesser(S, x))
    BY RankOrder
  <2>4. QED
    BY <1>6, <2>1, <2>2, <2>3
<1>7. ASSUME NEW x \in S PROVE x \in ImageOf(Ascending(S))
  <2> DEFINE i == Cardinality(Lesser(S, x)) + 1
  <2>1. i \in 1 .. Cardinality(S) /\ Cardinality(Lesser(S, x)) = i - 1
    BY <1>2, RankOrder
  <2>2. at(i) = x
    BY <1>3, <1>6, <2>1
  <2>3. i \in DOMAIN Ascending(S) /\ Ascending(S)[i] = x
    BY <1>1, <2>1, <2>2
  <2>4. QED
    BY <2>3 DEF ImageOf
<1>8. QED
  BY <1>5, <1>7

\* ... and lists them in order, nothing twice.
LEMMA AscendingOrder ==
  ASSUME NEW S \in SUBSET Int, IsFiniteSet(S)
  PROVE  /\ Len(Ascending(S)) = Cardinality(S) /\ Cardinality(S) \in Nat
         /\ \A i \in 1 .. Cardinality(S) : Ascending(S)[i] \in S
         /\ \A i, j \in 1 .. Cardinality(S) :
              i < j => Ascending(S)[i] < Ascending(S)[j]
<1> DEFINE at(i) == CHOOSE x \in S : Cardinality(Lesser(S, x)) = i - 1
<1>1. Ascending(S) = [i \in 1 .. Cardinality(S) |-> at(i)]
  BY DEF Ascending, Lesser
<1>2. Cardinality(S) \in Nat
  BY RankOrder
<1>3. \A i \in 1 .. Cardinality(S) :
        at(i) \in S /\ Cardinality(Lesser(S, at(i))) = i - 1
  BY RankOnto
<1> HIDE DEF at
<1>4. ASSUME NEW i \in 1 .. Cardinality(S), NEW j \in 1 .. Cardinality(S), i < j
      PROVE  at(i) < at(j)
  <2>1. /\ at(i) \in S /\ at(j) \in S
        /\ Cardinality(Lesser(S, at(i))) = i - 1
        /\ Cardinality(Lesser(S, at(j))) = j - 1
    BY <1>3
  <2>2. at(j) < at(i) =>
          Cardinality(Lesser(S, at(j))) < Cardinality(Lesser(S, at(i)))
    BY <2>1, RankOrder
  <2>3. at(i) # at(j)
    BY <1>2, <1>4, <2>1
  <2>4. at(i) \in Int /\ at(j) \in Int
    BY <2>1
  <2>5. QED
    BY <1>2, <1>4, <2>1, <2>2, <2>3, <2>4
<1>5. Len(Ascending(S)) = Cardinality(S)
  BY <1>1, <1>2
<1>6. QED
  BY <1>1, <1>2, <1>3, <1>4, <1>5

\* A finite set of integers that is not empty has a greatest element.
LEMMA GreatestIs ==
  ASSUME NEW S \in SUBSET Int, IsFiniteSet(S), S # {}
  PROVE  Greatest(S) \in S /\ \A y \in S : Greatest(S) >= y
<1>1. Cardinality(S) \in Nat /\ Cardinality(S) # 0
  BY FS_CardinalityType, FS_EmptySet
<1>2. PICK x \in S : Cardinality(Lesser(S, x)) = Cardinality(S) - 1
  BY <1>1, RankOnto
<1>3. \A y \in S : x >= y
  <2> SUFFICES ASSUME NEW y \in S, x < y PROVE FALSE
    OBVIOUS
  <2>1. /\ Cardinality(Lesser(S, x)) < Cardinality(Lesser(S, y))
        /\ Cardinality(Lesser(S, y)) \in 0 .. Cardinality(S) - 1
    BY RankOrder
  <2>2. QED
    BY <1>1, <1>2, <2>1
<1>4. QED
  BY <1>3 DEF Greatest

\* ... and a least one.
LEMMA LeastIs ==
  ASSUME NEW S \in SUBSET Int, IsFiniteSet(S), S # {}
  PROVE  Least(S) \in S /\ \A y \in S : Least(S) <= y
<1>1. Cardinality(S) \in Nat /\ Cardinality(S) # 0
  BY FS_CardinalityType, FS_EmptySet
<1>2. PICK x \in S : Cardinality(Lesser(S, x)) = 0
  <2>1. 1 \in 1 .. Cardinality(S) /\ 1 - 1 = 0
    BY <1>1
  <2>2. QED
    BY <2>1, RankOnto
<1>3. IsFiniteSet(Lesser(S, x))
  BY FS_Subset DEF Lesser
<1>4. Lesser(S, x) = {}
  BY <1>2, <1>3, FS_EmptySet
<1>5. \A y \in S : x <= y
  BY <1>4 DEF Lesser
<1>6. QED
  BY <1>5 DEF Least

-----------------------------------------------------------------------------
\* Induction over the natural numbers: a set that holds 0, and with every n
\* its successor, holds them all.
LEMMA SetInduction ==
  ASSUME NEW S, 0 \in S, \A n \in Nat : n \in S => n + 1 \in S
  PROVE  Nat \subseteq S
<1> SUFFICES ASSUME NEW n \in Nat, n \notin S PROVE FALSE
  OBVIOUS
<1> DEFINE bad == {m \in 0 .. n : m \notin S}
<1>1. IsFiniteSet(0 .. n)
  BY FS_Interval
<1>2. bad \in SUBSET Int /\ IsFiniteSet(bad) /\ bad # {}
  BY <1>1, FS_Subset
<1>3. PICK m \in bad : \A k \in bad : m <= k
  BY <1>2, LeastIs
<1>4. m - 1 \in Nat /\ m - 1 \in S /\ (m - 1) + 1 = m
  BY <1>3
<1>5. QED
  BY <1>3, <1>4

-----------------------------------------------------------------------------
(* Sets that grow step by step.                                            *)

\* A set that starts as first and is given more, n times, within D.
Growth(n, D, first, more) ==
  /\ n \in Nat
  /\ first \in SUBSET D
  /\ more \in [SUBSET D -> SUBSET D]

Grown(f, n, D, first, more) ==
  /\ f \in [0 .. n -> SUBSET D]
  /\ \A k \in 0 .. n : f[k] = IF k = 0 THEN first
                             ELSE f[k - 1] \cup more[f[k - 1]]

\* The steps of its growth exist, whatever each of them adds.
LEMMA GrowthExists ==
  ASSUME NEW n, NEW D, NEW first, NEW more, Growth(n, D, first, more)
  PROVE  \E f : Grown(f, n, D, first, more)
<1> USE DEF Growth
<1> DEFINE Steps(f, m) == \A k \in 0 .. m : f[k] = IF k = 0 THEN first
                                                  ELSE f[k - 1] \cup more[f[k - 1]]
           Good == {m \in Nat : \E f \in [0 .. m -> SUBSET D] : Steps(f, m)}
<1>1. 0 \in Good
  <2>1. /\ [k \in 0 .. 0 |-> first] \in [0 .. 0 -> SUBSET D]
        /\ Steps([k \in 0 .. 0 |-> first], 0)
    OBVIOUS
  <2>2. QED
    BY <2>1
<1>2. ASSUME NEW m \in Nat, m \in Good PROVE m + 1 \in Good
  <2>1. PICK f \in [0 .. m -> SUBSET D] : Steps(f, m)
    BY <1>2
  <2> DEFINE g == [k \in 0 .. m + 1 |-> IF k = m + 1 THEN f[m] \cup more[f[m]] ELSE f[k]]
  <2>2. f[m] \cup more[f[m]] \in SUBSET D
    OBVIOUS
  <2>3. /\ g \in [0 .. m + 1 -> SUBSET D]
        /\ g[m + 1] = f[m] \cup more[f[m]] /\ \A k \in 0 .. m : g[k] = f[k]
    BY <2>2
  <2> HIDE DEF g
  <2>4. ASSUME NEW k \in 0 .. m + 1
        PROVE  g[k] = IF k = 0 THEN first ELSE g[k - 1] \cup more[g[k - 1]]
    <3>1. CASE k = m + 1
      <4>1. k # 0 /\ k - 1 = m /\ m \in 0 .. m
        BY <3>1
      <4>2. QED
        BY <2>3, <3>1, <4>1
    <3>2. CASE k # m + 1
      <4>1. k \in 0 .. m /\ (k # 0 => k - 1 \in 0 .. m)
        BY <3>2
      <4>2. QED
        BY <2>1, <2>3, <4>1
    <3>3. QED
      BY <3>1, <3>2
  <2>5. Steps(g, m + 1)
    BY <2>4
  <2> HIDE DEF Steps
  <2>6. \E h \in [0 .. m + 1 -> SUBSET D] : Steps(h, m + 1)
    BY <2>3, <2>5
  <2>7. QED
    BY <2>6
<1>3. n \in Good
  <2> HIDE DEF Good
  <2>1. QED
    BY <1>1, <1>2, SetInduction
<1>4. QED
  BY <1>3 DEF Grown

Grows(f, n, D, first, more) ==
  /\ f[0] = first
  /\ \A k \in Nat : k + 1 <= n /\ f[k] \in SUBSET D =>
                     f[k + 1] = f[k] \cup more[f[k]]

\* Nothing is there that it need not hold, after any number of steps.
LEMMA GrowthWithin ==
  ASSUME NEW n, NEW D, NEW first, NEW more, Growth(n, D, first, more),
         NEW f, Grows(f, n, D, first, more)
  PROVE  /\ f[n] \in SUBSET D
         /\ \A T : /\ first \subseteq T
                   /\ \A W \in SUBSET D : W \subseteq T => more[W] \subseteq T
                   => f[n] \subseteq T
<1> USE DEF Growth, Grows
<1>1. ASSUME NEW T, first \subseteq T,
             \A W \in SUBSET D : W \subseteq T => more[W] \subseteq T
      PROVE  f[n] \in SUBSET D /\ f[n] \subseteq T
  <2> DEFINE In == {k \in Nat : k <= n => f[k] \in SUBSET D /\ f[k] \subseteq T}
  <2>1. 0 \in In
    BY <1>1
  <2>2. ASSUME NEW k \in Nat, k \in In PROVE k + 1 \in In
    <3> SUFFICES ASSUME k + 1 <= n PROVE f[k + 1] \in SUBSET D /\ f[k + 1] \subseteq T
      OBVIOUS
    <3>1. f[k] \in SUBSET D /\ f[k] \subseteq T
      BY <2>2
    <3>2. f[k + 1] = f[k] \cup more[f[k]] /\ more[f[k]] \in SUBSET D /\ more[f[k]] \subseteq T
      BY <1>1, <3>1
    <3>3. QED
      BY <3>1, <3>2
  <2>3. n \in In
    <3> HIDE DEF In
    <3>1. QED
      BY <2>1, <2>2, SetInduction
  <2>4. QED
    BY <2>3
<1>2. f[n] \in SUBSET D
  BY <1>1
<1>3. QED
  BY <1>1, <1>2

\* After as many steps as there are elements nothing is left to add, and
\* nothing is there that it need not hold.
LEMMA GrowthEnds ==
  ASSUME NEW n, NEW D, NEW first, NEW more, Growth(n, D, first, more),
         IsFiniteSet(D), Cardinality(D) <= n, NEW f, Grows(f, n, D, first, more)
  PROVE  /\ first \subseteq f[n] /\ f[n] \subseteq D
         /\ more[f[n]] \subseteq f[n]
         /\ \A T : /\ first \subseteq T
                   /\ \A W \in SUBSET D : W \subseteq T => more[W] \subseteq T
                   => f[n] \subseteq T
<1>1. \A T : /\ first \subseteq T
             /\ \A W \in SUBSET D : W \subseteq T => more[W] \subseteq T
             => f[n] \subseteq T
  BY GrowthWithin
<1> USE DEF Growth, Grows
<1> DEFINE Closed(W) == more[W] \subseteq W
           Good == {k \in Nat : k <= n => /\ first \subseteq f[k] /\ f[k] \subseteq D
                                          /\ Closed(f[k]) \/ Cardinality(f[k]) >= k}
<1>2. /\ Cardinality(D) \in Nat
      /\ \A W \in SUBSET D : IsFiniteSet(W) /\ Cardinality(W) \in Nat
                              /\ Cardinality(W) <= Cardinality(D)
                              /\ (Cardinality(W) = Cardinality(D) => W = D)
                              /\ more[W] \in SUBSET D
  BY FS_Subset, FS_CardinalityType
<1>3. 0 \in Good
  BY <1>2
<1>4. ASSUME NEW k \in Nat, k \in Good PROVE k + 1 \in Good
  <2> SUFFICES ASSUME k + 1 <= n
               PROVE  /\ first \subseteq f[k + 1] /\ f[k + 1] \subseteq D
                      /\ Closed(f[k + 1]) \/ Cardinality(f[k + 1]) >= k + 1
    OBVIOUS
  <2>1. /\ first \subseteq f[k] /\ f[k] \subseteq D
        /\ Closed(f[k]) \/ Cardinality(f[k]) >= k
    BY <1>4
  <2>2. f[k + 1] = f[k] \cup more[f[k]]
    BY <2>1
  <2>3. first \subseteq f[k + 1] /\ f[k + 1] \subseteq D
    BY <1>2, <2>1, <2>2
  <2>4. CASE Closed(f[k])
    <3>1. f[k + 1] = f[k]
      BY <2>2, <2>4
    <3>2. QED
      BY <2>3, <2>4, <3>1
  <2>5. CASE ~Closed(f[k])
    <3>1. f[k] \subseteq f[k + 1] /\ f[k] # f[k + 1]
      BY <2>2, <2>5
    <3>2. /\ IsFiniteSet(f[k + 1]) /\ Cardinality(f[k + 1]) \in Nat
          /\ Cardinality(f[k]) \in Nat
      BY <1>2, <2>1, <2>3
    <3>3. Cardinality(f[k]) < Cardinality(f[k + 1])
      BY <3>1, <3>2, FS_Subset
    <3>4. QED
      BY <2>1, <2>3, <2>5, <3>2, <3>3
  <2>6. QED
    BY <2>4, <2>5
<1>5. n \in Good
  <2> HIDE DEF Good
  <2>1. QED
    BY <1>3, <1>4, SetInduction
<1>6. Closed(f[n])
  <2> SUFFICES ASSUME Cardinality(f[n]) >= n PROVE Closed(f[n])
    BY <1>5
  <2>1. f[n] \in SUBSET D
    BY <1>5
  <2>2. f[n] = D
    BY <1>2, <2>1
  <2>3. QED
    BY <1>2, <2>1, <2>2
<1>7. QED
  BY <1>1, <1>5, <1>6

-----------------------------------------------------------------------------
(* Division.                                                               *)

\* A number lies between two successive multiples of n.
LEMMA Division ==
  ASSUME NEW a \in Nat, NEW n \in Nat \ {0}
  PROVE  /\ a \div n \in Nat
         /\ n * (a \div n) <= a
         /\ a < n * (a \div n) + n
OBVIOUS

\* The quotient of a multiple of n and less than n more.
LEMMA QuotientIs ==
  ASSUME NEW n \in Nat \ {0}, NEW q \in Nat, NEW k \in 0 .. n - 1
  PROVE  (q * n + k) \div n = q
<1> DEFINE a == q * n + k
<1>1. a \in Nat
  OBVIOUS
<1> DEFINE d == a \div n
<1>2. d \in Nat /\ n * d <= a /\ a < n * d + n
  BY <1>1, Division
<1>3. a = q * n + k
  OBVIOUS
<1> HIDE DEF a, d
<1>4. d < q + 1
  <2> SUFFICES ASSUME d >= q + 1 PROVE FALSE
    BY <1>2
  <2>1. n * d >= n * (q + 1)
    BY <1>2
  <2>2. n * (q + 1) = q * n + n
    OBVIOUS
  <2>3. QED
    BY <1>2, <1>3, <2>1, <2>2
<1>5. q < d + 1
  <2> SUFFICES ASSUME q >= d + 1 PROVE FALSE
    BY <1>2
  <2>1. n * q >= n * (d + 1)
    BY <1>2
  <2>2. n * (d + 1) = n * d + n /\ n * q = q * n
    BY <1>2
  <2>3. QED
    BY <1>2, <1>3, <2>1, <2>2
<1>6. QED
  BY <1>2, <1>4, <1>5 DEF d, a

\* Below q * n there are q quotients by n.
LEMMA QuotientBelow ==
  ASSUME NEW n \in Nat \ {0}, NEW q \in Nat, NEW a \in 0 .. q * n - 1
  PROVE  a \div n \in 0 .. q - 1
<1> DEFINE d == a \div n
<1>1. d \in Nat /\ n * d <= a
  BY Division
<1> HIDE DEF d
<1>2. d < q
  <2> SUFFICES ASSUME d >= q PROVE FALSE
    BY <1>1
  <2>1. n * d >= q * n
    BY <1>1
  <2>2. QED
    BY <1>1, <2>1
<1>3. QED
  BY <1>1, <1>2 DEF d
=============================================================================
