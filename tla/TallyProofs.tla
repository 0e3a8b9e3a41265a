---------------------------- MODULE TallyProofs -----------------------------
(***************************************************************************)
(* Lemmas about the sums of Tally, the least element of a set of naturals  *)
(* and remainders, for the proofs about queues, heaps and counters.        *)
(***************************************************************************)
EXTENDS Tally, FiniteSetTheorems, FunctionTheorems, WellFoundedInduction, TLAPS

(* What is a unit. *)
LEMMA UnitsOf ==
  \A S : \A f \in [S -> Nat] : \A x :
    x \in Units(f) <=> \E i \in S : \E k \in 1 .. f[i] : x = <<i, k>>
<1> SUFFICES ASSUME NEW S, NEW f \in [S -> Nat], NEW x
             PROVE  x \in Units(f) <=> \E i \in S : \E k \in 1 .. f[i] : x = <<i, k>>
  OBVIOUS
<1>1. DOMAIN f = S
  OBVIOUS
<1>2. ASSUME NEW i \in S PROVE x \in {i} \X (1 .. f[i]) <=> \E k \in 1 .. f[i] : x = <<i, k>>
  OBVIOUS
<1>3. QED
  BY <1>1, <1>2 DEF Units

(* There are finitely many units if there are finitely many arguments. *)
LEMMA UnitsFinite ==
  ASSUME NEW S, IsFiniteSet(S), NEW f \in [S -> Nat]
  PROVE  IsFiniteSet(Units(f)) /\ Total(f) \in Nat
<1> DEFINE Q == {{i} \X (1 .. f[i]) : i \in S}
           g == [i \in S |-> {i} \X (1 .. f[i])]
<1>1. g \in Surjection(S, Q)
  BY DEF Surjection
<1>2. IsFiniteSet(Q)
  <2> HIDE DEF Q, g
  <2>1. QED
    BY <1>1, FS_Surjection
<1>3. ASSUME NEW i \in S PROVE IsFiniteSet({i} \X (1 .. f[i]))
  <2>1. 1 \in Int /\ f[i] \in Int
    OBVIOUS
  <2>2. IsFiniteSet(1 .. f[i]) /\ IsFiniteSet({i})
    BY <2>1, FS_Interval, FS_Singleton
  <2>3. QED
    BY <2>2, FS_Product
<1>4. \A T \in Q : IsFiniteSet(T)
  BY <1>3
<1>5. Units(f) = UNION Q
  BY DEF Units
<1>6. IsFiniteSet(Units(f))
  <2> HIDE DEF Q
  <2>1. QED
    BY <1>2, <1>4, <1>5, FS_UNION
<1>7. QED
  BY <1>6, FS_CardinalityType DEF Total

(* A value that grows by n adds n units. *)
LEMMA TotalPlus ==
  ASSUME NEW S, IsFiniteSet(S), NEW f \in [S -> Nat], NEW g \in [S -> Nat],
         NEW q \in S, NEW n \in Nat, g[q] = f[q] + n,
         \A i \in S : i # q => g[i] = f[i]
  PROVE  Total(g) = Total(f) + n
<1>1. PICK m \in Nat : m = f[q]
  OBVIOUS
<1> DEFINE I == (m + 1) .. (m + n)
           P == {q} \X I
<1>2. Units(g) = Units(f) \cup P
  <2>1. ASSUME NEW x, x \in Units(g) PROVE x \in Units(f) \cup P
    <3>0. PICK h : h = g
      OBVIOUS
    <3>1. PICK i \in S : \E k \in 1 .. h[i] : x = <<i, k>>
      <4>1. h \in [S -> Nat] /\ x \in Units(h)
        BY <2>1, <3>0
      <4>2. QED
        BY <4>1, UnitsOf
    <3>2. PICK k \in 1 .. g[i] : x = <<i, k>>
      BY <3>0, <3>1
    <3>3. k \in 1 .. f[i] \/ (i = q /\ k \in I)
      BY <1>1, <3>2
    <3>4. CASE k \in 1 .. f[i]
      BY <3>2, <3>4, UnitsOf
    <3>5. CASE i = q /\ k \in I
      BY <3>2, <3>5
    <3>6. QED
      BY <3>3, <3>4, <3>5
  <2>2. ASSUME NEW x \in Units(f) PROVE x \in Units(g)
    <3>1. PICK i \in S : \E k \in 1 .. f[i] : x = <<i, k>>
      BY UnitsOf
    <3>2. PICK k \in 1 .. f[i] : x = <<i, k>>
      BY <3>1
    <3>3. k \in 1 .. g[i]
      BY <1>1, <3>2
    <3>4. QED
      BY <3>2, <3>3, UnitsOf
  <2>3. ASSUME NEW x \in P PROVE x \in Units(g)
    <3>1. PICK k \in I : x = <<q, k>>
      BY <2>3
    <3>2. k \in 1 .. g[q]
      BY <1>1, <3>1
    <3>3. QED
      BY <3>1, <3>2, UnitsOf
  <2>4. QED
    BY <2>1, <2>2, <2>3
<1>3. Units(f) \cap P = {}
  <2>1. SUFFICES ASSUME NEW x \in Units(f), x \in P PROVE FALSE
    OBVIOUS
  <2>2. PICK j \in I : x = <<q, j>>
    BY <2>1
  <2>3. PICK i \in S : \E k \in 1 .. f[i] : x = <<i, k>>
    BY UnitsOf
  <2>4. PICK k \in 1 .. f[i] : x = <<i, k>>
    BY <2>3
  <2>5. i = q /\ j = k
    BY <2>2, <2>4
  <2>6. QED
    BY <1>1, <2>2, <2>4, <2>5
<1>4. IsFiniteSet(I) /\ Cardinality(I) = n
  <2>1. m + 1 \in Int /\ m + n \in Int
    BY <1>1
  <2>2. IsFiniteSet(I) /\ Cardinality(I) = IF m + 1 > m + n THEN 0 ELSE (m + n) - (m + 1) + 1
    BY <2>1, FS_Interval
  <2>3. QED
    BY <1>1, <2>2
<1>5. IsFiniteSet(P) /\ Cardinality(P) = n
  <2> DEFINE h == [k \in I |-> <<q, k>>]
  <2>0. /\ h \in [I -> P]
        /\ \A j, k \in I : h[j] = h[k] => j = k
        /\ \A x \in P : \E k \in I : h[k] = x
    <3> HIDE DEF I
    <3>1. QED
      OBVIOUS
  <2>1. h \in Bijection(I, P)
    <3> HIDE DEF h, I, P
    <3>1. QED
      BY <2>0, Fun_IsBij
  <2> HIDE DEF h, P, I
  <2>2. ExistsBijection(I, P)
    BY <2>1 DEF ExistsBijection
  <2>3. QED
    BY <1>4, <2>2, FS_Bijection
<1>6. IsFiniteSet(Units(f))
  BY UnitsFinite
<1>7. QED
  <2> HIDE DEF P
  <2>1. Cardinality(Units(f) \cup P)
          = Cardinality(Units(f)) + Cardinality(P) - Cardinality(Units(f) \cap P)
    BY <1>5, <1>6, FS_Union
  <2>2. Cardinality(Units(f) \cap P) = 0
    BY <1>3, FS_EmptySet
  <2>3. Cardinality(Units(f)) \in Nat
    BY <1>6, FS_CardinalityType
  <2>4. QED
    BY <1>2, <1>5, <2>1, <2>2, <2>3 DEF Total

(* One more, one less. *)
LEMMA TotalMore ==
  ASSUME NEW S, IsFiniteSet(S), NEW f \in [S -> Nat], NEW q \in S
  PROVE  Total([f EXCEPT ![q] = f[q] + 1]) = Total(f) + 1
<1> DEFINE g == [f EXCEPT ![q] = f[q] + 1]
<1>1. g \in [S -> Nat] /\ g[q] = f[q] + 1 /\ \A i \in S : i # q => g[i] = f[i]
  OBVIOUS
<1> HIDE DEF g
<1>2. Total(g) = Total(f) + 1
  BY <1>1, TotalPlus
<1>3. QED
  BY <1>2 DEF g

LEMMA TotalLess ==
  ASSUME NEW S, IsFiniteSet(S), NEW f \in [S -> Nat], NEW q \in S, f[q] > 0
  PROVE  Total([f EXCEPT ![q] = f[q] - 1]) = Total(f) - 1
<1> DEFINE g == [f EXCEPT ![q] = f[q] - 1]
<1>1. g \in [S -> Nat] /\ f[q] = g[q] + 1 /\ \A i \in S : i # q => f[i] = g[i]
  OBVIOUS
<1> HIDE DEF g
<1>2. Total(f) = Total(g) + 1
  BY <1>1, TotalPlus
<1>3. Total(g) \in Nat
  BY <1>1, UnitsFinite
<1>4. QED
  BY <1>2, <1>3 DEF g

(* The sum is zero if and only if all values are. *)
LEMMA TotalZero ==
  ASSUME NEW S, IsFiniteSet(S), NEW f \in [S -> Nat]
  PROVE  Total(f) = 0 <=> \A i \in S : f[i] = 0
<1>1. ASSUME \A i \in S : f[i] = 0 PROVE Total(f) = 0
  <2>1. \A i \in S : 1 .. f[i] = {}
    BY <1>1
  <2>2. Units(f) = {}
    BY <2>1, UnitsOf
  <2>3. QED
    BY <2>2, FS_EmptySet DEF Total
<1>2. ASSUME NEW i \in S, f[i] # 0, Total(f) = 0 PROVE FALSE
  <2>1. 1 \in 1 .. f[i]
    BY <1>2
  <2>2. <<i, 1>> \in Units(f)
    BY <2>1, UnitsOf
  <2>3. Units(f) = {}
    BY <1>2, UnitsFinite, FS_EmptySet DEF Total
  <2>4. QED
    BY <2>2, <2>3
<1>3. QED
  BY <1>1, <1>2

(* A nonempty set of naturals has a least element. *)
LEMMA LeastNatural ==
  ASSUME NEW T, T \subseteq Nat, T # {}
  PROVE  \E x \in T : \A y \in T : x <= y
<1>1. PICK x \in T : \A y \in T : ~(<<y, x>> \in OpToRel(<, Nat))
  BY WFMin, NatLessThanWellFounded, Zenon
<1>2. \A y \in T : ~(y < x)
  BY <1>1, Zenon DEF OpToRel
<1>3. \A y \in T : x <= y
  BY <1>2
<1>4. QED
  BY <1>3
-----------------------------------------------------------------------------
(* Quotient and remainder, and that they are unique. *)
LEMMA Remainder ==
  ASSUME NEW a \in Int, NEW n \in Nat, n > 0
  PROVE  /\ a % n \in 0 .. (n - 1) /\ a \div n \in Int
         /\ a = n * (a \div n) + (a % n)
  BY SMT

LEMMA SameRemainder ==
  ASSUME NEW a \in Nat, NEW b \in Nat, NEW n \in Nat, n > 0, a % n = b % n, a < b
  PROVE  a + n <= b
<1> DEFINE p == a \div n
           q == b \div n
<1>1. /\ a = n * p + (a % n) /\ b = n * q + (b % n) /\ p \in Int /\ q \in Int
      /\ a % n \in Int
  BY Remainder
<1> HIDE DEF p, q
<1>2. b - a = n * (q - p)
  BY <1>1
<1>3. q - p >= 1
  <2>1. SUFFICES ASSUME q - p <= 0 PROVE FALSE
    BY <1>1
  <2>2. n * (q - p) <= 0
    BY <1>1, <2>1
  <2>3. QED
    BY <1>2, <2>2
<1>4. n * (q - p) >= n
  BY <1>1, <1>3
<1>5. QED
  BY <1>2, <1>4

LEMMA UniqueRemainder ==
  ASSUME NEW n \in Nat, NEW k \in Int, NEW l \in Int, NEW r \in 0 .. (n - 1), NEW x \in 0 .. (n - 1),
         n * k + r = n * l + x
  PROVE  k = l /\ r = x
<1>1. n * (k - l) = x - r
  OBVIOUS
<1>2. k - l >= 1 => n * (k - l) >= n
  OBVIOUS
<1>3. k - l <= -1 => n * (k - l) <= -n
  OBVIOUS
<1>4. k = l
  BY <1>1, <1>2, <1>3
<1>5. QED
  BY <1>4

LEMMA IsRemainder ==
  ASSUME NEW a \in Int, NEW n \in Nat, NEW k \in Int, NEW r \in 0 .. (n - 1), n > 0, a = n * k + r
  PROVE  a % n = r
  BY Remainder, UniqueRemainder

LEMMA IsQuotient ==
  ASSUME NEW a \in Int, NEW n \in Nat, NEW k \in Int, NEW r \in 0 .. (n - 1), n > 0, a = n * k + r
  PROVE  a \div n = k
  BY Remainder, UniqueRemainder
-----------------------------------------------------------------------------
(* Ascending lists the members of a finite set of numbers, each once. *)
LEMMA RankRises ==
  ASSUME NEW S \in SUBSET Nat, IsFiniteSet(S), NEW x \in S, NEW y \in S, x < y
  PROVE  Rank(S, x) < Rank(S, y)
<1>1. PICK A : A = {z \in S : z <= x}
  OBVIOUS
<1>2. PICK B : B = {z \in S : z <= y}
  OBVIOUS
<1>3. A \subseteq B /\ y \in B /\ y \notin A /\ B \subseteq S
  <2>1. x \in Nat /\ y \in Nat /\ \A z \in S : z \in Nat /\ (z <= x => z <= y)
    OBVIOUS
  <2>2. y <= y /\ ~(y <= x)
    BY <2>1
  <2>3. QED
    BY <1>1, <1>2, <2>1, <2>2
<1>4. IsFiniteSet(B)
  BY <1>3, FS_Subset
<1>5. IsFiniteSet(A) /\ Cardinality(A) <= Cardinality(B) /\ Cardinality(A) # Cardinality(B)
  BY <1>3, <1>4, FS_Subset
<1>6. Cardinality(A) \in Nat /\ Cardinality(B) \in Nat
  BY <1>4, <1>5, FS_CardinalityType
<1>7. QED
  BY <1>1, <1>2, <1>5, <1>6 DEF Rank

LEMMA RankType ==
  ASSUME NEW S \in SUBSET Nat, IsFiniteSet(S), NEW x \in S
  PROVE  Rank(S, x) \in 1 .. Cardinality(S)
<1>1. PICK A : A = {z \in S : z <= x}
  OBVIOUS
<1>2. A \subseteq S /\ x \in A
  BY <1>1
<1>3. IsFiniteSet(A) /\ Cardinality(A) <= Cardinality(S)
  BY <1>2, FS_Subset
<1>4. Cardinality(A) # 0
  BY <1>2, <1>3, FS_EmptySet
<1>5. Cardinality(A) \in Nat /\ Cardinality(S) \in Nat
  BY <1>3, FS_CardinalityType
<1>6. QED
  BY <1>1, <1>3, <1>4, <1>5 DEF Rank

LEMMA AscendingLists ==
  ASSUME NEW S \in SUBSET Nat, IsFiniteSet(S)
  PROVE  /\ Cardinality(S) \in Nat /\ Ascending(S) \in [1 .. Cardinality(S) -> S]
         /\ \A x \in S : \E i \in 1 .. Cardinality(S) : Ascending(S)[i] = x
         /\ \A i, j \in 1 .. Cardinality(S) : Ascending(S)[i] = Ascending(S)[j] => i = j
<1>1. PICK n \in Nat : n = Cardinality(S)
  BY FS_CardinalityType
<1>2. PICK r : r = [x \in S |-> Rank(S, x)]
  OBVIOUS
<1>3. r \in [S -> 1 .. n]
  BY <1>1, <1>2, RankType
<1>4. ASSUME NEW x \in S, NEW y \in S, r[x] = r[y] PROVE x = y
  <2>1. ~(x < y)
    <3> SUFFICES ASSUME x < y PROVE FALSE
      OBVIOUS
    <3>1. Rank(S, x) < Rank(S, y)
      BY RankRises
    <3>2. QED
      BY <1>2, <1>3, <1>4, <3>1
  <2>2. ~(y < x)
    <3> SUFFICES ASSUME y < x PROVE FALSE
      OBVIOUS
    <3>1. Rank(S, y) < Rank(S, x)
      BY RankRises
    <3>2. QED
      BY <1>2, <1>3, <1>4, <3>1
  <2>3. x \in Nat /\ y \in Nat
    OBVIOUS
  <2>4. QED
    BY <2>1, <2>2, <2>3
<1>5. r \in Injection(S, 1 .. n)
  BY <1>3, <1>4, Fun_IsInj
<1>6. IsFiniteSet(1 .. n) /\ Cardinality(1 .. n) = n
  <2>1. IsFiniteSet(1 .. n) /\ Cardinality(1 .. n) = IF 1 > n THEN 0 ELSE n - 1 + 1
    BY FS_Interval
  <2>2. QED
    BY <2>1
<1>7. r \in Surjection(S, 1 .. n)
  <2>1. Cardinality(S) = Cardinality(1 .. n)
    BY <1>1, <1>6
  <2>2. QED
    BY <1>5, <1>6, <2>1, FS_Injection
<1>8. \A i \in 1 .. n : \E x \in S : Rank(S, x) = i
  <2>1. \A i \in 1 .. n : \E x \in S : r[x] = i
    BY <1>7 DEF Surjection
  <2>2. QED
    BY <1>2, <2>1
<1>9. \A i \in 1 .. n : Ascending(S)[i] \in S /\ Rank(S, Ascending(S)[i]) = i
  <2> SUFFICES ASSUME NEW i \in 1 .. n PROVE Ascending(S)[i] \in S /\ Rank(S, Ascending(S)[i]) = i
    OBVIOUS
  <2>1. Ascending(S)[i] = CHOOSE x \in S : Rank(S, x) = i
    BY <1>1 DEF Ascending
  <2>2. \E x \in S : Rank(S, x) = i
    BY <1>8
  <2>3. QED
    BY <2>1, <2>2
<1>10. Ascending(S) \in [1 .. n -> S]
  BY <1>1, <1>9 DEF Ascending
<1>11. \A x \in S : \E i \in 1 .. n : Ascending(S)[i] = x
  <2> SUFFICES ASSUME NEW x \in S PROVE \E i \in 1 .. n : Ascending(S)[i] = x
    OBVIOUS
  <2>1. PICK i \in 1 .. n : i = r[x]
    BY <1>3
  <2>2. PICK y \in S : y = Ascending(S)[i] /\ Rank(S, y) = i
    BY <1>9
  <2>3. r[y] = r[x]
    BY <1>2, <2>1, <2>2
  <2>4. QED
    BY <1>4, <2>2, <2>3
<1>12. \A i, j \in 1 .. n : Ascending(S)[i] = Ascending(S)[j] => i = j
  BY <1>9
<1>13. QED
  BY <1>1, <1>10, <1>11, <1>12
=============================================================================
