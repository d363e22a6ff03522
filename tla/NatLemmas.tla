------------------------------ MODULE NatLemmas ------------------------------
(***************************************************************************)
(* Facts about the natural numbers that the proofs of several components   *)
(* use: induction over a set, the existence of recursive functions, bounds *)
(* of families of numbers.  Induction is stated for sets of numbers; a     *)
(* proof by induction names the set of the numbers for which it holds.     *)
(***************************************************************************)
EXTENDS Integers, FiniteSetTheorems, WellFoundedInduction, TLAPS

LEMMA NatInduct ==
    ASSUME NEW S, 0 \in S, \A n \in Nat : n \in S => n + 1 \in S
    PROVE  Nat \subseteq S
<1> SUFFICES ASSUME Nat \ S # {}  PROVE FALSE
  OBVIOUS
<1>1. PICK m \in Nat \ S : \A k \in Nat \ S : ~(<<k, m>> \in OpToRel(<, Nat))
  BY NatLessThanWellFounded, WFMin
<1>2. m # 0 /\ m - 1 \in Nat /\ m - 1 < m
  OBVIOUS
<1>3. <<m - 1, m>> \in OpToRel(<, Nat)
  BY <1>2 DEF OpToRel
<1>4. m - 1 \in S
  BY <1>1, <1>2, <1>3
<1> QED BY <1>2, <1>4

-----------------------------------------------------------------------------
(* A function may be defined by its value at 0 and by a step from n - 1 to *)
(* n: there is a function that satisfies these two equations.              *)
Recurses(f, a, G) == f[0] = a /\ \A n \in Nat \ {0} : f[n] = G[<<n, f[n - 1]>>]

LEMMA NatRecursion ==
    ASSUME NEW V, NEW a \in V, NEW G \in [Nat \X V -> V]
    PROVE  \E f \in [Nat -> V] : Recurses(f, a, G)
<1> DEFINE Upto(n, h) == h[0] = a /\ \A i \in 1..n : h[i] = G[<<i, h[i - 1]>>]
           Some == {n \in Nat : \E h \in [0..n -> V] : Upto(n, h)}
           Only(n, m) == \A h \in [0..n -> V], k \in [0..m -> V] :
                            Upto(n, h) /\ Upto(m, k) => h[n] = k[n]
           Same == {n \in Nat : \A m \in Nat : n <= m => Only(n, m)}
<1>1. 0 \in Some
  <2>1. [i \in 0..0 |-> a] \in [0..0 -> V] /\ Upto(0, [i \in 0..0 |-> a])
    OBVIOUS
  <2> QED BY <2>1
<1>2. ASSUME NEW n \in Nat, n \in Some  PROVE n + 1 \in Some
  <2>1. PICK h \in [0..n -> V] : Upto(n, h)
    BY <1>2
  <2> DEFINE k == [i \in 0..(n + 1) |-> IF i = n + 1 THEN G[<<n + 1, h[n]>>] ELSE h[i]]
  <2>2. h[n] \in V /\ G[<<n + 1, h[n]>>] \in V
    OBVIOUS
  <2>3. k \in [0..(n + 1) -> V]
    BY <2>2
  <2>4. k[0] = a
    BY <2>1
  <2>5. ASSUME NEW i \in 1..(n + 1)  PROVE k[i] = G[<<i, k[i - 1]>>]
    <3>1. CASE i = n + 1
      <4>1. k[i - 1] = h[n] /\ k[i] = G[<<n + 1, h[n]>>]
        BY <3>1
      <4> QED BY <4>1, <3>1
    <3>2. CASE i # n + 1
      <4>1. i \in 1..n /\ k[i] = h[i] /\ k[i - 1] = h[i - 1]
        BY <3>2
      <4> QED BY <4>1, <2>1
    <3> QED BY <3>1, <3>2
  <2>6. Upto(n + 1, k)
    BY <2>4, <2>5
  <2> HIDE DEF k, Upto
  <2> QED BY <2>3, <2>6
<1>3. Nat \subseteq Some
  <2> HIDE DEF Some
  <2> QED BY <1>1, <1>2, NatInduct
<1>4. 0 \in Same
  OBVIOUS
<1>5. ASSUME NEW n \in Nat, n \in Same  PROVE n + 1 \in Same
  <2>a. SUFFICES ASSUME NEW m \in Nat, n + 1 <= m  PROVE Only(n + 1, m)
    <3> HIDE DEF Only
    <3> QED BY <2>a
  <2> SUFFICES ASSUME NEW h \in [0..(n + 1) -> V], NEW k \in [0..m -> V],
                      Upto(n + 1, h), Upto(m, k)
               PROVE  h[n + 1] = k[n + 1]
    OBVIOUS
  <2> DEFINE g == [i \in 0..n |-> h[i]]
  <2>1. g \in [0..n -> V] /\ g[n] = h[n]
    OBVIOUS
  <2>2. Upto(n, g)
    <3>1. g[0] = a
      OBVIOUS
    <3>2. ASSUME NEW i \in 1..n  PROVE g[i] = G[<<i, g[i - 1]>>]
      <4>1. g[i] = h[i] /\ g[i - 1] = h[i - 1] /\ i \in 1..(n + 1)
        OBVIOUS
      <4> QED BY <4>1
    <3> QED BY <3>1, <3>2
  <2>3. n <= m /\ n + 1 \in 1..(n + 1) /\ n + 1 \in 1..m /\ (n + 1) - 1 = n
    BY <2>a
  <2>4. g[n] = k[n]
    BY <1>5, <2>1, <2>2, <2>3
  <2>5. h[n + 1] = G[<<n + 1, h[n]>>] /\ k[n + 1] = G[<<n + 1, k[n]>>]
    BY <2>3
  <2> QED BY <2>1, <2>4, <2>5
<1>6. Nat \subseteq Same
  <2> HIDE DEF Same
  <2> QED BY <1>4, <1>5, NatInduct
<1> DEFINE H(n) == CHOOSE h \in [0..n -> V] : Upto(n, h)
           f == [n \in Nat |-> H(n)[n]]
<1>7. ASSUME NEW n \in Nat  PROVE H(n) \in [0..n -> V] /\ Upto(n, H(n))
  <2>1. \E h \in [0..n -> V] : Upto(n, h)
    BY <1>3
  <2> HIDE DEF Upto
  <2> QED BY <2>1
<1>8. f \in [Nat -> V]
  <2>1. ASSUME NEW n \in Nat  PROVE H(n)[n] \in V
    <3> HIDE DEF H, Upto
    <3> QED BY <1>7
  <2> QED BY <2>1
<1>9. ASSUME NEW n \in Nat  PROVE f[n] = IF n = 0 THEN a ELSE G[<<n, f[n - 1]>>]
  <2>0. f[n] = H(n)[n]
    OBVIOUS
  <2>1. CASE n = 0
    <3>1. H(n)[0] = a
      BY <1>7
    <3> QED BY <3>1, <2>0, <2>1
  <2>2. CASE n # 0
    <3>1. n - 1 \in Nat /\ n \in 1..n
      BY <2>2
    <3>2. H(n)[n] = G[<<n, H(n)[n - 1]>>]
      <4> HIDE DEF H
      <4> QED BY <1>7, <3>1
    <3> DEFINE g == [i \in 0..(n - 1) |-> H(n)[i]]
    <3>3. g \in [0..(n - 1) -> V] /\ Upto(n - 1, g)
      <4> HIDE DEF H
      <4>1. H(n) \in [0..n -> V] /\ Upto(n, H(n))
        BY <1>7
      <4>2. g \in [0..(n - 1) -> V] /\ g[0] = a
        BY <4>1, <3>1
      <4>3. ASSUME NEW i \in 1..(n - 1)  PROVE g[i] = G[<<i, g[i - 1]>>]
        <5>1. g[i] = H(n)[i] /\ g[i - 1] = H(n)[i - 1] /\ i \in 1..n
          BY <3>1
        <5> QED BY <5>1, <4>1
      <4> QED BY <4>2, <4>3
    <3>4. H(n - 1)[n - 1] = g[n - 1]
      <4>1. Only(n - 1, n - 1)
        <5>1. n - 1 \in Same /\ n - 1 <= n - 1
          <6> HIDE DEF Same
          <6> QED BY <3>1, <1>6
        <5> HIDE DEF Only
        <5> QED BY <5>1, <3>1
      <4>2. H(n - 1) \in [0..(n - 1) -> V] /\ Upto(n - 1, H(n - 1))
        BY <3>1, <1>7
      <4> HIDE DEF H, g, Upto
      <4> QED BY <4>1, <4>2, <3>3
    <3>5. f[n - 1] = H(n)[n - 1]
      <4>1. f[n - 1] = H(n - 1)[n - 1]
        BY <3>1
      <4>2. g[n - 1] = H(n)[n - 1]
        BY <3>1
      <4> QED BY <4>1, <4>2, <3>4
    <3> HIDE DEF H, f
    <3> QED BY <2>0, <2>2, <3>2, <3>5
  <2> QED BY <2>1, <2>2
<1>10. Recurses(f, a, G)
  <2> HIDE DEF f
  <2> QED BY <1>9 DEF Recurses
<1> HIDE DEF f
<1> QED BY <1>8, <1>10

(* The value at n may come from the value at any smaller number B[n].      *)
PointsBack(N, B) == B \in [1..N -> Nat] /\ \A n \in 1..N : B[n] < n
Tabulates(f, a, G, N, B) == f[0] = a /\ \A n \in 1..N : f[n] = G[<<n, f[B[n]]>>]

(* There is a function with these values, up to any bound.                 *)
LEMMA BelowRecursion ==
    ASSUME NEW N \in Nat, NEW V, NEW a \in V, NEW G \in [(1..N) \X V -> V], NEW B, PointsBack(N, B)
    PROVE  \E f \in [0..N -> V] : Tabulates(f, a, G, N, B)
<1> DEFINE H == [0..N -> V]
           h0 == [i \in 0..N |-> a]
           Put(n, h) == [i \in 0..N |-> IF i = n /\ i \in 1..N THEN G[<<i, h[B[i]]>>] ELSE h[i]]
           K == [x \in Nat \X H |-> Put(x[1], x[2])]
<1>1. \A n \in 1..N : B[n] \in 0..N /\ B[n] <= n - 1
  BY DEF PointsBack
<1>2. ASSUME NEW n \in Nat, NEW h \in H  PROVE Put(n, h) \in H
  <2>1. ASSUME NEW i \in 0..N  PROVE (IF i = n /\ i \in 1..N THEN G[<<i, h[B[i]]>>] ELSE h[i]) \in V
    <3>1. CASE i = n /\ i \in 1..N
      <4>1. h[B[i]] \in V
        BY <3>1, <1>1
      <4> QED BY <3>1, <4>1
    <3>2. CASE ~(i = n /\ i \in 1..N)
      BY <3>2
    <3> QED BY <3>1, <3>2
  <2> QED BY <2>1
<1>3. K \in [Nat \X H -> H] /\ h0 \in H
  <2>1. \A x \in Nat \X H : Put(x[1], x[2]) \in H
    <3> HIDE DEF Put, H
    <3> QED BY <1>2
  <2>2. h0 \in H
    OBVIOUS
  <2> HIDE DEF Put, H
  <2> QED BY <2>1, <2>2
<1>4. PICK F \in [Nat -> H] : Recurses(F, h0, K)
  <2> HIDE DEF K, H, h0
  <2> QED BY <1>3, NatRecursion
<1>5. ASSUME NEW n \in Nat \ {0}  PROVE F[n] = Put(n, F[n - 1])
  <2>1. n - 1 \in Nat /\ n \in Nat
    OBVIOUS
  <2>2. F[n] = K[<<n, F[n - 1]>>]
    <3> HIDE DEF K, H, h0
    <3> QED BY <1>4 DEF Recurses
  <2>3. F[n - 1] \in H
    <3> HIDE DEF H
    <3> QED BY <2>1
  <2> HIDE DEF H, Put
  <2> QED BY <2>1, <2>2, <2>3
<1>6. F[0] = h0
  <2> HIDE DEF K, H, h0
  <2> QED BY <1>4 DEF Recurses
<1> DEFINE Kept == {m \in Nat : \A i \in 0..N : i <= m => F[m][i] = F[i][i]}
<1>7. 0 \in Kept
  <2>1. \A i \in 0..N : i <= 0 => i = 0
    OBVIOUS
  <2> QED BY <2>1
<1>8. ASSUME NEW m \in Nat, m \in Kept  PROVE m + 1 \in Kept
  <2> SUFFICES ASSUME NEW i \in 0..N, i <= m + 1  PROVE F[m + 1][i] = F[i][i]
    OBVIOUS
  <2>1. CASE i = m + 1
    BY <2>1
  <2>2. CASE i # m + 1
    <3>1. i <= m /\ m + 1 \in Nat \ {0} /\ (m + 1) - 1 = m
      BY <2>2
    <3>2. F[m + 1] = Put(m + 1, F[m])
      <4> HIDE DEF Put, H
      <4> QED BY <1>5, <3>1
    <3>3. F[m + 1][i] = F[m][i]
      <4> HIDE DEF H
      <4> QED BY <3>2, <2>2
    <3> QED BY <3>1, <3>3, <1>8
  <2> QED BY <2>1, <2>2
<1>9. Nat \subseteq Kept
  <2> HIDE DEF Kept
  <2> QED BY <1>7, <1>8, NatInduct
<1> DEFINE f == F[N]
<1>10. \A m \in Nat, i \in 0..N : i <= m => F[m][i] = F[i][i]
  BY <1>9
<1>11. f \in [0..N -> V]
  OBVIOUS
<1>12. f[0] = a
  <2>1. f[0] = F[0][0]
    BY <1>10
  <2> QED BY <2>1, <1>6
<1>13. ASSUME NEW n \in 1..N  PROVE f[n] = G[<<n, f[B[n]]>>]
  <2>1. /\ n \in Nat \ {0} /\ n \in 0..N /\ n <= N /\ n - 1 \in Nat
        /\ B[n] \in 0..N /\ B[n] <= n - 1 /\ B[n] <= N
    BY <1>1
  <2> HIDE DEF H
  <2>2. f[n] = F[n][n] /\ F[n - 1][B[n]] = f[B[n]]
    BY <1>10, <2>1
  <2>3. F[n][n] = G[<<n, F[n - 1][B[n]]>>]
    BY <1>5, <2>1
  <2> QED BY <2>2, <2>3
<1> HIDE DEF f
<1>14. Tabulates(f, a, G, N, B)
  BY <1>12, <1>13 DEF Tabulates
<1> QED BY <1>11, <1>14

Iterates(f, a, G, N) == f[0] = a /\ \A n \in 1..N : f[n] = G[<<n, f[n - 1]>>]

(* And from the value before, up to a bound. *)
LEMMA BoundedRecursion ==
    ASSUME NEW N \in Nat, NEW V, NEW a \in V, NEW G \in [(1..N) \X V -> V]
    PROVE  \E f \in [0..N -> V] : Iterates(f, a, G, N)
<1> DEFINE B == [n \in 1..N |-> n - 1]
<1>1. PointsBack(N, B) /\ \A n \in 1..N : B[n] = n - 1
  BY DEF PointsBack
<1> HIDE DEF B
<1>2. PICK f \in [0..N -> V] : Tabulates(f, a, G, N, B)
  BY <1>1, BelowRecursion
<1> QED BY <1>1, <1>2 DEF Tabulates, Iterates

-----------------------------------------------------------------------------
(* Sets that only grow inside a finite set stop growing.                   *)
LEMMA GrowthStops ==
    ASSUME NEW S, IsFiniteSet(S), NEW f \in [Nat -> SUBSET S],
           \A n \in Nat : f[n] \subseteq f[n + 1]
    PROVE  \E n \in 0..Cardinality(S) : f[n + 1] = f[n]
<1> SUFFICES ASSUME \A n \in 0..Cardinality(S) : f[n + 1] # f[n]  PROVE FALSE
  OBVIOUS
<1> DEFINE c == Cardinality(S)
           Large == {n \in Nat : n <= c + 1 => n <= Cardinality(f[n])}
<1>1. c \in Nat
  BY FS_CardinalityType
<1>2. ASSUME NEW n \in Nat  PROVE IsFiniteSet(f[n]) /\ Cardinality(f[n]) \in Nat /\ Cardinality(f[n]) <= c
  <2>1. f[n] \in SUBSET S
    OBVIOUS
  <2> QED BY <2>1, FS_Subset, FS_CardinalityType
<1>3. 0 \in Large
  BY <1>2
<1>4. ASSUME NEW n \in Nat, n \in Large  PROVE n + 1 \in Large
  <2> SUFFICES ASSUME n + 1 <= c + 1  PROVE n + 1 <= Cardinality(f[n + 1])
    OBVIOUS
  <2>1. n \in 0..c /\ n <= Cardinality(f[n])
    BY <1>1, <1>4
  <2>2. f[n] \in SUBSET f[n + 1] /\ f[n] # f[n + 1]
    BY <2>1
  <2>3. Cardinality(f[n]) <= Cardinality(f[n + 1]) /\ Cardinality(f[n]) # Cardinality(f[n + 1])
    BY <1>2, <2>2, FS_Subset
  <2> QED BY <1>2, <2>1, <2>3
<1>5. c + 1 \in Large
  <2>1. Nat \subseteq Large
    <3> HIDE DEF Large
    <3> QED BY <1>3, <1>4, NatInduct
  <2> QED BY <1>1, <2>1
<1> QED BY <1>1, <1>2, <1>5

Grows(S, f, R) ==
    /\ R \in [SUBSET S -> SUBSET S] /\ f \in [Nat -> SUBSET S]
    /\ \A n \in Nat : f[n + 1] = R[f[n]] /\ f[n] \subseteq f[n + 1]

(* A step that only adds to a set inside a finite one, iterated as often   *)
(* as that has elements, has nothing more to add.                          *)
LEMMA NothingToAdd ==
    ASSUME NEW S, NEW R, NEW f, IsFiniteSet(S), Grows(S, f, R), NEW m \in Nat, Cardinality(S) <= m
    PROVE  /\ R[f[m]] = f[m]
           /\ \A n \in Nat : f[n] \subseteq f[m]
<1> DEFINE c == Cardinality(S)
<1> USE DEF Grows
<1>0. c \in Nat
  BY FS_CardinalityType
<1>1. PICK k \in 0..c : f[k + 1] = f[k]
  BY GrowthStops
<1>2. k \in Nat /\ k <= c
  BY <1>0
<1> HIDE DEF c
<1> DEFINE T == {n \in Nat : k <= n => f[n] = f[k]}
<1>3. 0 \in T
  BY <1>2
<1>4. ASSUME NEW n \in Nat, n \in T  PROVE n + 1 \in T
  <2> SUFFICES ASSUME k <= n + 1  PROVE f[n + 1] = f[k]
    OBVIOUS
  <2>1. CASE k = n + 1
    BY <2>1
  <2>2. CASE k # n + 1
    <3>1. k <= n
      BY <2>2, <1>2
    <3>2. f[n] = f[k] /\ f[n + 1] = R[f[n]] /\ f[k + 1] = R[f[k]]
      BY <3>1, <1>2, <1>4
    <3> QED BY <3>2, <1>1
  <2> QED BY <2>1, <2>2
<1>5. \A n \in Nat : k <= n => f[n] = f[k]
  <2>1. Nat \subseteq T
    <3> HIDE DEF T
    <3> QED BY <1>3, <1>4, NatInduct
  <2> QED BY <2>1
<1>6. k <= m
  BY <1>0, <1>2 DEF c
<1>7. f[m] = f[k] /\ R[f[m]] = f[m]
  BY <1>1, <1>2, <1>5, <1>6
<1> DEFINE U == {n \in Nat : n <= k => f[k - n] \subseteq f[k]}
<1>8. 0 \in U
  BY <1>2
<1>9. ASSUME NEW n \in Nat, n \in U  PROVE n + 1 \in U
  <2> SUFFICES ASSUME n + 1 <= k  PROVE f[k - (n + 1)] \subseteq f[k]
    OBVIOUS
  <2>1. k - (n + 1) \in Nat /\ (k - (n + 1)) + 1 = k - n /\ n <= k
    BY <1>2
  <2>2. f[k - (n + 1)] \subseteq f[(k - (n + 1)) + 1]
    BY <2>1
  <2> QED BY <2>1, <2>2, <1>9
<1>10. ASSUME NEW n \in Nat  PROVE f[n] \subseteq f[m]
  <2>1. CASE k <= n
    BY <2>1, <1>5, <1>7
  <2>2. CASE ~(k <= n)
    <3>1. k - n \in Nat /\ k - n <= k /\ k - (k - n) = n
      BY <2>2, <1>2
    <3>2. Nat \subseteq U
      <4> HIDE DEF U
      <4> QED BY <1>8, <1>9, NatInduct
    <3>3. f[k - (k - n)] \subseteq f[k]
      <4>1. k - n \in U
        BY <3>1, <3>2
      <4> QED BY <4>1, <3>1
    <3> QED BY <3>1, <3>3, <1>7
  <2> QED BY <2>1, <2>2
<1> QED BY <1>7, <1>10

(* Finitely many numbers have a bound, and so have a least and a greatest. *)
LEMMA FamilyBounded ==
    ASSUME NEW n \in Nat, NEW f \in [1..n -> Nat]
    PROVE  \E u \in Nat : \A i \in 1..n : f[i] <= u
<1> DEFINE Bounded == {m \in Nat : m <= n => \E u \in Nat : \A i \in 1..m : f[i] <= u}
<1>1. 0 \in Bounded
  OBVIOUS
<1>2. ASSUME NEW m \in Nat, m \in Bounded  PROVE m + 1 \in Bounded
  <2> SUFFICES ASSUME m + 1 <= n  PROVE \E u \in Nat : \A i \in 1..(m + 1) : f[i] <= u
    OBVIOUS
  <2>1. PICK u \in Nat : \A i \in 1..m : f[i] <= u
    BY <1>2
  <2>2. f[m + 1] \in Nat
    OBVIOUS
  <2>3. u + f[m + 1] \in Nat /\ \A i \in 1..(m + 1) : f[i] <= u + f[m + 1]
    BY <2>1, <2>2
  <2> QED BY <2>3
<1>3. n \in Bounded
  <2> HIDE DEF Bounded
  <2> QED BY <1>1, <1>2, NatInduct
<1> QED BY <1>3

LEMMA LeastNumber ==
    ASSUME NEW S \in SUBSET Nat, S # {}
    PROVE  \E x \in S : \A y \in S : x <= y
<1>1. PICK m \in S : \A k \in S : ~(<<k, m>> \in OpToRel(<, Nat))
  BY NatLessThanWellFounded, WFMin
<1>2. ASSUME NEW y \in S, ~(m <= y)  PROVE FALSE
  <2>1. y < m /\ y \in Nat /\ m \in Nat
    BY <1>2
  <2>2. <<y, m>> \in OpToRel(<, Nat)
    BY <2>1 DEF OpToRel
  <2> QED BY <1>1, <2>2
<1> QED BY <1>2

LEMMA GreatestNumber ==
    ASSUME NEW S \in SUBSET Nat, S # {}, NEW u \in Nat, \A y \in S : y <= u
    PROVE  \E x \in S : \A y \in S : y <= x
<1> DEFINE T == {u - y : y \in S}
<1>0. \A y \in S : u - y \in Nat
  OBVIOUS
<1>1. T \in SUBSET Nat /\ T # {}
  BY <1>0
<1>2. PICK t \in T : \A s \in T : t <= s
  BY <1>1, LeastNumber
<1>3. PICK x \in S : t = u - x
  OBVIOUS
<1>4. \A y \in S : u - x <= u - y
  BY <1>2, <1>3
<1> QED BY <1>4
=============================================================================
