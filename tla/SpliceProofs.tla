----------------------------- MODULE SpliceProofs -----------------------------
(*****************************************************************************)
(* What the operators of UpdateFile return, for documents of every length:   *)
(* the order of positions, sums of lengths, what a splice keeps and where it *)
(* lands, the headers read from a document, and the regions an update cuts.  *)
(*****************************************************************************)
EXTENDS UpdateFile, SequenceTheorems, FiniteSetTheorems, WellFoundedInduction, TLAPS

-------------------------------------------------------------------------------
(* The least of some numbers *)

(* The naturals are well-founded under <. *)
Below == {p \in Nat \X Nat: p[1] < p[2]}

(* A set of naturals that is not empty has a first element. *)
LEMMA FirstExists ==
  ASSUME NEW T \in SUBSET Nat, T # {}
  PROVE  \E t \in T: \A u \in T: t <= u
<1>1. Below = OpToRel(<, Nat)
  BY Zenon DEF Below, OpToRel
<1>2. IsWellFoundedOn(Below, Nat)
  BY <1>1, NatLessThanWellFounded, Zenon
<1>3. PICK t \in T: \A u \in T: <<u, t>> \notin Below
  BY <1>2, WFMin
<1>4. ASSUME NEW u \in T PROVE t <= u
  <2>1. <<u, t>> \in Nat \X Nat /\ <<u, t>> \notin Below /\ <<u, t>>[1] = u /\ <<u, t>>[2] = t
    BY <1>3
  <2>2. ~(u < t)
    BY <2>1 DEF Below
  <2>3. QED
    BY <2>2
<1>5. QED
  BY <1>4

(* And a bounded one a last element. *)
LEMMA LastExists ==
  ASSUME NEW T \in SUBSET Nat, T # {}, NEW n \in Nat, \A t \in T: t <= n
  PROVE  \E t \in T: \A u \in T: u <= t
<1> DEFINE U == {u \in Nat: \E t \in T: u = n - t}
<1>1. U # {}
  <2>1. PICK t \in T: TRUE
    OBVIOUS
  <2>2. n - t \in U
    OBVIOUS
  <2>3. QED
    BY <2>2
<1>2. PICK u \in U: \A v \in U: u <= v
  BY <1>1, FirstExists
<1>3. PICK t \in T: u = n - t
  BY <1>2
<1>4. \A v \in T: v <= t
  <2>1. ASSUME NEW v \in T PROVE v <= t
    <3>1. n - v \in U
      OBVIOUS
    <3>2. u <= n - v
      BY <1>2, <3>1
    <3>3. QED
      BY <1>3, <3>2
  <2>2. QED
    BY <2>1
<1>5. QED
  BY <1>4

-------------------------------------------------------------------------------
(* Positions in document order *)

(* f lists the n members of S in increasing order. *)
Lists(f, n, S) ==
  /\ n \in Nat /\ f \in [1 .. n -> S]
  /\ \A k, m \in 1 .. n: k < m => f[k] < f[m]
  /\ \A i \in S: \E k \in 1 .. n: f[k] = i

UpTo(S, i) == {j \in S: j <= i}
Rank(S, i) == Cardinality(UpTo(S, i))

(* Ranks are numbers from 1, grow with the position, and none is left out. *)
LEMMA Ranks ==
  ASSUME NEW S \in SUBSET Nat, IsFiniteSet(S)
  PROVE  /\ Cardinality(S) \in Nat
         /\ \A i \in S: Rank(S, i) \in 1 .. Cardinality(S)
         /\ \A i, j \in S: i < j => Rank(S, i) < Rank(S, j)
         /\ \A n \in 1 .. Cardinality(S): \E i \in S: Rank(S, i) = n
<1>0. \A i \in S: i \in Nat
  OBVIOUS
<1>1. Cardinality(S) \in Nat
  BY FS_CardinalityType
<1>2. \A i \in S: IsFiniteSet(UpTo(S, i)) /\ Rank(S, i) \in Nat /\ Rank(S, i) <= Cardinality(S)
  <2>1. ASSUME NEW i \in S
        PROVE  IsFiniteSet(UpTo(S, i)) /\ Rank(S, i) \in Nat /\ Rank(S, i) <= Cardinality(S)
    <3>1. UpTo(S, i) \in SUBSET S
      BY DEF UpTo
    <3>2. IsFiniteSet(UpTo(S, i)) /\ Cardinality(UpTo(S, i)) <= Cardinality(S)
      BY <3>1, FS_Subset
    <3>3. QED
      BY <3>2, FS_CardinalityType DEF Rank
  <2>2. QED
    BY <2>1
<1>3. \A i \in S: Rank(S, i) # 0
  <2>1. ASSUME NEW i \in S, Rank(S, i) = 0 PROVE FALSE
    <3>1. UpTo(S, i) = {}
      BY <1>2, <2>1, FS_EmptySet DEF Rank
    <3>2. i \in UpTo(S, i)
      BY DEF UpTo
    <3>3. QED
      BY <3>1, <3>2
  <2>2. QED
    BY <2>1
<1>4. \A i, j \in S: i < j => Rank(S, i) < Rank(S, j)
  <2>1. ASSUME NEW i \in S, NEW j \in S, i < j PROVE Rank(S, i) < Rank(S, j)
    <3>0. i \in Nat /\ j \in Nat
      BY <1>0
    <3>6. \A k \in S: k <= i => k <= j
      BY <1>0, <2>1, <3>0
    <3>1. UpTo(S, i) \in SUBSET UpTo(S, j)
      BY <3>6 DEF UpTo
    <3>2. j \in UpTo(S, j) /\ j \notin UpTo(S, i)
      BY <2>1, <3>0 DEF UpTo
    <3>3. UpTo(S, i) # UpTo(S, j)
      BY <3>2
    <3>4. Cardinality(UpTo(S, i)) <= Cardinality(UpTo(S, j))
          /\ Cardinality(UpTo(S, i)) # Cardinality(UpTo(S, j))
      BY <1>2, <3>1, <3>3, FS_Subset
    <3>5. QED
      BY <1>2, <3>4 DEF Rank
  <2>2. QED
    BY <2>1
<1>5. \A n \in 1 .. Cardinality(S): \E i \in S: Rank(S, i) = n
  <2> DEFINE N == 1 .. Cardinality(S)
             rank == [i \in S |-> Rank(S, i)]
  <2>1. rank \in [S -> N]
    BY <1>1, <1>2, <1>3
  <2>2. \A i, j \in S: rank[i] = rank[j] => i = j
    <3>1. \A i, j \in S: i < j \/ j < i \/ i = j
      OBVIOUS
    <3>2. \A i, j \in S: rank[i] \in Nat /\ rank[j] \in Nat
      BY <1>2
    <3>3. QED
      BY <1>4, <3>1, <3>2
  <2>3. rank \in Injection(S, N)
    BY <2>1, <2>2 DEF Injection, IsInjective
  <2>4. IsFiniteSet(N) /\ Cardinality(N) = Cardinality(S)
    BY <1>1, FS_Interval
  <2>5. rank \in Surjection(S, N)
    BY <2>3, <2>4, FS_Injection
  <2>6. \A n \in N: \E i \in S: rank[i] = n
    BY <2>5 DEF Surjection
  <2>7. QED
    BY <2>6
<1>6. QED
  BY <1>1, <1>2, <1>3, <1>4, <1>5

(* PositionsInOrder lists any finite set of positions. *)
LEMMA Ordered ==
  ASSUME NEW S \in SUBSET Nat, IsFiniteSet(S)
  PROVE  Lists(PositionsInOrder(S), Cardinality(S), S)
<1>0. \A i \in S: i \in Nat
  OBVIOUS
<1> DEFINE n == Cardinality(S)
           f == PositionsInOrder(S)
<1>1. n \in Nat
  BY Ranks
<1>2. f = [k \in 1 .. n |-> CHOOSE i \in S: Rank(S, i) = k]
  BY DEF PositionsInOrder, Rank, UpTo
<1>3. \A k \in 1 .. n: f[k] \in S /\ Rank(S, f[k]) = k
  <2>1. ASSUME NEW k \in 1 .. n PROVE f[k] \in S /\ Rank(S, f[k]) = k
    <3>1. \E i \in S: Rank(S, i) = k
      BY Ranks
    <3>2. f[k] = CHOOSE i \in S: Rank(S, i) = k
      BY <1>2
    <3>3. QED
      BY <3>1, <3>2
  <2>2. QED
    BY <2>1
<1>4. f \in [1 .. n -> S]
  BY <1>2, <1>3
<1>5. \A i, j \in S: i < j => Rank(S, i) < Rank(S, j)
  BY Ranks
<1> HIDE DEF f, n
<1>6. \A k, m \in 1 .. n: k < m => f[k] < f[m]
  <2>1. ASSUME NEW k \in 1 .. n, NEW m \in 1 .. n, k < m PROVE f[k] < f[m]
    <3>1. f[k] \in S /\ f[m] \in S /\ Rank(S, f[k]) = k /\ Rank(S, f[m]) = m
      BY <1>3
    <3>6. k \in Nat /\ m \in Nat
      BY <1>1
    <3>2. k \in Nat /\ m \in Nat /\ f[k] \in Nat /\ f[m] \in Nat
      BY <1>0, <3>1, <3>6
    <3>3. f[m] < f[k] => m < k
      BY <1>5, <3>1
    <3>4. f[k] = f[m] => k = m
      BY <3>1
    <3>5. QED
      BY <2>1, <3>2, <3>3, <3>4
  <2>2. QED
    BY <2>1
<1>7. \A i \in S: \E k \in 1 .. n: f[k] = i
  <2>1. ASSUME NEW i \in S PROVE \E k \in 1 .. n: f[k] = i
    <3>1. PICK k \in 1 .. n: k = Rank(S, i)
      BY Ranks DEF n
    <3>2. f[k] \in S /\ Rank(S, f[k]) = Rank(S, i) /\ Rank(S, i) \in Nat
      BY <1>1, <1>3, <3>1
    <3>3. (f[k] < i => Rank(S, i) < Rank(S, i)) /\ (i < f[k] => Rank(S, i) < Rank(S, i))
      BY <1>5, <3>2
    <3>6. f[k] \in Nat /\ i \in Nat
      BY <1>0, <3>2
    <3>4. f[k] = i
      BY <3>2, <3>3, <3>6
    <3>5. QED
      BY <3>4
  <2>2. QED
    BY <2>1
<1>8. QED
  BY <1>1, <1>4, <1>6, <1>7 DEF Lists, f, n

(* It is the only list of them. *)
LEMMA OneOrder ==
  ASSUME NEW S \in SUBSET Nat, NEW n, NEW f, Lists(f, n, S)
  PROVE  IsFiniteSet(S) /\ Cardinality(S) = n /\ f = PositionsInOrder(S)
<1>1. /\ n \in Nat /\ f \in [1 .. n -> S]
      /\ \A k, m \in 1 .. n: k < m => f[k] < f[m]
      /\ \A i \in S: \E k \in 1 .. n: f[k] = i
  BY DEF Lists
<1>0. \A i \in S: i \in Nat
  OBVIOUS
<1>12. \A k \in 1 .. n: f[k] \in S /\ k \in Nat
  BY <1>1
<1>2. \A k \in 1 .. n: f[k] \in Nat /\ k \in Nat
  BY <1>0, <1>12
<1>3. \A k, m \in 1 .. n: f[k] <= f[m] <=> k <= m
  <2>1. ASSUME NEW k \in 1 .. n, NEW m \in 1 .. n PROVE f[k] <= f[m] <=> k <= m
    <3>1. k < m => f[k] < f[m]
      BY <1>1
    <3>2. m < k => f[m] < f[k]
      BY <1>1
    <3>3. k = m \/ k < m \/ m < k
      BY <1>2
    <3>4. QED
      BY <1>2, <3>1, <3>2, <3>3
  <2>2. QED
    BY <2>1
<1>4. ASSUME NEW m \in 0 .. n, NEW T, \A i: i \in T <=> \E k \in 1 .. m: i = f[k]
      PROVE  IsFiniteSet(T) /\ Cardinality(T) = m
  <2> DEFINE M == 1 .. m
             g == [k \in M |-> f[k]]
  <2>0. \A k \in M: k \in 1 .. n /\ f[k] \in T
    BY <1>1, <1>4
  <2>1. g \in [M -> T]
    BY <2>0
  <2>2. \A k, l \in M: g[k] = g[l] => k = l
    <3>1. \A k, l \in M: f[k] = f[l] => k <= l /\ l <= k
      BY <1>2, <1>3, <2>0
    <3>2. \A k \in M: k \in Nat
      BY <2>0
    <3>3. QED
      BY <3>1, <3>2
  <2>3. \A t \in T: \E k \in M: g[k] = t
    BY <1>4
  <2>4. g \in Bijection(M, T)
    BY <2>1, <2>2, <2>3 DEF Bijection, Injection, Surjection, IsInjective
  <2>5. IsFiniteSet(M) /\ Cardinality(M) = m
    BY <1>1, FS_Interval
  <2>6. ExistsBijection(M, T)
    BY <2>4 DEF ExistsBijection
  <2>7. QED
    BY <2>5, <2>6, FS_Bijection
<1>5. IsFiniteSet(S) /\ Cardinality(S) = n
  <2>3. \A i: i \in S <=> \E k \in 1 .. n: i = f[k]
    BY <1>1, <1>12, Zenon
  <2>1. n \in 0 .. n /\ \A i: i \in S <=> \E k \in 1 .. n: i = f[k]
    BY <1>1, <2>3
  <2>2. QED
    BY <1>4, <2>1
<1>6. \A k \in 1 .. n: Rank(S, f[k]) = k
  <2>1. ASSUME NEW k \in 1 .. n PROVE Rank(S, f[k]) = k
    <3>1. \A i: i \in UpTo(S, f[k]) <=> \E l \in 1 .. k: i = f[l]
      <4>1. ASSUME NEW i \in UpTo(S, f[k]) PROVE \E l \in 1 .. k: i = f[l]
        <5>1. i \in S /\ i <= f[k]
          BY DEF UpTo
        <5>2. PICK l \in 1 .. n: f[l] = i
          BY <1>1, <5>1
        <5>3. l <= k
          BY <1>3, <5>1, <5>2
        <5>4. l \in 1 .. k
          BY <1>2, <5>3
        <5>5. QED
          BY <5>2, <5>4
      <4>2. ASSUME NEW l \in 1 .. k PROVE f[l] \in UpTo(S, f[k])
        <5>1. l \in 1 .. n /\ l <= k
          BY <1>1
        <5>2. f[l] \in S /\ f[l] <= f[k]
          BY <1>1, <1>3, <5>1
        <5>3. QED
          BY <5>2 DEF UpTo
      <4>3. QED
        BY <4>1, <4>2
    <3>2. k \in 0 .. n
      BY <1>1
    <3>3. QED
      BY <1>4, <3>1, <3>2 DEF Rank
  <2>2. QED
    BY <2>1
<1>7. \A k \in 1 .. n: f[k] = CHOOSE i \in S: Rank(S, i) = k
  <2>1. ASSUME NEW k \in 1 .. n, NEW i \in S, Rank(S, i) = k PROVE i = f[k]
    <3>1. PICK l \in 1 .. n: f[l] = i
      BY <1>1
    <3>2. l = k
      BY <1>6, <2>1, <3>1
    <3>3. QED
      BY <3>1, <3>2
  <2>2. \A k \in 1 .. n: f[k] \in S /\ Rank(S, f[k]) = k
    BY <1>1, <1>6
  <2>3. QED
    BY <2>1, <2>2
<1>8. PositionsInOrder(S) = [k \in 1 .. n |-> CHOOSE i \in S: Rank(S, i) = k]
  BY <1>5 DEF PositionsInOrder, Rank, UpTo
<1>9. f = [k \in 1 .. n |-> f[k]]
  BY <1>1
<1>10. f = PositionsInOrder(S)
  BY <1>7, <1>8, <1>9
<1>11. QED
  BY <1>5, <1>10

(* Positions carried over in order are listed in the same order. *)
Carries(h, S, T) ==
  /\ \A i \in S: h[i] \in T
  /\ \A i, j \in S: i < j => h[i] < h[j]
  /\ \A t \in T: \E i \in S: h[i] = t

(* They are the list of where they were carried to.                        *)
LEMMA Carried ==
  ASSUME NEW S \in SUBSET Nat, NEW T \in SUBSET Nat, NEW n, NEW f, Lists(f, n, S),
         NEW h, Carries(h, S, T)
  PROVE  Lists([k \in 1 .. n |-> h[f[k]]], n, T)
<1>1. /\ n \in Nat /\ \A k \in 1 .. n: f[k] \in S
      /\ \A k, m \in 1 .. n: k < m => f[k] < f[m]
      /\ \A i \in S: \E k \in 1 .. n: f[k] = i
  BY DEF Lists
<1> DEFINE g == [k \in 1 .. n |-> h[f[k]]]
<1>2. g \in [1 .. n -> T]
  BY <1>1 DEF Carries
<1>3. \A k, m \in 1 .. n: k < m => g[k] < g[m]
  BY <1>1 DEF Carries
<1>4. \A t \in T: \E k \in 1 .. n: g[k] = t
  <2>1. ASSUME NEW t \in T PROVE \E k \in 1 .. n: g[k] = t
    <3>1. PICK i \in S: h[i] = t
      BY DEF Carries
    <3>2. PICK k \in 1 .. n: f[k] = i
      BY <1>1
    <3>3. QED
      BY <3>1, <3>2
  <2>2. QED
    BY <2>1
<1>5. QED
  BY <1>1, <1>2, <1>3, <1>4 DEF Lists

-------------------------------------------------------------------------------
(* Sums *)

(* L[i] is the sum of the first i of the numbers w, up to n. *)
SumsUpTo(n, w, L) == L = [i \in 0 .. n |-> IF i = 0 THEN 0 ELSE L[i - 1] + w[i]]
SumTo(w, n) == (CHOOSE L: SumsUpTo(n, w, L))[n]

(* However many numbers there are, they have a sum. *)
LEMMA SumsExist ==
  ASSUME NEW m \in Nat, NEW w
  PROVE  \E L: SumsUpTo(m, w, L)
<1> DEFINE T == {n \in Nat: ~\E L: SumsUpTo(n, w, L)}
<1>1. SUFFICES ASSUME T # {} PROVE FALSE
  OBVIOUS
<1>2. PICK n \in T: \A u \in T: n <= u
  BY <1>1, FirstExists
<1>3. CASE n = 0
  <2>1. SumsUpTo(0, w, [i \in 0 .. 0 |-> 0])
    BY DEF SumsUpTo
  <2>2. QED
    BY <1>3, <2>1
<1>4. CASE n # 0
  <2>1. n - 1 \in Nat /\ n - 1 \notin T
    BY <1>2, <1>4
  <2>2. PICK s: SumsUpTo(n - 1, w, s)
    BY <2>1
  <2> DEFINE r == [i \in 0 .. n |-> IF i = 0 THEN 0 ELSE s[i - 1] + w[i]]
  <2>3. \A i \in 0 .. n - 1: r[i] = s[i]
    BY <1>4, <2>1, <2>2 DEF SumsUpTo
  <2>4. \A i \in 0 .. n: i # 0 => i - 1 \in 0 .. n - 1
    BY <2>1
  <2>5. r = [i \in 0 .. n |-> IF i = 0 THEN 0 ELSE r[i - 1] + w[i]]
    BY <2>3, <2>4
  <2>6. SumsUpTo(n, w, r)
    BY <2>5 DEF SumsUpTo
  <2>7. QED
    BY <2>6
<1>5. QED
  BY <1>3, <1>4

(* Sums of the same numbers are the same. *)
LEMMA SumsAgree ==
  ASSUME NEW m \in Nat, NEW n \in Nat, NEW v, NEW w, NEW L, NEW M,
         SumsUpTo(m, v, L), SumsUpTo(n, w, M), m <= n, \A i \in 1 .. m: v[i] = w[i],
         NEW k \in 0 .. m
  PROVE  L[k] = M[k]
<1> DEFINE T == {i \in 0 .. m: L[i] # M[i]}
<1>1. SUFFICES ASSUME T # {} PROVE FALSE
  OBVIOUS
<1>10. T \in SUBSET Nat
  OBVIOUS
<1>2. PICK i \in T: \A u \in T: i <= u
  BY <1>1, <1>10, FirstExists
<1>3. i \in 0 .. m /\ i \in 0 .. n /\ (i # 0 => i - 1 \in 0 .. m /\ i \in 1 .. m)
  BY <1>2
<1>4. /\ L[i] = IF i = 0 THEN 0 ELSE L[i - 1] + v[i]
      /\ M[i] = IF i = 0 THEN 0 ELSE M[i - 1] + w[i]
  BY <1>3 DEF SumsUpTo
<1>5. i # 0 => i - 1 \notin T
  BY <1>2, <1>3
<1>6. i # 0 => L[i - 1] = M[i - 1]
  BY <1>3, <1>5
<1>7. i # 0 => v[i] = w[i]
  BY <1>3
<1>8. L[i] = M[i]
  BY <1>4, <1>6, <1>7
<1>9. QED
  BY <1>2, <1>8

(* SumTo is any of these sums. *)
LEMMA SumIs ==
  ASSUME NEW n \in Nat, NEW w, NEW L, SumsUpTo(n, w, L), NEW k \in 0 .. n
  PROVE  SumTo(w, k) = L[k]
<1> DEFINE M == CHOOSE M: SumsUpTo(k, w, M)
<1>1. SumsUpTo(k, w, M)
  BY SumsExist
<1>2. k \in Nat /\ k <= n /\ k \in 0 .. k
  OBVIOUS
<1> HIDE DEF M
<1>3. M[k] = L[k]
  BY <1>1, <1>2, SumsAgree
<1>4. QED
  BY <1>3 DEF SumTo, M

(* The sum of nothing is zero; every number adds to the sum before it. *)
LEMMA SumSteps ==
  ASSUME NEW w, NEW n \in Nat
  PROVE  /\ SumTo(w, 0) = 0
         /\ n # 0 => SumTo(w, n) = SumTo(w, n - 1) + w[n]
<1>1. PICK L: SumsUpTo(n, w, L)
  BY SumsExist
<1>2. \A k \in 0 .. n: L[k] = IF k = 0 THEN 0 ELSE L[k - 1] + w[k]
  BY <1>1 DEF SumsUpTo
<1>3. \A k \in 0 .. n: SumTo(w, k) = L[k]
  BY <1>1, SumIs
<1>4. 0 \in 0 .. n /\ n \in 0 .. n /\ (n # 0 => n - 1 \in 0 .. n)
  OBVIOUS
<1>5. QED
  BY <1>2, <1>3, <1>4

(* A sum of integers is an integer. *)
LEMMA SumType ==
  ASSUME NEW n \in Nat, NEW w, \A i \in 1 .. n: w[i] \in Int
  PROVE  SumTo(w, n) \in Int
<1> DEFINE T == {k \in 0 .. n: SumTo(w, k) \notin Int}
<1>1. SUFFICES ASSUME T # {} PROVE FALSE
  OBVIOUS
<1>10. T \in SUBSET Nat
  OBVIOUS
<1>2. PICK k \in T: \A u \in T: k <= u
  BY <1>1, <1>10, FirstExists
<1>3. k \in Nat /\ (k # 0 => k - 1 \in 0 .. n /\ k \in 1 .. n)
  BY <1>2
<1>4. k # 0 => SumTo(w, k - 1) \in Int /\ w[k] \in Int
  <2>1. k # 0 => k - 1 \notin T
    BY <1>2, <1>3
  <2>2. QED
    BY <1>3, <2>1
<1>5. SumTo(w, k) \in Int
  <2>1. SumTo(w, 0) = 0 /\ (k # 0 => SumTo(w, k) = SumTo(w, k - 1) + w[k])
    BY <1>3, SumSteps
  <2>2. QED
    BY <1>4, <2>1
<1>6. QED
  BY <1>2, <1>5

(* Numbers that are the same from b on add the same to the sum up to b. *)
Shifted(v, w, b, n) ==
  /\ \A i \in 1 .. b: v[i] \in Int
  /\ \A i \in 1 .. n: v[b + i] = w[i] /\ w[i] \in Int

(* So the sum up to b + n is that up to b and that of the rest.            *)
LEMMA SumShift ==
  ASSUME NEW v, NEW w, NEW b \in Nat, NEW n \in Nat,
         Shifted(v, w, b, n), NEW c, c = b + n
  PROVE  SumTo(v, c) = SumTo(v, b) + SumTo(w, n)
<1>0. /\ \A i \in 1 .. b: v[i] \in Int
      /\ \A i \in 1 .. n: v[b + i] = w[i] /\ w[i] \in Int
  BY DEF Shifted
<1> DEFINE T == {k \in 0 .. n: SumTo(v, b + k) # SumTo(v, b) + SumTo(w, k)}
<1>1. SUFFICES ASSUME T # {} PROVE FALSE
  <2>1. n \in 0 .. n
    OBVIOUS
  <2>2. QED
    BY <1>1, <2>1
<1>10. T \in SUBSET Nat
  OBVIOUS
<1>2. PICK k \in T: \A u \in T: k <= u
  BY <1>1, <1>10, FirstExists
<1>3. k \in Nat /\ k \in 0 .. n /\ b + k \in Nat /\ SumTo(v, b) \in Int
  BY <1>0, <1>2, SumType
<1>4. CASE k = 0
  <2>1. SumTo(w, 0) = 0
    BY <1>3, SumSteps
  <2>2. b + 0 = b
    OBVIOUS
  <2>3. QED
    BY <1>2, <1>3, <1>4, <2>1, <2>2
<1>5. CASE k # 0
  <2> DEFINE l == k - 1
             a == b + l
             d == b + k
  <2>1. l \in 0 .. n /\ l \in Nat /\ k \in 1 .. n /\ d \in Nat /\ d # 0 /\ d - 1 = a
    BY <1>3, <1>5
  <2>2. l \notin T
    BY <1>2, <2>1
  <2>3. SumTo(v, a) = SumTo(v, b) + SumTo(w, l)
    BY <2>1, <2>2
  <2>4. SumTo(v, d) = SumTo(v, d - 1) + v[d]
    BY <2>1, SumSteps
  <2>5. SumTo(w, k) = SumTo(w, l) + w[k]
    BY <1>3, <1>5, SumSteps
  <2>6. v[d] = w[k] /\ w[k] \in Int
    BY <1>0, <2>1
  <2>7. SumTo(w, l) \in Int
    <3>1. \A i \in 1 .. l: w[i] \in Int
      BY <1>0, <2>1
    <3>2. QED
      BY <2>1, <3>1, SumType
  <2>8. SumTo(v, d) = SumTo(v, b) + SumTo(w, k)
    <3> HIDE DEF a, d, l
    <3>1. QED
      BY <1>3, <2>1, <2>3, <2>4, <2>5, <2>6, <2>7
  <2>9. QED
    BY <1>2, <2>8
<1>6. QED
  BY <1>4, <1>5

(* Sums of equal numbers, and of none but zeros. *)
LEMMA SumSame ==
  ASSUME NEW n \in Nat, NEW v, NEW w, \A i \in 1 .. n: v[i] = w[i]
  PROVE  SumTo(v, n) = SumTo(w, n)
<1>1. PICK L: SumsUpTo(n, v, L)
  BY SumsExist
<1>2. PICK M: SumsUpTo(n, w, M)
  BY SumsExist
<1>3. n <= n /\ n \in 0 .. n
  OBVIOUS
<1>4. L[n] = M[n]
  BY <1>1, <1>2, <1>3, SumsAgree
<1>5. SumTo(v, n) = L[n] /\ SumTo(w, n) = M[n]
  BY <1>1, <1>2, <1>3, SumIs
<1>6. QED
  BY <1>4, <1>5

-------------------------------------------------------------------------------
(* The lengths of items *)

Lens(s) == [i \in 1 .. Len(s) |-> s[i].len]

(* The length of a header is the sum of those of its items. *)
LEMMA TotalIsSum ==
  ASSUME NEW s, Len(s) \in Nat
  PROVE  TotalLen(s) = SumTo(Lens(s), Len(s))
<1> DEFINE n == Len(s)
           Is(L) == L = [i \in 0 .. n |-> IF i = 0 THEN 0 ELSE L[i - 1] + s[i].len]
           sum == CHOOSE L: Is(L)
<1>1. \A L: Is(L) <=> SumsUpTo(n, Lens(s), L)
  <2>1. \A i \in 0 .. n: i # 0 => Lens(s)[i] = s[i].len
    BY DEF Lens
  <2>2. \A L: [i \in 0 .. n |-> IF i = 0 THEN 0 ELSE L[i - 1] + s[i].len]
              = [i \in 0 .. n |-> IF i = 0 THEN 0 ELSE L[i - 1] + Lens(s)[i]]
    BY <2>1
  <2>3. QED
    BY <2>2 DEF SumsUpTo
<1>2. \E L: Is(L)
  BY <1>1, SumsExist
<1>3. SumsUpTo(n, Lens(s), sum)
  <2> HIDE DEF Is
  <2>1. Is(sum)
    BY <1>2
  <2>2. QED
    BY <1>1, <2>1
<1>4. TotalLen(s) = sum[n]
  BY DEF TotalLen
<1>5. n \in 0 .. n
  OBVIOUS
<1> HIDE DEF sum, n
<1>6. SumTo(Lens(s), n) = sum[n]
  BY <1>3, <1>5, SumIs DEF n
<1>7. QED
  BY <1>4, <1>6 DEF n

(* So is the change of its length. *)
LEMMA DeltaIsSum ==
  ASSUME NEW s, Len(s) \in Nat, NEW regions, NEW n, n = Len(s) + 1
  PROVE  DeltaOf(s, regions) = SumTo([i \in 1 .. n |-> DeltaAt(s, regions, i)], n)
<1> DEFINE w == [i \in 1 .. n |-> DeltaAt(s, regions, i)]
           Is(L) == L = [i \in 0 .. n |-> IF i = 0 THEN 0 ELSE L[i - 1] + DeltaAt(s, regions, i)]
           sum == CHOOSE L: Is(L)
<1>0. n \in Nat
  OBVIOUS
<1>1. \A L: Is(L) <=> SumsUpTo(n, w, L)
  <2>1. \A i \in 0 .. n: i # 0 => w[i] = DeltaAt(s, regions, i)
    BY <1>0
  <2>2. \A L: [i \in 0 .. n |-> IF i = 0 THEN 0 ELSE L[i - 1] + DeltaAt(s, regions, i)]
              = [i \in 0 .. n |-> IF i = 0 THEN 0 ELSE L[i - 1] + w[i]]
    BY <2>1
  <2>3. QED
    BY <2>2 DEF SumsUpTo
<1>2. \E L: Is(L)
  BY <1>0, <1>1, SumsExist
<1>3. SumsUpTo(n, w, sum)
  <2> HIDE DEF Is, w
  <2>1. Is(sum)
    BY <1>2
  <2>2. QED
    BY <1>1, <2>1
<1>4. DeltaOf(s, regions) = sum[n]
  BY DEF DeltaOf
<1>5. n \in 0 .. n
  BY <1>0
<1> HIDE DEF sum
<1>6. SumTo(w, n) = sum[n]
  BY <1>0, <1>3, <1>5, SumIs
<1>7. QED
  BY <1>4, <1>6

(* And that of the locations. *)
LEMMA LocationsDeltaIsSum ==
  ASSUME NEW atts, Len(atts) \in Nat, NEW delta
  PROVE  LocationsDelta(atts, delta)
           = SumTo([i \in 1 .. Len(atts) |-> Growth(atts[i], delta)], Len(atts))
<1> DEFINE n == Len(atts)
           w == [i \in 1 .. n |-> Growth(atts[i], delta)]
           Is(L) == L = [i \in 0 .. n |-> IF i = 0 THEN 0 ELSE L[i - 1] + Growth(atts[i], delta)]
           sum == CHOOSE L: Is(L)
<1>1. \A L: Is(L) <=> SumsUpTo(n, w, L)
  <2>1. \A i \in 0 .. n: i # 0 => w[i] = Growth(atts[i], delta)
    OBVIOUS
  <2>2. \A L: [i \in 0 .. n |-> IF i = 0 THEN 0 ELSE L[i - 1] + Growth(atts[i], delta)]
              = [i \in 0 .. n |-> IF i = 0 THEN 0 ELSE L[i - 1] + w[i]]
    BY <2>1
  <2>3. QED
    BY <2>2 DEF SumsUpTo
<1>2. \E L: Is(L)
  BY <1>1, SumsExist
<1>3. SumsUpTo(n, w, sum)
  <2> HIDE DEF Is, w
  <2>1. Is(sum)
    BY <1>2
  <2>2. QED
    BY <1>1, <2>1
<1>4. LocationsDelta(atts, delta) = sum[n]
  BY DEF LocationsDelta
<1>5. n \in 0 .. n
  OBVIOUS
<1> HIDE DEF sum
<1>6. SumTo(w, n) = sum[n]
  BY <1>3, <1>5, SumIs
<1>7. QED
  BY <1>4, <1>6

-------------------------------------------------------------------------------
(* Texts in a row *)

(* out is the n texts t in a row, the first i of which end at B[i]. *)
Laid(t, n, B, out) ==
  /\ n \in Nat /\ B \in [0 .. n -> Nat] /\ B[0] = 0
  /\ \A i \in 1 .. n: B[i] = B[i - 1] + Len(t[i])
  /\ \A i \in 1 .. n: \A k \in 1 .. Len(t[i]): out[B[i - 1] + k] = t[i][k]
  /\ Len(out) = B[n]

(* f[i] is the first i texts in a row, up to n. *)
RowUpTo(n, t, f) ==
  f = [i \in 1 .. n |-> IF i = 1 THEN t[i] ELSE f[i - 1] \o t[i]]

(* However many texts there are, they can be put in a row. *)
LEMMA RowsExist ==
  ASSUME NEW m \in Nat, NEW t
  PROVE  \E f: RowUpTo(m, t, f)
<1> DEFINE T == {n \in Nat: ~\E f: RowUpTo(n, t, f)}
<1>1. SUFFICES ASSUME T # {} PROVE FALSE
  OBVIOUS
<1>2. PICK n \in T: \A u \in T: n <= u
  BY <1>1, FirstExists
<1>3. CASE n = 0
  <2>1. RowUpTo(0, t, [i \in 1 .. 0 |-> 0])
    BY DEF RowUpTo
  <2>2. QED
    BY <1>3, <2>1
<1>4. CASE n # 0
  <2>1. n - 1 \in Nat /\ n - 1 \notin T
    BY <1>2, <1>4
  <2>2. PICK f: RowUpTo(n - 1, t, f)
    BY <2>1
  <2> DEFINE r == [i \in 1 .. n |-> IF i = 1 THEN t[i] ELSE f[i - 1] \o t[i]]
  <2>3. \A i \in 1 .. n - 1: r[i] = f[i]
    <3>1. \A i \in 1 .. n - 1: i \in 1 .. n
      BY <2>1
    <3>2. QED
      BY <2>2, <3>1 DEF RowUpTo
  <2>4. \A i \in 1 .. n: i # 1 => i - 1 \in 1 .. n - 1
    BY <2>1
  <2>5. \A i \in 1 .. n: i # 1 => f[i - 1] = r[i - 1]
    BY <2>3, <2>4
  <2>6. r = [i \in 1 .. n |-> IF i = 1 THEN t[i] ELSE r[i - 1] \o t[i]]
    BY <2>5
  <2>7. RowUpTo(n, t, r)
    BY <2>6 DEF RowUpTo
  <2>8. QED
    BY <2>7
<1>5. QED
  BY <1>3, <1>4

(* FlattenSeq is the last of these rows. *)
LEMMA FlattenIsRow ==
  ASSUME NEW t, Len(t) \in Nat, Len(t) # 0
  PROVE  \E f: RowUpTo(Len(t), t, f) /\ FlattenSeq(t) = f[Len(t)]
<1> DEFINE row == CHOOSE f: RowUpTo(Len(t), t, f)
<1>1. RowUpTo(Len(t), t, row)
  BY RowsExist
<1>2. FlattenSeq(t) = row[Len(t)]
  BY DEF FlattenSeq, RowUpTo
<1>3. QED
  BY <1>1, <1>2

(* The texts end in order. *)
LEMMA LaidInOrder ==
  ASSUME NEW t, NEW n, NEW B, NEW out, Laid(t, n, B, out), \A i \in 1 .. n: Len(t[i]) \in Nat,
         NEW i \in 0 .. n, NEW j \in 0 .. n, i <= j
  PROVE  B[i] <= B[j]
<1>1. /\ n \in Nat /\ B \in [0 .. n -> Nat]
      /\ \A k \in 1 .. n: B[k] = B[k - 1] + Len(t[k])
  BY DEF Laid
<1> DEFINE T == {k \in i .. n: ~(B[i] <= B[k])}
<1>2. ASSUME T # {} PROVE FALSE
  <2>1. T \in SUBSET Nat
    BY <1>1
  <2>2. PICK k \in T: \A u \in T: k <= u
    BY <1>2, <2>1, FirstExists
  <2>3. k # i /\ k \in Nat /\ k \in 1 .. n /\ k - 1 \in i .. n /\ k - 1 \in 0 .. n
    BY <1>1, <2>2
  <2>4. k - 1 \notin T
    BY <2>2, <2>3
  <2>5. B[i] <= B[k - 1] /\ B[i] \in Nat /\ B[k - 1] \in Nat /\ Len(t[k]) \in Nat
    BY <1>1, <2>3, <2>4
  <2>6. B[i] <= B[k]
    BY <1>1, <2>3, <2>5
  <2>7. QED
    BY <2>2, <2>6
<1>3. j \in i .. n
  BY <1>1
<1>4. QED
  BY <1>2, <1>3

(* A text behind others in a row. *)
LEMMA LaidGrows ==
  ASSUME NEW X, NEW n \in Nat, NEW m, m = n + 1, NEW t \in [1 .. m -> Seq(X)],
         NEW B, NEW out \in Seq(X), Laid(t, n, B, out)
  PROVE  \E C: Laid(t, m, C, out \o t[m])
<1> DEFINE C == [i \in 0 .. m |-> IF i <= n THEN B[i] ELSE B[n] + Len(t[m])]
<1>1. /\ B \in [0 .. n -> Nat] /\ B[0] = 0 /\ Len(out) = B[n]
      /\ \A i \in 1 .. n: B[i] = B[i - 1] + Len(t[i])
      /\ \A i \in 1 .. n: \A k \in 1 .. Len(t[i]): out[B[i - 1] + k] = t[i][k]
  BY DEF Laid
<1>2. m \in Nat /\ m \in 1 .. m /\ t[m] \in Seq(X) /\ Len(t[m]) \in Nat /\ B[n] \in Nat
  BY <1>1
<1>3. \A i \in 0 .. m: i <= n \/ i = m
  OBVIOUS
<1>4. C \in [0 .. m -> Nat] /\ C[0] = 0 /\ C[m] = B[n] + Len(t[m]) /\ \A i \in 0 .. n: C[i] = B[i]
  BY <1>1, <1>2
<1>5. m - 1 = n /\ n \in 0 .. n /\ \A i \in 1 .. n: i \in 0 .. n /\ i - 1 \in 0 .. n
  OBVIOUS
<1>6. \A i \in 1 .. m: i \in 1 .. n \/ i = m
  OBVIOUS
<1> HIDE DEF C
<1>7. \A i \in 1 .. m: C[i] = C[i - 1] + Len(t[i])
  BY <1>1, <1>4, <1>5, <1>6, ZenonT(30)
<1>8. /\ out \o t[m] \in Seq(X) /\ Len(out \o t[m]) = C[m]
      /\ \A p \in 1 .. B[n]: (out \o t[m])[p] = out[p]
      /\ \A k \in 1 .. Len(t[m]): (out \o t[m])[B[n] + k] = t[m][k]
  <2>1. PICK u \in Seq(X): u = t[m]
    BY <1>2
  <2>2. PICK b \in Nat: b = B[n]
    BY <1>2
  <2>3. Len(out) = b
    BY <1>1, <2>2
  <2>4. /\ out \o u \in Seq(X) /\ Len(out \o u) = b + Len(u)
        /\ \A p \in 1 .. b + Len(u): (out \o u)[p] = IF p <= b THEN out[p] ELSE u[p - b]
    BY <2>3, ConcatProperties
  <2>5. Len(u) \in Nat
    BY <1>2, <2>1
  <2>6. \A p \in 1 .. b: p \in 1 .. b + Len(u) /\ p <= b
    BY <2>5
  <2>7. \A k \in 1 .. Len(u): b + k \in 1 .. b + Len(u) /\ ~(b + k <= b) /\ (b + k) - b = k
    BY <2>5
  <2>8. /\ \A p \in 1 .. b: (out \o u)[p] = out[p]
        /\ \A k \in 1 .. Len(u): (out \o u)[b + k] = u[k]
    BY <2>4, <2>6, <2>7
  <2>9. QED
    BY <1>4, <2>1, <2>2, <2>4, <2>8
<1>9. \A i \in 0 .. n: B[i] <= B[n]
  <2>1. \A i \in 1 .. n: t[i] \in Seq(X) /\ Len(t[i]) \in Nat
    OBVIOUS
  <2>2. \A i \in 0 .. n: i <= n /\ n \in 0 .. n
    OBVIOUS
  <2>3. QED
    BY <2>1, <2>2, LaidInOrder
<1>10. ASSUME NEW i \in 1 .. m, NEW k \in 1 .. Len(t[i])
       PROVE  (out \o t[m])[C[i - 1] + k] = t[i][k]
  <2>1. CASE i = m
    BY <1>4, <1>5, <1>8, <2>1, SMTT(30)
  <2>2. CASE i # m
    <3>1. i \in 1 .. n /\ i - 1 \in 0 .. n /\ i \in 0 .. n
      BY <2>2
    <3>2. C[i - 1] = B[i - 1] /\ B[i] = B[i - 1] + Len(t[i]) /\ B[i] <= B[n]
      BY <1>1, <1>4, <1>9, <3>1
    <3>3. B[i - 1] \in Nat /\ Len(t[i]) \in Nat /\ k \in Nat
      BY <1>1, <3>1
    <3>4. B[i - 1] + k \in 1 .. B[n]
      BY <1>2, <3>2, <3>3, SMTT(30)
    <3>5. out[B[i - 1] + k] = t[i][k]
      BY <1>1, <3>1
    <3>6. QED
      BY <1>8, <3>2, <3>4, <3>5
  <2>3. QED
    BY <2>1, <2>2
<1>11. Laid(t, m, C, out \o t[m])
  BY <1>2, <1>4, <1>7, <1>8, <1>10 DEF Laid
<1>12. QED
  BY <1>11

(* FlattenSeq puts texts in a row. *)
LEMMA FlattenLaid ==
  ASSUME NEW X, NEW n \in Nat, NEW t \in [1 .. n -> Seq(X)]
  PROVE  FlattenSeq(t) \in Seq(X) /\ \E B: Laid(t, n, B, FlattenSeq(t))
<1>1. t \in Seq(Seq(X)) /\ Len(t) = n
  BY SeqDef
<1>2. CASE n = 0
  <2>1. t = << >>
    BY <1>1, <1>2
  <2>2. FlattenSeq(t) = << >>
    BY <1>1, <1>2, <2>1 DEF FlattenSeq
  <2>3. Laid(t, 0, [i \in 0 .. 0 |-> 0], << >>)
    BY DEF Laid
  <2>4. QED
    BY <1>2, <2>2, <2>3
<1>3. CASE n # 0
  <2>1. PICK f: RowUpTo(n, t, f) /\ FlattenSeq(t) = f[n]
    BY <1>1, <1>3, FlattenIsRow
  <2> DEFINE Good(i) == f[i] \in Seq(X) /\ \E B: Laid(t, i, B, f[i])
             T == {i \in 1 .. n: ~Good(i)}
  <2>2. ASSUME T # {} PROVE FALSE
    <3>1. T \in SUBSET Nat
      OBVIOUS
    <3>2. PICK i \in T: \A u \in T: i <= u
      BY <2>2, <3>1, FirstExists
    <3>3. f[i] = IF i = 1 THEN t[i] ELSE f[i - 1] \o t[i]
      BY <2>1, <3>2 DEF RowUpTo
    <3>4. i \in 1 .. n /\ i \in Nat /\ t[i] \in Seq(X) /\ t \in [1 .. n -> Seq(X)]
      BY <3>2
    <3>5. CASE i = 1
      <4> DEFINE C == [k \in 0 .. 1 |-> IF k = 0 THEN 0 ELSE Len(t[1])]
      <4>1. C \in [0 .. 1 -> Nat] /\ C[0] = 0 /\ C[1] = Len(t[1]) /\ 1 - 1 = 0
        BY <3>4, <3>5
      <4>2. \A k \in 1 .. 1: k = 1
        OBVIOUS
      <4>3. \A k \in Nat: 0 + k = k
        OBVIOUS
      <4> HIDE DEF C
      <4>4. Laid(t, 1, C, t[1])
        BY <4>1, <4>2, <4>3, <3>4, <3>5 DEF Laid
      <4>5. Good(i)
        BY <3>3, <3>4, <3>5, <4>4
      <4>6. QED
        BY <3>2, <4>5
    <3>6. CASE i # 1
      <4> DEFINE j == i - 1
      <4>1. j \in 1 .. n /\ j \in Nat /\ i = j + 1
        BY <3>4, <3>6
      <4>13. ~(i <= j)
        BY <3>4
      <4>14. j \notin T
        BY <3>2, <4>13, Zenon
      <4>2. Good(j)
        BY <4>1, <4>14
      <4>3. PICK B: Laid(t, j, B, f[j])
        BY <4>2
      <4> DEFINE r == [k \in 1 .. i |-> t[k]]
      <4>4. r \in [1 .. i -> Seq(X)] /\ r[i] = t[i] /\ \A k \in 1 .. i: r[k] = t[k]
        BY <3>4
      <4>5. Laid(r, j, B, f[j])
        <5>1. \A k \in 1 .. j: r[k] = t[k]
          BY <4>1, <4>4
        <5> HIDE DEF r, j
        <5>2. QED
          BY <4>3, <5>1, ZenonT(30) DEF Laid
      <4>6. f[j] \in Seq(X)
        BY <4>2
      <4>7. \E C: Laid(r, i, C, f[j] \o r[i])
        <5> HIDE DEF r, j
        <5>1. QED
          BY <4>1, <4>4, <4>5, <4>6, LaidGrows
      <4>8. PICK C: Laid(r, i, C, f[j] \o r[i])
        BY <4>7
      <4>9. f[i] = f[j] \o r[i] /\ f[i] \in Seq(X)
        BY <3>3, <3>4, <3>6, <4>4, <4>6
      <4>10. Laid(t, i, C, f[i])
        <5> HIDE DEF r
        <5>1. QED
          BY <4>4, <4>8, <4>9 DEF Laid
      <4>11. Good(i)
        BY <4>9, <4>10
      <4>12. QED
        BY <3>2, <4>11
    <3>7. QED
      BY <3>5, <3>6
  <2>3. n \in 1 .. n
    BY <1>3
  <2>4. Good(n)
    BY <2>2, <2>3
  <2>5. QED
    BY <2>1, <2>4
<1>4. QED
  BY <1>2, <1>3

(* Every element of the row is one of a text. *)
LEMMA LaidFinds ==
  ASSUME NEW t, NEW n, NEW B, NEW out, Laid(t, n, B, out), \A i \in 1 .. n: Len(t[i]) \in Nat,
         NEW p \in 1 .. Len(out)
  PROVE  \E i \in 1 .. n: \E k \in 1 .. Len(t[i]): p = B[i - 1] + k
<1>1. /\ n \in Nat /\ B \in [0 .. n -> Nat] /\ B[0] = 0 /\ Len(out) = B[n]
      /\ \A k \in 1 .. n: B[k] = B[k - 1] + Len(t[k])
  BY DEF Laid
<1> DEFINE T == {k \in 0 .. n: p <= B[k]}
<1>2. T \in SUBSET Nat
  BY <1>1
<1>3. n \in T
  BY <1>1
<1>4. PICK i \in T: \A u \in T: i <= u
  BY <1>2, <1>3, FirstExists
<1>5. p \in Nat /\ 1 <= p
  BY <1>1
<1>6. i # 0 /\ i \in 1 .. n /\ i - 1 \in 0 .. n
  BY <1>1, <1>4, <1>5
<1>7. i - 1 \notin T
  BY <1>4, <1>6
<1>8. B[i - 1] < p /\ p <= B[i] /\ B[i] = B[i - 1] + Len(t[i]) /\ B[i - 1] \in Nat /\ Len(t[i]) \in Nat
  BY <1>1, <1>4, <1>5, <1>6, <1>7
<1>9. p - B[i - 1] \in 1 .. Len(t[i]) /\ p = B[i - 1] + (p - B[i - 1])
  BY <1>5, <1>8
<1>10. QED
  BY <1>6, <1>9

-------------------------------------------------------------------------------
(* The splice *)

(* Regions a splice can be made of: within s, apart, one to a position.    *)
Fit(s, R) ==
  /\ \A r \in R: /\ r.first \in Nat /\ r.last \in Nat /\ r.new \in Seq(Items)
                 /\ 1 <= r.first /\ r.first <= r.last + 1 /\ r.last <= Len(s)
  /\ Disjoint(R)
  /\ \A q, r \in R: q.first = r.first => q = r

Pieces(s, R, n) ==
  [i \in 1 .. n |-> NewAt(R, i) \o IF i \notin DOMAIN s \/ Gone(R, i) THEN << >> ELSE <<s[i]>>]

(* Where the items of `out` come from: item i, if it stays, is at B[i],    *)
(* behind what is new before it.                                           *)
Placed(s, R, n, B, out) ==
  /\ out \in Seq(Items) /\ n = Len(s) + 1
  /\ B \in [0 .. n -> Nat] /\ B[0] = 0 /\ Len(out) = B[n]
  /\ \A i \in 1 .. n: B[i - 1] + Len(NewAt(R, i)) <= B[i]
  /\ \A i \in 1 .. n: \A k \in 1 .. Len(NewAt(R, i)): out[B[i - 1] + k] = NewAt(R, i)[k]
  /\ \A i \in 1 .. n: i \notin DOMAIN s \/ Gone(R, i) => B[i] = B[i - 1] + Len(NewAt(R, i))
  /\ \A i \in DOMAIN s: ~Gone(R, i) => /\ B[i] = B[i - 1] + Len(NewAt(R, i)) + 1
                                       /\ out[B[i]] = s[i]
  /\ \A i, j \in 0 .. n: i <= j => B[i] <= B[j]
  /\ \A p \in 1 .. Len(out):
       \/ \E i \in DOMAIN s: ~Gone(R, i) /\ p = B[i]
       \/ \E i \in 1 .. n: \E k \in 1 .. Len(NewAt(R, i)): p = B[i - 1] + k

(* What is new at a position is what its region holds. *)
LEMMA NewHere ==
  ASSUME NEW s, NEW R, Fit(s, R)
  PROVE  /\ \A r \in R: StartingAt(R, r.first) = {r} /\ NewAt(R, r.first) = r.new
         /\ \A i: (\A r \in R: r.first # i) => StartingAt(R, i) = {} /\ NewAt(R, i) = << >>
<1>1. ASSUME NEW r \in R PROVE StartingAt(R, r.first) = {r} /\ NewAt(R, r.first) = r.new
  <2>1. StartingAt(R, r.first) = {r}
    BY DEF StartingAt, Fit
  <2>2. (CHOOSE q \in {r}: TRUE) = r
    OBVIOUS
  <2>3. QED
    BY <2>1, <2>2, Zenon DEF NewAt
<1>2. ASSUME NEW i, \A r \in R: r.first # i PROVE StartingAt(R, i) = {} /\ NewAt(R, i) = << >>
  <2>1. StartingAt(R, i) = {}
    BY <1>2 DEF StartingAt
  <2>2. QED
    BY <2>1 DEF NewAt
<1>3. QED
  BY <1>1, <1>2

(* What is new is a sequence of items. *)
LEMMA NewType ==
  ASSUME NEW s, NEW R, Fit(s, R), NEW i
  PROVE  NewAt(R, i) \in Seq(Items) /\ Len(NewAt(R, i)) \in Nat
<1>1. NewAt(R, i) \in Seq(Items)
  <2>1. CASE \E r \in R: r.first = i
    <3>1. PICK r \in R: r.first = i
      BY <2>1
    <3>2. NewAt(R, i) = r.new
      BY <3>1, NewHere
    <3>3. QED
      BY <3>2 DEF Fit
  <2>2. CASE \A r \in R: r.first # i
    <3>1. NewAt(R, i) = << >>
      BY <2>2, NewHere
    <3>2. QED
      BY <3>1
  <2>3. QED
    BY <2>1, <2>2
<1>2. QED
  BY <1>1

(* Splice puts the pieces in a row. *)
LEMMA SplicePlaced ==
  ASSUME NEW s \in Seq(Items), NEW R, Fit(s, R), NEW n, n = Len(s) + 1
  PROVE  \E B: Placed(s, R, n, B, Splice(s, R))
<1> DEFINE t == Pieces(s, R, n)
           out == Splice(s, R)
           stays(i) == IF i \notin DOMAIN s \/ Gone(R, i) THEN << >> ELSE <<s[i]>>
<1>0. n \in Nat /\ Len(s) \in Nat /\ DOMAIN s = 1 .. Len(s)
  OBVIOUS
<1>1. \A i \in 1 .. n: /\ NewAt(R, i) \in Seq(Items) /\ Len(NewAt(R, i)) \in Nat
                       /\ stays(i) \in Seq(Items)
                       /\ t[i] = NewAt(R, i) \o stays(i)
  <2>1. ASSUME NEW i \in 1 .. n PROVE NewAt(R, i) \in Seq(Items) /\ Len(NewAt(R, i)) \in Nat
    BY NewType
  <2>2. ASSUME NEW i \in 1 .. n PROVE stays(i) \in Seq(Items)
    <3>1. CASE i \notin DOMAIN s \/ Gone(R, i)
      BY <3>1
    <3>2. CASE ~(i \notin DOMAIN s \/ Gone(R, i))
      <4>1. s[i] \in Items
        BY <3>2
      <4>2. QED
        BY <3>2, <4>1
    <3>3. QED
      BY <3>1, <3>2
  <2>3. QED
    BY <2>1, <2>2 DEF Pieces
<1>2. t \in [1 .. n -> Seq(Items)]
  <2>1. \A i \in 1 .. n: t[i] \in Seq(Items)
    <3> HIDE DEF stays, t
    <3>1. QED
      BY <1>1, ConcatProperties, ZenonT(30)
  <2>2. QED
    BY <2>1 DEF Pieces
<1>3. out = FlattenSeq(t)
  BY DEF Splice, Pieces
<1>4. PICK B: Laid(t, n, B, out)
  <2> HIDE DEF t, out
  <2>1. QED
    BY <1>0, <1>2, <1>3, FlattenLaid
<1>5. out \in Seq(Items)
  <2> HIDE DEF t, out
  <2>1. QED
    BY <1>0, <1>2, <1>3, FlattenLaid
<1>6. /\ B \in [0 .. n -> Nat] /\ B[0] = 0 /\ Len(out) = B[n]
      /\ \A i \in 1 .. n: B[i] = B[i - 1] + Len(t[i])
      /\ \A i \in 1 .. n: \A k \in 1 .. Len(t[i]): out[B[i - 1] + k] = t[i][k]
  BY <1>4 DEF Laid
<1>7. \A i \in 1 .. n: Len(t[i]) \in Nat
  BY <1>2
<1>8. \A i \in 1 .. n:
        /\ i \notin DOMAIN s \/ Gone(R, i) => t[i] = NewAt(R, i)
        /\ ~(i \notin DOMAIN s \/ Gone(R, i)) => t[i] = NewAt(R, i) \o <<s[i]>>
  <2>1. \A i \in 1 .. n: NewAt(R, i) \o << >> = NewAt(R, i)
    BY <1>1, ConcatEmptySeq
  <2>2. \A i \in 1 .. n: t[i] = NewAt(R, i) \o IF i \notin DOMAIN s \/ Gone(R, i) THEN << >> ELSE <<s[i]>>
    BY <1>1
  <2> HIDE DEF t
  <2>3. QED
    BY <2>1, <2>2, Zenon
<1> HIDE DEF t, out, stays
<1>9. \A i \in 1 .. n: ~(i \notin DOMAIN s \/ Gone(R, i)) =>
        /\ Len(t[i]) = Len(NewAt(R, i)) + 1
        /\ \A k \in 1 .. Len(NewAt(R, i)): t[i][k] = NewAt(R, i)[k]
        /\ t[i][Len(NewAt(R, i)) + 1] = s[i]
  <2>1. ASSUME NEW i \in 1 .. n, ~(i \notin DOMAIN s \/ Gone(R, i))
        PROVE  /\ Len(t[i]) = Len(NewAt(R, i)) + 1
               /\ \A k \in 1 .. Len(NewAt(R, i)): t[i][k] = NewAt(R, i)[k]
               /\ t[i][Len(NewAt(R, i)) + 1] = s[i]
    <3>1. PICK u \in Seq(Items): u = NewAt(R, i) /\ Len(u) \in Nat
      BY <1>1
    <3>2. PICK x \in Items: x = s[i]
      BY <2>1
    <3>3. t[i] = u \o <<x>>
      BY <1>8, <2>1, <3>1, <3>2
    <3>4. /\ Len(u \o <<x>>) = Len(u) + 1
          /\ \A k \in 1 .. Len(u): (u \o <<x>>)[k] = u[k]
          /\ (u \o <<x>>)[Len(u) + 1] = x
      BY <3>1
    <3>5. QED
      BY <3>1, <3>2, <3>3, <3>4
  <2>2. QED
    BY <2>1
<1>10. \A i \in 1 .. n: \A k \in 1 .. Len(NewAt(R, i)):
         k \in 1 .. Len(t[i]) /\ t[i][k] = NewAt(R, i)[k]
  <2>1. ASSUME NEW i \in 1 .. n, NEW k \in 1 .. Len(NewAt(R, i))
        PROVE  k \in 1 .. Len(t[i]) /\ t[i][k] = NewAt(R, i)[k]
    <3>1. CASE i \notin DOMAIN s \/ Gone(R, i)
      BY <1>8, <3>1
    <3>2. CASE ~(i \notin DOMAIN s \/ Gone(R, i))
      <4>1. Len(t[i]) = Len(NewAt(R, i)) + 1 /\ Len(NewAt(R, i)) \in Nat
        BY <1>1, <1>9, <3>2
      <4>2. k \in 1 .. Len(t[i])
        BY <4>1
      <4>3. QED
        BY <1>9, <3>2, <4>2
    <3>3. QED
      BY <3>1, <3>2
  <2>2. QED
    BY <2>1
<1>11. \A i \in 1 .. n: \A k \in 1 .. Len(NewAt(R, i)): out[B[i - 1] + k] = NewAt(R, i)[k]
  BY <1>6, <1>10
<1>12. \A i \in 1 .. n: i \notin DOMAIN s \/ Gone(R, i) => B[i] = B[i - 1] + Len(NewAt(R, i))
  BY <1>6, <1>8
<1>13. \A i \in DOMAIN s: ~Gone(R, i) => B[i] = B[i - 1] + Len(NewAt(R, i)) + 1 /\ out[B[i]] = s[i]
  <2>1. ASSUME NEW i \in DOMAIN s, ~Gone(R, i)
        PROVE  B[i] = B[i - 1] + Len(NewAt(R, i)) + 1 /\ out[B[i]] = s[i]
    <3>1. i \in 1 .. n /\ i - 1 \in 0 .. n
      BY <1>0
    <3>2. PICK l \in Nat: l = Len(NewAt(R, i))
      BY <1>1, <3>1
    <3>3. B[i] = B[i - 1] + Len(t[i]) /\ Len(t[i]) = l + 1 /\ t[i][l + 1] = s[i] /\ B[i - 1] \in Nat
      BY <1>6, <1>9, <2>1, <3>1, <3>2
    <3>4. l + 1 \in 1 .. Len(t[i])
      BY <3>3
    <3>5. out[B[i - 1] + (l + 1)] = t[i][l + 1]
      BY <1>6, <3>1, <3>4
    <3>6. B[i] = B[i - 1] + (l + 1) /\ B[i] = B[i - 1] + l + 1
      BY <3>3, SMTT(30)
    <3>7. QED
      BY <3>2, <3>3, <3>5, <3>6
  <2>2. QED
    BY <2>1
<1>14. \A i \in 1 .. n: B[i - 1] + Len(NewAt(R, i)) <= B[i]
  <2>1. ASSUME NEW i \in 1 .. n PROVE B[i - 1] + Len(NewAt(R, i)) <= B[i]
    <3>1. i - 1 \in 0 .. n /\ i \in 0 .. n
      BY <1>0
    <3>2. B[i - 1] \in Nat /\ B[i] \in Nat /\ Len(NewAt(R, i)) \in Nat
      BY <1>1, <1>6, <3>1
    <3>3. B[i] = B[i - 1] + Len(NewAt(R, i)) \/ B[i] = B[i - 1] + Len(NewAt(R, i)) + 1
      BY <1>12, <1>13
    <3>4. QED
      BY <3>2, <3>3
  <2>2. QED
    BY <2>1
<1>15. \A i, j \in 0 .. n: i <= j => B[i] <= B[j]
  BY <1>4, <1>7, LaidInOrder
<1>16. \A p \in 1 .. Len(out):
         \/ \E i \in DOMAIN s: ~Gone(R, i) /\ p = B[i]
         \/ \E i \in 1 .. n: \E k \in 1 .. Len(NewAt(R, i)): p = B[i - 1] + k
  <2>1. ASSUME NEW p \in 1 .. Len(out)
        PROVE  \/ \E i \in DOMAIN s: ~Gone(R, i) /\ p = B[i]
               \/ \E i \in 1 .. n: \E k \in 1 .. Len(NewAt(R, i)): p = B[i - 1] + k
    <3>1. PICK i \in 1 .. n: \E k \in 1 .. Len(t[i]): p = B[i - 1] + k
      BY <1>4, <1>7, LaidFinds, SMTT(30)
    <3>2. PICK k \in 1 .. Len(t[i]): p = B[i - 1] + k
      BY <3>1
    <3>3. CASE k \in 1 .. Len(NewAt(R, i))
      BY <3>2, <3>3
    <3>4. CASE k \notin 1 .. Len(NewAt(R, i))
      <4>1. ~(i \notin DOMAIN s \/ Gone(R, i))
        <5>1. i \notin DOMAIN s \/ Gone(R, i) => t[i] = NewAt(R, i)
          BY <1>8
        <5>2. QED
          BY <3>4, <5>1
      <4>2. Len(t[i]) = Len(NewAt(R, i)) + 1 /\ Len(NewAt(R, i)) \in Nat
        BY <1>1, <1>9, <4>1
      <4>3. k = Len(NewAt(R, i)) + 1
        BY <3>4, <4>2
      <4>4. B[i] = B[i - 1] + Len(NewAt(R, i)) + 1 /\ B[i - 1] \in Nat
        <5>1. i - 1 \in 0 .. n
          BY <1>0
        <5>2. QED
          BY <1>6, <1>13, <4>1, <5>1
      <4>5. p = B[i]
        BY <3>2, <4>2, <4>3, <4>4, SMTT(30)
      <4>6. QED
        BY <4>1, <4>5
    <3>5. QED
      BY <3>3, <3>4
  <2>2. QED
    BY <2>1
<1>17. Placed(s, R, n, B, out)
  BY <1>0, <1>5, <1>6, <1>11, <1>12, <1>13, <1>14, <1>15, <1>16 DEF Placed
<1>18. QED
  BY <1>17 DEF out

-------------------------------------------------------------------------------
(* Along the document *)

Inside(R, i) == \E r \in R: r.first <= i /\ i < r.last

(* What holds before a region and then behind it, and before an item that  *)
(* stays and then behind it, holds at the end if it holds at the start.    *)
LEMMA Walk ==
  ASSUME NEW s \in Seq(Items), NEW R, Fit(s, R), NEW T, 0 \in T,
         \A r \in R: r.first <= r.last /\ r.first - 1 \in T => r.last \in T,
         \A i \in 1 .. Len(s): i - 1 \in T /\ ~Gone(R, i) => i \in T
  PROVE  /\ Len(s) \in T
         /\ \A i \in 0 .. Len(s): ~Inside(R, i) => i \in T
<1> DEFINE U == {i \in 0 .. Len(s): ~Inside(R, i) /\ i \notin T}
<1>0. /\ Len(s) \in Nat
      /\ \A r \in R: /\ r.first \in Nat /\ r.last \in Nat
                     /\ 1 <= r.first /\ r.first <= r.last + 1 /\ r.last <= Len(s)
      /\ \A q, r \in R: q # r => q.last < r.first \/ r.last < q.first
  BY DEF Fit, Disjoint
<1>1. ASSUME U # {} PROVE FALSE
  <2>1. U \in SUBSET Nat
    OBVIOUS
  <2>2. PICK i \in U: \A u \in U: i <= u
    BY <1>1, <2>1, FirstExists
  <2>3. i \in 0 .. Len(s) /\ i # 0 /\ ~Inside(R, i) /\ i \notin T /\ i \in Nat /\ i \in 1 .. Len(s)
    BY <2>2
  <2>4. CASE \E r \in R: r.last = i /\ r.first <= i
    <3>1. PICK r \in R: r.last = i /\ r.first <= i
      BY <2>4
    <3>2. PICK f \in Nat: f = r.first - 1 /\ f < i /\ f \in 0 .. Len(s)
      BY <1>0, <2>3, <3>1
    <3>3. ~Inside(R, f)
      <4>1. ASSUME NEW q \in R, q.first <= f, f < q.last PROVE FALSE
        <5>1. q # r
          BY <1>0, <3>2, <4>1
        <5>2. q.last < r.first \/ r.last < q.first
          BY <1>0, <5>1
        <5>3. QED
          BY <1>0, <3>1, <3>2, <4>1, <5>2
      <4>2. QED
        BY <4>1 DEF Inside
    <3>4. f \notin U
      <4>1. ~(i <= f)
        BY <2>3, <3>2
      <4>2. QED
        BY <2>2, <4>1, Zenon
    <3>5. f \in T
      BY <3>2, <3>3, <3>4
    <3>6. r.last \in T
      BY <3>1, <3>2, <3>5
    <3>7. QED
      BY <2>3, <3>1, <3>6
  <2>5. CASE ~\E r \in R: r.last = i /\ r.first <= i
    <3>1. ~Gone(R, i)
      <4>1. ASSUME NEW r \in R, i \in r.first .. r.last PROVE FALSE
        <5>1. r.first <= i /\ i <= r.last /\ r.last # i
          BY <1>0, <2>5, <4>1
        <5>2. i < r.last
          BY <1>0, <2>3, <5>1
        <5>3. QED
          BY <2>3, <5>1, <5>2 DEF Inside
      <4>2. QED
        BY <4>1 DEF Gone
    <3>2. PICK j \in Nat: j = i - 1 /\ j \in 0 .. Len(s) /\ ~(i <= j)
      BY <2>3
    <3>3. ~Inside(R, j)
      <4>1. ASSUME NEW r \in R, r.first <= j, j < r.last PROVE FALSE
        <5>1. r.first <= i /\ i <= r.last
          BY <1>0, <2>3, <3>2, <4>1
        <5>2. i \in r.first .. r.last
          BY <1>0, <2>3, <5>1
        <5>3. QED
          BY <3>1, <5>2 DEF Gone
      <4>2. QED
        BY <4>1 DEF Inside
    <3>4. j \notin U
      BY <2>2, <3>2, Zenon
    <3>5. j \in T
      BY <3>2, <3>3, <3>4
    <3>6. i \in T
      BY <2>3, <3>1, <3>2, <3>5
    <3>7. QED
      BY <2>3, <3>6
  <2>6. QED
    BY <2>4, <2>5
<1>2. \A i \in 0 .. Len(s): ~Inside(R, i) => i \in T
  BY <1>1
<1>3. Len(s) \in 0 .. Len(s) /\ ~Inside(R, Len(s))
  BY <1>0 DEF Inside
<1>4. QED
  BY <1>2, <1>3

(* A region that replaces items has nothing else start in it, and ends     *)
(* where its new items end.                                                *)
LEMMA Stretch ==
  ASSUME NEW s \in Seq(Items), NEW R, Fit(s, R), NEW r \in R, r.first <= r.last
  PROVE  /\ \A k \in r.first .. r.last: Gone(R, k) /\ k \in DOMAIN s
         /\ \A k \in r.first + 1 .. r.last: \A q \in R: q.first # k
<1>0. /\ Len(s) \in Nat /\ DOMAIN s = 1 .. Len(s)
      /\ \A q \in R: /\ q.first \in Nat /\ q.last \in Nat
                     /\ 1 <= q.first /\ q.first <= q.last + 1 /\ q.last <= Len(s)
      /\ \A q \in R: q # r => q.last < r.first \/ r.last < q.first
  BY DEF Fit, Disjoint
<1>1. \A k \in r.first .. r.last: Gone(R, k) /\ k \in DOMAIN s
  BY <1>0 DEF Gone
<1>2. ASSUME NEW k \in r.first + 1 .. r.last, NEW q \in R, q.first = k PROVE FALSE
  <2>1. q # r
    BY <1>0, <1>2
  <2>2. q.last < r.first \/ r.last < q.first
    BY <1>0, <2>1
  <2>3. QED
    BY <1>0, <1>2, <2>2
<1>3. QED
  BY <1>1, <1>2

(* Within a region that replaces items, all positions end where it ends.   *)
LEMMA StretchEnds ==
  ASSUME NEW s \in Seq(Items), NEW R, Fit(s, R), NEW r \in R, r.first <= r.last,
         NEW n, NEW B, NEW out, Placed(s, R, n, B, out), NEW k \in r.first .. r.last
  PROVE  B[k] = B[r.first - 1] + Len(r.new)
<1>0. /\ r.first \in Nat /\ r.last \in Nat /\ 1 <= r.first /\ r.last <= Len(s) /\ Len(s) \in Nat
      /\ n = Len(s) + 1 /\ DOMAIN s = 1 .. Len(s)
  BY DEF Fit, Placed
<1>1. \A i \in 1 .. n: i \notin DOMAIN s \/ Gone(R, i) => B[i] = B[i - 1] + Len(NewAt(R, i))
  BY DEF Placed
<1>2. /\ \A i \in r.first .. r.last: Gone(R, i) /\ i \in 1 .. n
      /\ \A i \in r.first + 1 .. r.last: \A q \in R: q.first # i
  <2>1. /\ \A i \in r.first .. r.last: Gone(R, i) /\ i \in DOMAIN s
        /\ \A i \in r.first + 1 .. r.last: \A q \in R: q.first # i
    BY Stretch
  <2>2. QED
    BY <1>0, <2>1
<1>3. /\ B \in [0 .. n -> Nat]
      /\ \A i \in r.first + 1 .. r.last: Len(NewAt(R, i)) = 0
      /\ NewAt(R, r.first) = r.new
  <2>1. B \in [0 .. n -> Nat]
    BY DEF Placed
  <2>2. \A i \in r.first + 1 .. r.last: NewAt(R, i) = << >>
    BY <1>2, NewHere
  <2>3. NewAt(R, r.first) = r.new
    BY NewHere
  <2>4. QED
    BY <2>1, <2>2, <2>3
<1> DEFINE T == {i \in r.first .. r.last: B[i] # B[r.first - 1] + Len(r.new)}
<1>4. ASSUME T # {} PROVE FALSE
  <2>1. T \in SUBSET Nat
    BY <1>0
  <2>2. PICK i \in T: \A u \in T: i <= u
    BY <1>4, <2>1, FirstExists
  <2>3. i \in r.first .. r.last /\ i \in Nat
    BY <1>0, <2>2
  <2>4. B[i] = B[i - 1] + Len(NewAt(R, i))
    BY <1>1, <1>2, <2>3
  <2>5. i # r.first
    BY <1>3, <2>2, <2>4
  <2>6. PICK j \in Nat: j = i - 1 /\ j \in r.first .. r.last /\ ~(i <= j) /\ i \in r.first + 1 .. r.last
    BY <1>0, <2>3, <2>5
  <2>7. j \notin T
    BY <2>2, <2>6, Zenon
  <2>8. B[j] = B[r.first - 1] + Len(r.new)
    BY <2>6, <2>7
  <2>9. B[i] = B[j]
    <3>1. B[j] \in Nat
      <4>1. j \in 0 .. n
        BY <1>0, <2>6
      <4>2. QED
        BY <1>3, <4>1
    <3>2. QED
      BY <1>3, <2>4, <2>6, <3>1
  <2>10. QED
    BY <2>2, <2>8, <2>9
<1>5. QED
  BY <1>4

(* A region that starts at an item that stays inserts before it. *)
LEMMA Inserted ==
  ASSUME NEW s, NEW R, Fit(s, R), NEW i \in Nat, ~Gone(R, i), NEW r \in R, r.first = i
  PROVE  r.last = i - 1
<1>1. r.first \in Nat /\ r.last \in Nat /\ r.first <= r.last + 1
  BY DEF Fit
<1>2. ~(i \in r.first .. r.last)
  BY DEF Gone
<1>3. QED
  BY <1>1, <1>2

-------------------------------------------------------------------------------
(* The length of the result *)

(* The lengths of the items from b + 1 on add up to that of the text there. *)
LEMMA LengthFrom ==
  ASSUME NEW s \in Seq(Items), NEW x \in Seq(Items), NEW b \in Nat, b + Len(x) <= Len(s),
         \A k \in 1 .. Len(x): s[b + k] = x[k]
  PROVE  /\ SumTo(Lens(s), b + Len(x)) = SumTo(Lens(s), b) + TotalLen(x)
         /\ SumTo(Lens(s), b) \in Int /\ TotalLen(x) \in Int
<1>1. PICK m \in Nat: m = Len(x)
  OBVIOUS
<1>2. PICK n \in Nat: n = Len(s) /\ b + m <= n
  BY <1>1
<1>3. PICK v: v = Lens(s)
  OBVIOUS
<1>4. PICK w: w = Lens(x)
  OBVIOUS
<1>5. \A y \in Items: y.len \in Int
  BY DEF Items
<1>6. \A i \in 1 .. n: s[i] \in Items /\ v[i] = s[i].len
  BY <1>2, <1>3 DEF Lens
<1>7. \A i \in 1 .. m: x[i] \in Items /\ w[i] = x[i].len
  BY <1>1, <1>4 DEF Lens
<1>8. \A i \in 1 .. b: v[i] \in Int
  <2>1. \A i \in 1 .. b: i \in 1 .. n
    BY <1>2
  <2>2. QED
    BY <1>5, <1>6, <2>1
<1>9. \A i \in 1 .. m: w[i] \in Int
  BY <1>5, <1>7
<1>10. \A i \in 1 .. m: v[b + i] = w[i]
  <2>1. \A i \in 1 .. m: b + i \in 1 .. n
    BY <1>2
  <2>2. \A i \in 1 .. m: s[b + i] = x[i]
    BY <1>1
  <2>3. QED
    BY <1>6, <1>7, <2>1, <2>2
<1>11. TotalLen(x) = SumTo(w, m)
  BY <1>1, <1>4, TotalIsSum
<1>12. SumTo(v, b) \in Int
  BY <1>8, SumType
<1>13. SumTo(w, m) \in Int
  BY <1>9, SumType
<1>14. SumTo(v, b + m) = SumTo(v, b) + SumTo(w, m)
  <2>1. PICK c: c = b + m
    OBVIOUS
  <2>2. SumTo(v, c) = SumTo(v, b) + SumTo(w, m)
    <3>1. Shifted(v, w, b, m)
      BY <1>8, <1>9, <1>10 DEF Shifted
    <3>2. QED
      BY <2>1, <3>1, SumShift
  <2>3. QED
    BY <2>1, <2>2
<1>15. QED
  BY <1>1, <1>3, <1>11, <1>12, <1>13, <1>14

(* The items of a part of the header add up to what it adds to the sum.    *)
LEMMA LengthOfPart ==
  ASSUME NEW s \in Seq(Items), NEW f \in Nat, NEW l \in Nat, 1 <= f, f <= l + 1, l <= Len(s)
  PROVE  /\ SumTo(Lens(s), l) = SumTo(Lens(s), f - 1) + TotalLen(SubSeq(s, f, l))
         /\ SumTo(Lens(s), f - 1) \in Int /\ TotalLen(SubSeq(s, f, l)) \in Int
<1>1. PICK b \in Nat: b = f - 1
  OBVIOUS
<1>2. PICK x: x = SubSeq(s, f, l)
  OBVIOUS
<1>3. x \in Seq(Items) /\ Len(x) = l - b /\ \A k \in 1 .. Len(x): x[k] = s[b + k]
  <2>1. \A i \in f .. l: i \in 1 .. Len(s)
    OBVIOUS
  <2>2. \A i \in f .. l: s[i] \in Items
    BY <2>1
  <2>3. f \in Int /\ l \in Int
    OBVIOUS
  <2>4. /\ x \in Seq(Items)
        /\ Len(x) = IF f <= l THEN l - f + 1 ELSE 0
        /\ \A i \in 1 .. l - f + 1: x[i] = s[f + i - 1]
    BY <1>2, <2>2, <2>3, SubSeqProperties
  <2>5. Len(x) = l - b /\ l - f + 1 = l - b
    BY <1>1, <2>4
  <2>6. \A i \in 1 .. Len(x): f + i - 1 = b + i
    BY <1>1, <2>5
  <2>7. QED
    BY <2>4, <2>5, <2>6
<1>4. b + Len(x) = l /\ l <= Len(s)
  BY <1>3
<1>5. SumTo(Lens(s), b + Len(x)) = SumTo(Lens(s), b) + TotalLen(x)
      /\ SumTo(Lens(s), b) \in Int /\ TotalLen(x) \in Int
  <2>1. b + Len(x) <= Len(s)
    BY <1>4
  <2>2. \A k \in 1 .. Len(x): s[b + k] = x[k]
    BY <1>3
  <2>3. QED
    BY <1>3, <2>1, <2>2, LengthFrom
<1>6. QED
  BY <1>1, <1>2, <1>4, <1>5

(* What a region changes the length by. *)
LEMMA DeltaHere ==
  ASSUME NEW s \in Seq(Items), NEW R, Fit(s, R), NEW i
  PROVE  /\ \A r \in R: r.first = i => DeltaAt(s, R, i) = Delta(s, r)
         /\ (\A r \in R: r.first # i) => DeltaAt(s, R, i) = 0
         /\ DeltaAt(s, R, i) \in Int
<1>1. ASSUME NEW r \in R, r.first = i PROVE DeltaAt(s, R, i) = Delta(s, r)
  <2>1. StartingAt(R, i) = {r}
    BY <1>1, NewHere
  <2>2. (CHOOSE q \in {r}: TRUE) = r
    OBVIOUS
  <2>3. QED
    BY <2>1, <2>2, Zenon DEF DeltaAt
<1>2. ASSUME \A r \in R: r.first # i PROVE DeltaAt(s, R, i) = 0
  <2>1. StartingAt(R, i) = {}
    BY <1>2, NewHere
  <2>2. QED
    BY <2>1 DEF DeltaAt
<1>3. \A r \in R: Delta(s, r) \in Int
  <2>1. ASSUME NEW r \in R PROVE Delta(s, r) \in Int
    <3>1. /\ r.first \in Nat /\ r.last \in Nat /\ r.new \in Seq(Items)
          /\ 1 <= r.first /\ r.first <= r.last + 1 /\ r.last <= Len(s)
      BY DEF Fit
    <3>2. TotalLen(SubSeq(s, r.first, r.last)) \in Int
      BY <3>1, LengthOfPart
    <3>3. TotalLen(r.new) \in Int
      <4>1. PICK x \in Seq(Items): x = r.new
        BY <3>1
      <4>2. 0 + Len(x) <= Len(x) /\ \A k \in 1 .. Len(x): x[0 + k] = x[k]
        OBVIOUS
      <4>3. TotalLen(x) \in Int
        BY <4>2, LengthFrom
      <4>4. QED
        BY <4>1, <4>3
    <3>4. QED
      BY <3>2, <3>3 DEF Delta
  <2>2. QED
    BY <2>1
<1>4. DeltaAt(s, R, i) \in Int
  <2>1. CASE \E r \in R: r.first = i
    BY <1>1, <1>3, <2>1
  <2>2. CASE \A r \in R: r.first # i
    BY <1>2, <2>2
  <2>3. QED
    BY <2>1, <2>2
<1>5. QED
  BY <1>1, <1>2, <1>4

(* The result of a splice is as long as the changes say. *)
LEMMA SpliceLength ==
  ASSUME NEW s \in Seq(Items), NEW R, Fit(s, R)
  PROVE  /\ TotalLen(Splice(s, R)) = TotalLen(s) + DeltaOf(s, R)
         /\ TotalLen(s) \in Int /\ DeltaOf(s, R) \in Int
<1>0. PICK n \in Nat: n = Len(s) + 1
  OBVIOUS
<1>1. PICK out: out = Splice(s, R)
  OBVIOUS
<1>2. PICK B: Placed(s, R, n, B, out)
  BY <1>0, <1>1, SplicePlaced
<1> DEFINE d == [i \in 1 .. n |-> DeltaAt(s, R, i)]
           V(i) == SumTo(Lens(out), B[i])
           W(i) == SumTo(Lens(s), i)
           D(i) == SumTo(d, i)
           T == {i \in 0 .. Len(s): V(i) = W(i) + D(i)}
<1>3. /\ out \in Seq(Items) /\ Len(out) \in Nat /\ Len(s) \in Nat /\ DOMAIN s = 1 .. Len(s)
      /\ B \in [0 .. n -> Nat] /\ B[0] = 0 /\ Len(out) = B[n]
      /\ \A i, j \in 0 .. n: i <= j => B[i] <= B[j]
  <2>1. out \in Seq(Items) /\ B \in [0 .. n -> Nat] /\ B[0] = 0 /\ Len(out) = B[n]
        /\ \A i, j \in 0 .. n: i <= j => B[i] <= B[j]
    BY <1>2 DEF Placed
  <2>2. QED
    BY <2>1
<1>4. \A i \in 1 .. n: d[i] = DeltaAt(s, R, i) /\ d[i] \in Int
  <2>1. \A i: DeltaAt(s, R, i) \in Int
    BY DeltaHere
  <2>2. QED
    BY <2>1
<1>5. \A i \in 0 .. n: D(i) \in Int
  <2>1. ASSUME NEW i \in 0 .. n PROVE D(i) \in Int
    <3>1. i \in Nat /\ \A k \in 1 .. i: k \in 1 .. n
      BY <1>0
    <3> HIDE DEF d
    <3>2. QED
      BY <1>4, <3>1, SumType
  <2>2. QED
    BY <2>1
<1>6. \A i \in 1 .. n: D(i) = D(i - 1) + DeltaAt(s, R, i) /\ D(i - 1) \in Int
  <2>1. ASSUME NEW i \in 1 .. n PROVE D(i) = D(i - 1) + DeltaAt(s, R, i) /\ D(i - 1) \in Int
    <3>1. i \in Nat /\ i # 0 /\ i - 1 \in 0 .. n
      BY <1>0
    <3>2. SumTo(d, i) = SumTo(d, i - 1) + d[i]
      <4> HIDE DEF d
      <4>1. QED
        BY <3>1, SumSteps
    <3>3. QED
      BY <1>4, <1>5, <3>1, <3>2
  <2>2. QED
    BY <2>1
<1>7. ASSUME NEW i \in 1 .. n
      PROVE  /\ SumTo(Lens(out), B[i - 1] + Len(NewAt(R, i))) = V(i - 1) + TotalLen(NewAt(R, i))
             /\ V(i - 1) \in Int /\ TotalLen(NewAt(R, i)) \in Int
  <2>1. i - 1 \in 0 .. n /\ i \in 0 .. n /\ n \in 0 .. n
    BY <1>0
  <2>2. PICK b \in Nat: b = B[i - 1]
    BY <1>3, <2>1
  <2>3. PICK x \in Seq(Items): x = NewAt(R, i)
    BY NewType
  <2>4. b + Len(x) <= B[i] /\ \A k \in 1 .. Len(x): out[b + k] = x[k]
    BY <1>2, <2>2, <2>3 DEF Placed
  <2>5. B[i] \in Nat /\ B[i] <= Len(out)
    BY <1>0, <1>3, <2>1, SMTT(30)
  <2>6. b + Len(x) <= Len(out)
    BY <1>3, <2>4, <2>5
  <2>7. /\ SumTo(Lens(out), b + Len(x)) = SumTo(Lens(out), b) + TotalLen(x)
        /\ SumTo(Lens(out), b) \in Int /\ TotalLen(x) \in Int
    BY <1>3, <2>4, <2>6, LengthFrom
  <2>8. QED
    BY <2>2, <2>3, <2>7
<1>8. \A x: x \in Seq(Items) => x.len = x.len
  OBVIOUS
<1>9. 0 \in T
  <2>1. SumTo(Lens(out), 0) = 0 /\ SumTo(Lens(s), 0) = 0 /\ SumTo(d, 0) = 0
    <3> HIDE DEF d
    <3>1. QED
      BY SumSteps
  <2>2. V(0) = 0 /\ W(0) = 0 /\ D(0) = 0
    BY <1>3, <2>1
  <2> HIDE DEF V, W, D
  <2>3. QED
    BY <1>3, <2>2
<1>10. ASSUME NEW r \in R, r.first <= r.last, r.first - 1 \in T PROVE r.last \in T
  <2>1. /\ r.first \in Nat /\ r.last \in Nat /\ r.new \in Seq(Items)
        /\ 1 <= r.first /\ r.last <= Len(s)
    BY DEF Fit
  <2>2. PICK f, l \in Nat: f = r.first /\ l = r.last /\ 1 <= f /\ f <= l /\ l <= Len(s) /\ f <= l + 1
    BY <1>10, <2>1
  <2>3. f \in 1 .. n /\ l \in 1 .. n /\ f - 1 \in 0 .. n /\ l \in f .. l
    BY <1>0, <2>2
  <2>4. W(l) = W(f - 1) + TotalLen(SubSeq(s, f, l)) /\ W(f - 1) \in Int /\ TotalLen(SubSeq(s, f, l)) \in Int
    BY <2>2, LengthOfPart
  <2>5. NewAt(R, f) = r.new /\ DeltaAt(s, R, f) = TotalLen(r.new) - TotalLen(SubSeq(s, f, l))
    <3>1. NewAt(R, f) = r.new
      BY <2>2, NewHere
    <3>2. DeltaAt(s, R, f) = Delta(s, r)
      BY <2>2, DeltaHere
    <3>3. QED
      BY <2>2, <3>1, <3>2 DEF Delta
  <2>6. B[l] = B[f - 1] + Len(r.new)
    BY <1>2, <1>10, <2>2, <2>3, StretchEnds
  <2>7. V(l) = V(f - 1) + TotalLen(r.new) /\ V(f - 1) \in Int /\ TotalLen(r.new) \in Int
    BY <1>7, <2>3, <2>5, <2>6
  <2>8. D(f) = D(f - 1) + DeltaAt(s, R, f) /\ D(f - 1) \in Int
    BY <1>6, <2>3
  <2>9. D(l) = D(f)
    <3> DEFINE U == {k \in f .. l: D(k) # D(f)}
    <3>1. ASSUME U # {} PROVE FALSE
      <4>1. U \in SUBSET Nat
        OBVIOUS
      <4>2. PICK k \in U: \A u \in U: k <= u
        BY <3>1, <4>1, FirstExists
      <4>3. k \in f .. l /\ k # f
        BY <4>2
      <4>4. PICK j \in Nat: j = k - 1 /\ j \in f .. l /\ ~(k <= j) /\ k \in f + 1 .. l /\ k \in 1 .. n
        BY <2>2, <2>3, <4>3
      <4>5. j \notin U
        BY <4>2, <4>4, Zenon
      <4>6. D(j) = D(f)
        <5> HIDE DEF D
        <5>1. QED
          BY <4>4, <4>5
      <4>7. \A q \in R: q.first # k
        BY <1>10, <2>2, <4>4, Stretch
      <4>8. DeltaAt(s, R, k) = 0
        BY <4>7, DeltaHere
      <4>9. D(k) = D(j) + 0 /\ D(j) \in Int
        BY <1>6, <4>4, <4>8
      <4>10. D(k) = D(f)
        BY <4>6, <4>9
      <4>11. QED
        BY <4>2, <4>10
    <3>2. l \in f .. l
      BY <2>2
    <3>3. QED
      BY <3>1, <3>2
  <2>10. V(f - 1) = W(f - 1) + D(f - 1)
    BY <1>10, <2>2
  <2> HIDE DEF V, W, D
  <2>11. V(l) = W(l) + D(l)
    BY <2>4, <2>5, <2>7, <2>8, <2>9, <2>10
  <2>12. QED
    BY <2>2, <2>11
<1>11. ASSUME NEW i \in 1 .. Len(s), i - 1 \in T, ~Gone(R, i) PROVE i \in T
  <2>1. i \in 1 .. n /\ i \in Nat /\ i # 0
    BY <1>0, <1>3
  <2>2. W(i) = W(i - 1) + s[i].len /\ s[i].len \in Int /\ W(i - 1) \in Int
    <3>1. SumTo(Lens(s), i) = SumTo(Lens(s), i - 1) + Lens(s)[i]
      BY <2>1, SumSteps
    <3>2. Lens(s)[i] = s[i].len
      BY DEF Lens
    <3>3. s[i] \in Items
      OBVIOUS
    <3>4. s[i].len \in Int
      BY <3>3 DEF Items
    <3>5. 1 <= i /\ i <= Len(s) /\ i <= i + 1
      BY <1>3
    <3>6. W(i - 1) \in Int
      BY <2>1, <3>5, LengthOfPart
    <3>7. QED
      BY <3>1, <3>2, <3>4, <3>6
  <2>3. PICK x \in Seq(Items): x = NewAt(R, i)
    BY NewType
  <2>4. PICK c \in Nat: c = B[i - 1] + Len(x)
    <3>1. i - 1 \in 0 .. n
      BY <2>1
    <3>2. QED
      BY <1>3, <3>1
  <2>5. B[i] = c + 1 /\ out[c + 1] = s[i]
    <3>1. B[i] = B[i - 1] + Len(NewAt(R, i)) + 1 /\ out[B[i]] = s[i]
      BY <1>2, <1>3, <1>11 DEF Placed
    <3>2. QED
      BY <2>3, <2>4, <3>1
  <2>6. V(i) = SumTo(Lens(out), c) + s[i].len
    <3>1. PICK e \in Nat: e = c + 1 /\ e # 0 /\ e - 1 = c /\ e = B[i]
      BY <2>5
    <3>2. SumTo(Lens(out), e) = SumTo(Lens(out), e - 1) + Lens(out)[e]
      BY <3>1, SumSteps
    <3>3. e \in 1 .. Len(out)
      <4>1. B[i] <= B[n]
        BY <1>0, <1>3, <2>1
      <4>2. QED
        BY <1>3, <3>1, <4>1
    <3>4. Lens(out)[e] = s[i].len
      BY <2>5, <3>1, <3>3 DEF Lens
    <3>5. QED
      BY <3>1, <3>2, <3>4
  <2>7. SumTo(Lens(out), c) = V(i - 1) + TotalLen(x) /\ V(i - 1) \in Int /\ TotalLen(x) \in Int
    BY <1>7, <2>1, <2>3, <2>4
  <2>8. D(i) = D(i - 1) + DeltaAt(s, R, i) /\ D(i - 1) \in Int
    BY <1>6, <2>1
  <2>9. DeltaAt(s, R, i) = TotalLen(x)
    <3>1. CASE \E r \in R: r.first = i
      <4>1. PICK r \in R: r.first = i
        BY <3>1
      <4>2. r.last = i - 1
        BY <1>11, <2>1, <4>1, Inserted
      <4>3. DeltaAt(s, R, i) = Delta(s, r) /\ NewAt(R, i) = r.new
        BY <4>1, DeltaHere, NewHere
      <4>4. SubSeq(s, i, i - 1) = << >>
        BY <2>1, SubSeqEmpty
      <4>5. TotalLen(<< >>) = 0
        <5>1. Len(<< >>) = 0 /\ TotalLen(<< >>) = SumTo(Lens(<< >>), Len(<< >>))
          BY TotalIsSum
        <5>2. SumTo(Lens(<< >>), 0) = 0
          BY SumSteps
        <5>3. QED
          BY <5>1, <5>2
      <4>6. Delta(s, r) = TotalLen(x) - TotalLen(<< >>)
        <5>1. Delta(s, r) = TotalLen(r.new) - TotalLen(SubSeq(s, r.first, r.last))
          BY DEF Delta
        <5>2. r.new = x
          BY <2>3, <4>3
        <5>3. SubSeq(s, r.first, r.last) = << >>
          BY <4>1, <4>2, <4>4, Zenon
        <5>4. QED
          BY <5>1, <5>2, <5>3, Zenon
      <4>7. QED
        BY <2>7, <4>3, <4>5, <4>6
    <3>2. CASE \A r \in R: r.first # i
      <4>1. DeltaAt(s, R, i) = 0 /\ x = << >>
        BY <2>3, <3>2, DeltaHere, NewHere
      <4>2. TotalLen(<< >>) = 0
        <5>1. Len(<< >>) = 0 /\ TotalLen(<< >>) = SumTo(Lens(<< >>), Len(<< >>))
          BY TotalIsSum
        <5>2. SumTo(Lens(<< >>), 0) = 0
          BY SumSteps
        <5>3. QED
          BY <5>1, <5>2
      <4>3. QED
        BY <4>1, <4>2
    <3>3. QED
      BY <3>1, <3>2
  <2>10. V(i - 1) = W(i - 1) + D(i - 1)
    BY <1>11
  <2> HIDE DEF V, W, D
  <2>11. V(i) = W(i) + D(i)
    BY <2>2, <2>6, <2>7, <2>8, <2>9, <2>10
  <2>12. QED
    BY <1>3, <2>11
<1>12. Len(s) \in T
  <2> HIDE DEF T
  <2>1. QED
    BY <1>9, <1>10, <1>11, Walk
<1>13. V(n) = V(n - 1) + DeltaAt(s, R, n) /\ V(n - 1) \in Int
  <2>1. n \in 1 .. n /\ n \notin DOMAIN s /\ ~Gone(R, n)
    <3>1. \A r \in R: r.last \in Nat /\ r.last <= Len(s) /\ r.first \in Nat
      BY DEF Fit
    <3>2. QED
      BY <1>0, <1>3, <3>1 DEF Gone
  <2>2. B[n] = B[n - 1] + Len(NewAt(R, n))
    BY <1>2, <2>1 DEF Placed
  <2>3. V(n) = V(n - 1) + TotalLen(NewAt(R, n)) /\ V(n - 1) \in Int /\ TotalLen(NewAt(R, n)) \in Int
    BY <1>7, <2>1, <2>2
  <2>4. TotalLen(<< >>) = 0
    <3>1. Len(<< >>) = 0 /\ TotalLen(<< >>) = SumTo(Lens(<< >>), Len(<< >>))
      BY TotalIsSum
    <3>2. SumTo(Lens(<< >>), 0) = 0
      BY SumSteps
    <3>3. QED
      BY <3>1, <3>2
  <2>5. DeltaAt(s, R, n) = TotalLen(NewAt(R, n))
    <3>1. CASE \E r \in R: r.first = n
      <4>1. PICK r \in R: r.first = n
        BY <3>1
      <4>2. r.last = n - 1
        BY <2>1, <4>1, Inserted
      <4>3. DeltaAt(s, R, n) = Delta(s, r) /\ NewAt(R, n) = r.new
        BY <4>1, DeltaHere, NewHere
      <4>4. SubSeq(s, n, n - 1) = << >>
        BY SubSeqEmpty
      <4>6. Delta(s, r) = TotalLen(NewAt(R, n)) - TotalLen(<< >>)
        <5>1. Delta(s, r) = TotalLen(r.new) - TotalLen(SubSeq(s, r.first, r.last))
          BY DEF Delta
        <5>2. SubSeq(s, r.first, r.last) = << >>
          BY <4>1, <4>2, <4>4, Zenon
        <5>3. QED
          BY <4>3, <5>1, <5>2, Zenon
      <4>7. QED
        BY <2>3, <2>4, <4>3, <4>6
    <3>2. CASE \A r \in R: r.first # n
      <4>1. DeltaAt(s, R, n) = 0 /\ NewAt(R, n) = << >>
        BY <3>2, DeltaHere, NewHere
      <4>3. QED
        BY <2>4, <4>1
    <3>3. QED
      BY <3>1, <3>2
  <2> HIDE DEF V
  <2>6. QED
    BY <2>3, <2>5
<1>14. n - 1 = Len(s) /\ n \in 1 .. n /\ n \in 0 .. n /\ Len(s) \in 0 .. n
  BY <1>0, <1>3
<1>15. V(n) = W(Len(s)) + D(n)
  <2>1. V(Len(s)) = W(Len(s)) + D(Len(s))
    BY <1>12
  <2>2. D(n) = D(n - 1) + DeltaAt(s, R, n) /\ D(n - 1) \in Int
    BY <1>6, <1>14
  <2>3. W(Len(s)) \in Int /\ DeltaAt(s, R, n) \in Int
    <3>1. DeltaAt(s, R, n) \in Int
      BY DeltaHere
    <3>2. 0 + Len(s) <= Len(s) /\ \A k \in 1 .. Len(s): s[0 + k] = s[k]
      BY <1>3
    <3>3. TotalLen(s) \in Int
      BY <3>2, LengthFrom
    <3>4. TotalLen(s) = W(Len(s))
      BY <1>3, TotalIsSum
    <3>5. QED
      BY <3>1, <3>3, <3>4
  <2> HIDE DEF V, W, D
  <2>4. QED
    BY <1>13, <1>14, <2>1, <2>2, <2>3
<1>16. TotalLen(s) = W(Len(s)) /\ TotalLen(out) = V(n) /\ DeltaOf(s, R) = D(n)
  <2>1. TotalLen(s) = W(Len(s)) /\ TotalLen(out) = SumTo(Lens(out), Len(out))
    BY <1>3, TotalIsSum
  <2>2. DeltaOf(s, R) = D(n)
    BY <1>0, <1>3, DeltaIsSum
  <2>3. QED
    BY <1>3, <2>1, <2>2
<1>17. TotalLen(s) \in Int /\ DeltaOf(s, R) \in Int
  <2>1. 0 + Len(s) <= Len(s) /\ \A k \in 1 .. Len(s): s[0 + k] = s[k]
    BY <1>3
  <2>2. TotalLen(s) \in Int
    BY <2>1, LengthFrom
  <2>3. D(n) \in Int
    BY <1>5, <1>14
  <2>4. QED
    BY <1>16, <2>2, <2>3
<1>18. QED
  BY <1>1, <1>15, <1>16, <1>17

-------------------------------------------------------------------------------
(* Items *)

(* Any number is printed with some digits, any value rendered with some    *)
(* bytes and read as some value.                                           *)
Printed ==
  /\ \A n \in Int: Digits(n) \in Nat
  /\ \A kind, val: RenderedLen(kind, val) \in Nat
  /\ \A name, val \in Strings: KeywordReadBack(name, val) \in Strings
  /\ \A val \in Strings: PropertyReadBack(val) \in Strings

(* What the crate writes is a string like any other. *)
LEMMA Written ==
  /\ "text" \in Strings /\ "indent" \in Strings /\ "location" \in Strings
  /\ "keyword" \in Strings /\ "property" \in Strings /\ "source" \in Strings /\ "rendered" \in Strings
BY Zenon DEF Strings
(* So is what is empty. *)
LEMMA EmptyWritten == "" \in Strings
BY Zenon DEF Strings

(* The fields of an item. *)
LEMMA ItemFields ==
  ASSUME NEW k, NEW i, NEW v, NEW f, NEW n
  PROVE  /\ Item(k, i, v, f, n).kind = k /\ Item(k, i, v, f, n).id = i
         /\ Item(k, i, v, f, n).val = v
         /\ k \in Strings /\ i \in Strings /\ v \in Strings /\ f \in Strings /\ n \in Nat
              => Item(k, i, v, f, n) \in Items
BY DEF Item, Items

(* The fields of an item, and that such a record is one.                   *)
LEMMA RecordFields ==
  ASSUME NEW k, NEW i, NEW v, NEW f, NEW n, NEW o, NEW z, NEW r,
         r = [kind |-> k, id |-> i, val |-> v, fmt |-> f, len |-> n, off |-> o, size |-> z]
  PROVE  /\ r.kind = k /\ r.id = i /\ r.fmt = f /\ r.len = n /\ r.off = o /\ r.size = z
         /\ k \in Strings /\ i \in Strings /\ v \in Strings /\ f \in Strings /\ n \in Nat
              /\ o \in Nat /\ z \in Nat => r \in Items
BY DEF Items

(* The text between two elements that are added. *)
LEMMA IndentItem == Indent.kind = "text" /\ Indent \in Items
<1>1. Indent = Item("text", "indent", "", "source", 5)
  BY Zenon DEF Indent, Text
<1>2. PICK n \in Nat: n = 5
  OBVIOUS
<1>3. PICK v \in Strings: v = ""
  BY EmptyWritten, Zenon
<1>4. Item("text", "indent", v, "source", n).kind = "text"
      /\ Item("text", "indent", v, "source", n) \in Items
  BY Written, ItemFields
<1>5. QED
  BY <1>1, <1>2, <1>3, <1>4, Zenon

(* A keyword or a property that is written. *)
LEMMA RenderedItems ==
  ASSUME Printed
  PROVE  /\ \A kw: /\ RenderedKeyword(kw).kind = "keyword" /\ RenderedKeyword(kw).id = kw.name
                   /\ RenderedKeyword(kw).val = KeywordReadBack(kw.name, kw.val)
                   /\ kw.name \in Strings /\ kw.val \in Strings => RenderedKeyword(kw) \in Items
         /\ \A id, val: /\ RenderedProperty(id, val).kind = "property"
                        /\ RenderedProperty(id, val).id = id
                        /\ RenderedProperty(id, val).val = PropertyReadBack(val)
                        /\ id \in Strings /\ val \in Strings => RenderedProperty(id, val) \in Items
<1>1. \A kind, val: RenderedLen(kind, val) \in Nat
  BY DEF Printed
<1>2. \A kw: RenderedKeyword(kw)
               = Item("keyword", kw.name, KeywordReadBack(kw.name, kw.val), "rendered",
                      RenderedLen("keyword", kw.val))
  BY DEF RenderedKeyword
<1>3. \A id, val: RenderedProperty(id, val)
                    = Item("property", id, PropertyReadBack(val), "rendered",
                           RenderedLen("property", val))
  BY DEF RenderedProperty
<1>4. ASSUME NEW kw
      PROVE  /\ RenderedKeyword(kw).kind = "keyword" /\ RenderedKeyword(kw).id = kw.name
             /\ RenderedKeyword(kw).val = KeywordReadBack(kw.name, kw.val)
             /\ kw.name \in Strings /\ kw.val \in Strings => RenderedKeyword(kw) \in Items
  <2>1. PICK n \in Nat: n = RenderedLen("keyword", kw.val)
    BY <1>1
  <2>2. PICK w: w = KeywordReadBack(kw.name, kw.val)
    OBVIOUS
  <2>3. RenderedKeyword(kw) = Item("keyword", kw.name, w, "rendered", n)
    BY <1>2, <2>1, <2>2, Zenon
  <2>4. kw.name \in Strings /\ kw.val \in Strings => w \in Strings
    BY <2>2 DEF Printed
  <2>5. QED
    BY <2>1, <2>2, <2>3, <2>4, Written, ItemFields
<1>5. ASSUME NEW id, NEW val
      PROVE  /\ RenderedProperty(id, val).kind = "property"
             /\ RenderedProperty(id, val).id = id
             /\ RenderedProperty(id, val).val = PropertyReadBack(val)
             /\ id \in Strings /\ val \in Strings => RenderedProperty(id, val) \in Items
  <2>1. PICK n \in Nat: n = RenderedLen("property", val)
    BY <1>1
  <2>2. PICK w: w = PropertyReadBack(val)
    OBVIOUS
  <2>3. RenderedProperty(id, val) = Item("property", id, w, "rendered", n)
    BY <1>3, <2>1, <2>2, Zenon
  <2>4. val \in Strings => w \in Strings
    BY <2>2 DEF Printed
  <2>5. QED
    BY <2>1, <2>2, <2>3, <2>4, Written, ItemFields
<1>6. QED
  BY <1>4, <1>5

(* A location that moves is the same but for its offset and length. *)
LEMMA MovedItem ==
  ASSUME NEW l, NEW d
  PROVE  /\ Moved(l, d).kind = "location" /\ Moved(l, d).id = l.id /\ Moved(l, d).fmt = "source"
         /\ Moved(l, d).off = l.off + d /\ Moved(l, d).size = l.size
         /\ Moved(l, d).len = LocationLength(l.off + d, l.size)
<1>1. PICK v: v = ""
  OBVIOUS
<1>2. Moved(l, d) = [kind |-> "location", id |-> l.id, val |-> v, fmt |-> "source",
                     len |-> LocationLength(l.off + d, l.size), off |-> l.off + d, size |-> l.size]
  BY <1>1, Zenon DEF Moved, Location
<1>3. QED
  BY <1>2, RecordFields

(* It is an item, if it does not move below zero. *)
LEMMA MovedTyped ==
  ASSUME Printed, NEW l \in Items, NEW d \in Int, l.off + d >= 0
  PROVE  Moved(l, d) \in Items
<1>1. PICK v: v = ""
  OBVIOUS
<1>2. l.id \in Strings /\ l.off + d \in Nat /\ l.size \in Nat
  BY DEF Items
<1>3. LocationLength(l.off + d, l.size) \in Nat
  <2>1. Digits(l.off + d) \in Nat /\ Digits(l.size) \in Nat
    BY <1>2 DEF Printed
  <2>2. QED
    BY <2>1 DEF LocationLength
<1>4. Moved(l, d) = [kind |-> "location", id |-> l.id, val |-> v, fmt |-> "source",
                     len |-> LocationLength(l.off + d, l.size), off |-> l.off + d, size |-> l.size]
  BY <1>1, Zenon DEF Moved, Location
<1>5. v \in Strings
  BY <1>1, EmptyWritten, Zenon
<1>6. QED
  BY <1>2, <1>3, <1>4, <1>5, Written, RecordFields

-------------------------------------------------------------------------------
(* Recursion *)

(* L starts at x and takes n steps of st. *)
Steps(n, x, st, L) ==
  /\ DOMAIN L = 0 .. n /\ L[0] = x
  /\ \A i \in 1 .. n: L[i] = st[<<i, L[i - 1]>>]

(* What starts in X and steps within X can be followed for any number of   *)
(* steps.                                                                  *)
LEMMA StepsExist ==
  ASSUME NEW n \in Nat, NEW X, NEW x \in X, NEW st \in [(1 .. n) \X X -> X]
  PROVE  \E L \in [0 .. n -> X]: Steps(n, x, st, L)
<1> DEFINE T == {m \in 0 .. n: ~\E L \in [0 .. m -> X]: Steps(m, x, st, L)}
<1>1. SUFFICES ASSUME T # {} PROVE FALSE
  <2>1. n \in 0 .. n
    OBVIOUS
  <2>2. QED
    BY <1>1, <2>1
<1>2. T \in SUBSET Nat
  OBVIOUS
<1>3. PICK m \in T: \A u \in T: m <= u
  BY <1>1, <1>2, FirstExists
<1>4. CASE m = 0
  <2> DEFINE L == [i \in 0 .. 0 |-> x]
  <2>1. L \in [0 .. 0 -> X] /\ DOMAIN L = 0 .. 0 /\ L[0] = x
    OBVIOUS
  <2>2. \A i \in 1 .. 0: L[i] = st[<<i, L[i - 1]>>]
    OBVIOUS
  <2>3. Steps(0, x, st, L)
    BY <2>1, <2>2 DEF Steps
  <2>4. QED
    BY <1>3, <1>4, <2>1, <2>3
<1>5. CASE m # 0
  <2>1. PICK k \in Nat: k = m - 1 /\ k \in 0 .. n /\ m \in 1 .. n /\ ~(m <= k)
    BY <1>3, <1>5
  <2>2. k \notin T
    BY <1>3, <2>1, Zenon
  <2>3. PICK L \in [0 .. k -> X]: Steps(k, x, st, L)
    BY <2>1, <2>2
  <2>4. L[0] = x /\ \A i \in 1 .. k: L[i] = st[<<i, L[i - 1]>>]
    BY <2>3 DEF Steps
  <2>5. PICK y: y = st[<<m, L[k]>>]
    OBVIOUS
  <2>6. y \in X
    <3>1. L[k] \in X
      BY <2>1
    <3>2. <<m, L[k]>> \in (1 .. n) \X X
      BY <2>1, <3>1
    <3>3. QED
      BY <2>5, <3>2
  <2> DEFINE M == [i \in 0 .. m |-> IF i = m THEN y ELSE L[i]]
  <2>7. M \in [0 .. m -> X]
    <3>1. \A i \in 0 .. m: i # m => i \in 0 .. k
      BY <2>1
    <3>2. QED
      BY <2>6, <3>1
  <2>8. M[0] = x /\ DOMAIN M = 0 .. m
    BY <2>1, <2>4
  <2>9. ASSUME NEW i \in 1 .. m PROVE M[i] = st[<<i, M[i - 1]>>]
    <3>1. CASE i = m
      <4>1. M[i] = y /\ M[i - 1] = L[k] /\ i - 1 = k
        BY <2>1, <3>1
      <4>2. QED
        BY <2>5, <3>1, <4>1
    <3>2. CASE i # m
      <4>1. i \in 1 .. k /\ M[i] = L[i] /\ M[i - 1] = L[i - 1]
        BY <2>1, <3>2
      <4>2. QED
        BY <2>4, <4>1
    <3>3. QED
      BY <3>1, <3>2
  <2>10. Steps(m, x, st, M)
    BY <2>8, <2>9 DEF Steps
  <2>11. QED
    BY <1>3, <2>7, <2>10
<1>6. QED
  BY <1>4, <1>5

(* In one way only. *)
Follows(n, X, x, st, M) ==
  /\ M = [i \in 0 .. n |-> M[i]] /\ M[0] = x
  /\ \A i \in 1 .. n: M[i - 1] \in X => M[i] = st[<<i, M[i - 1]>>]

(* There is one list that follows the steps from where they start.         *)
LEMMA StepsAgree ==
  ASSUME NEW n \in Nat, NEW X, NEW x, NEW st, NEW L \in [0 .. n -> X], Steps(n, x, st, L),
         NEW M, Follows(n, X, x, st, M)
  PROVE  M = L
<1> DEFINE T == {m \in 0 .. n: M[m] # L[m]}
<1>0. L[0] = x /\ \A i \in 1 .. n: L[i] = st[<<i, L[i - 1]>>]
  BY DEF Steps
<1>00. /\ M = [i \in 0 .. n |-> M[i]] /\ M[0] = x
       /\ \A i \in 1 .. n: M[i - 1] \in X => M[i] = st[<<i, M[i - 1]>>]
  BY DEF Follows
<1>1. ASSUME T # {} PROVE FALSE
  <2>1. T \in SUBSET Nat
    OBVIOUS
  <2>2. PICK m \in T: \A u \in T: m <= u
    BY <1>1, <2>1, FirstExists
  <2>3. m # 0
    BY <1>0, <1>00, <2>2
  <2>4. PICK k \in Nat: k = m - 1 /\ k \in 0 .. n /\ m \in 1 .. n /\ ~(m <= k)
    BY <2>2, <2>3
  <2>5. k \notin T
    BY <2>2, <2>4, Zenon
  <2>6. M[k] = L[k] /\ L[k] \in X
    BY <2>4, <2>5
  <2>7. M[m] = st[<<m, M[k]>>] /\ L[m] = st[<<m, L[k]>>]
    BY <1>0, <1>00, <2>4, <2>6
  <2>8. QED
    BY <2>2, <2>6, <2>7
<1>2. \A m \in 0 .. n: M[m] = L[m]
  BY <1>1
<1>3. QED
  BY <1>00, <1>2

-------------------------------------------------------------------------------
(* Matching keywords *)

Matching(before, n, after, k, m) ==
  /\ m \in [0 .. n -> 0 .. k] /\ m[0] = 0
  /\ \A i \in 1 .. n:
         \/ m[i] = m[i - 1]
         \/ m[i] = m[i - 1] + 1 /\ m[i] \in 1 .. k /\ after[m[i]].name = before[i].name
  /\ \A i \in 1 .. n:
         m[i - 1] < k /\ after[m[i - 1] + 1].name = before[i].name => m[i] = m[i - 1] + 1

(* Each keyword that is matched consumes the next one, of the same name.   *)
LEMMA MatchedFacts ==
  ASSUME NEW before, NEW n \in Nat, Len(before) = n, NEW after, NEW k \in Nat, Len(after) = k,
         NEW m, m = Matched(before, after)
  PROVE  Matching(before, n, after, k, m)
<1> DEFINE X == 0 .. k
           go(i, c) == IF c < k /\ after[c + 1].name = before[i].name THEN c + 1 ELSE c
           st == [p \in (1 .. n) \X X |-> go(p[1], p[2])]
           Is(f) == f = [i \in 0 .. n |-> IF i = 0 THEN 0 ELSE go(i, f[i - 1])]
<1>1. \A i, c: c \in X => go(i, c) \in X
  OBVIOUS
<1>2. st \in [(1 .. n) \X X -> X]
  BY <1>1
<1>3. \A i \in 1 .. n: \A c \in X: st[<<i, c>>] = go(i, c)
  OBVIOUS
<1>4. 0 \in X
  OBVIOUS
<1>5. PICK L \in [0 .. n -> X]: Steps(n, 0, st, L)
  <2> HIDE DEF st, X
  <2>1. QED
    BY <1>2, <1>4, StepsExist
<1>6. L[0] = 0 /\ \A i \in 1 .. n: L[i] = go(i, L[i - 1]) /\ L[i - 1] \in X
  <2>1. L[0] = 0 /\ \A i \in 1 .. n: L[i] = st[<<i, L[i - 1]>>]
    BY <1>5 DEF Steps
  <2>2. \A i \in 1 .. n: i - 1 \in 0 .. n
    OBVIOUS
  <2> HIDE DEF go, st, X
  <2>3. QED
    BY <1>3, <2>1, <2>2
<1>7. Is(L)
  <2>1. \A i \in 0 .. n: i # 0 => i \in 1 .. n
    OBVIOUS
  <2>2. \A i \in 0 .. n: L[i] = IF i = 0 THEN 0 ELSE go(i, L[i - 1])
    BY <1>6, <2>1
  <2> HIDE DEF go, X
  <2>3. QED
    BY <2>2
<1>8. m = CHOOSE f: Is(f)
  BY DEF Matched
<1>9. Is(m)
  <2> HIDE DEF Is
  <2>1. QED
    BY <1>7, <1>8
<1>10. m[0] = 0 /\ \A i \in 1 .. n: m[i] = go(i, m[i - 1])
  <2>1. \A i \in 0 .. n: m[i] = IF i = 0 THEN 0 ELSE go(i, m[i - 1])
    <3> HIDE DEF go
    <3>1. QED
      BY <1>9
  <2>2. 0 \in 0 .. n /\ \A i \in 1 .. n: i \in 0 .. n /\ i # 0
    OBVIOUS
  <2> HIDE DEF go
  <2>3. QED
    BY <2>1, <2>2
<1>11. m = L
  <2>1. m = [i \in 0 .. n |-> m[i]]
    <3> HIDE DEF go
    <3>1. QED
      BY <1>9
  <2>2. \A i \in 1 .. n: m[i - 1] \in X => m[i] = st[<<i, m[i - 1]>>]
    <3> HIDE DEF go, st, X
    <3>1. QED
      BY <1>3, <1>10
  <2> HIDE DEF Is, go, st, X
  <2>3. PICK f: f = m
    OBVIOUS
  <2>4. PICK z: z = 0
    OBVIOUS
  <2>5. f = [i \in 0 .. n |-> f[i]]
    BY <2>1, <2>3
  <2>6. f[0] = z
    BY <1>10, <2>3, <2>4
  <2>7. \A i \in 1 .. n: f[i - 1] \in X => f[i] = st[<<i, f[i - 1]>>]
    BY <2>2, <2>3
  <2>8. Steps(n, z, st, L)
    BY <1>5, <2>4
  <2>9. L \in [0 .. n -> X]
    BY <1>5
  <2>10. f = L
    <3>1. Follows(n, X, z, st, f)
      BY <2>5, <2>6, <2>7 DEF Follows
    <3>2. QED
      BY <2>8, <2>9, <3>1, StepsAgree
  <2>11. QED
    BY <2>3, <2>10
<1>12. ASSUME NEW i \in 1 .. n
       PROVE  /\ \/ m[i] = m[i - 1]
                 \/ m[i] = m[i - 1] + 1 /\ m[i] \in 1 .. k /\ after[m[i]].name = before[i].name
              /\ m[i - 1] < k /\ after[m[i - 1] + 1].name = before[i].name => m[i] = m[i - 1] + 1
  <2>1. PICK c \in 0 .. k: c = m[i - 1]
    BY <1>6, <1>11
  <2>2. m[i] = go(i, c)
    BY <1>10, <2>1
  <2>3. QED
    BY <2>1, <2>2
<1>13. QED
  BY <1>5, <1>10, <1>11, <1>12 DEF Matching

-------------------------------------------------------------------------------
(* Open elements *)

Labels == {"image", "keyword", "property", "mismatch"}

(* The elements that are open after a tag. *)
LEMMA AfterTagType ==
  ASSUME NEW stack \in Seq(Labels), NEW kind
  PROVE  AfterTag(stack, kind) \in Seq(Labels)
<1>1. CASE kind \in DOMAIN Opens
  <2>1. Opens[kind] \in Labels
    BY <1>1 DEF Opens, Labels
  <2>2. QED
    BY <1>1, <2>1 DEF AfterTag
<1>2. CASE kind \notin DOMAIN Opens
  <2>1. stack # << >> => Front(stack) \in Seq(Labels)
    <3>1. SUFFICES ASSUME stack # << >> PROVE SubSeq(stack, 1, Len(stack) - 1) \in Seq(Labels)
      BY DEF Front
    <3>2. \A i \in 1 .. Len(stack) - 1: i \in 1 .. Len(stack) /\ stack[i] \in Labels
      OBVIOUS
    <3>3. QED
      BY <3>2, SubSeqProperties
  <2>2. <<"mismatch">> \in Seq(Labels)
    <3>1. PICK x \in Labels: x = "mismatch"
      BY DEF Labels
    <3>2. QED
      BY <3>1
  <2>3. AfterTag(stack, kind) \in {stack, <<"mismatch">>}
        \/ (stack # << >> /\ AfterTag(stack, kind) = Front(stack))
    BY <1>2 DEF AfterTag
  <2>4. QED
    BY <2>1, <2>2, <2>3
<1>3. QED
  BY <1>1, <1>2

(* L[i] are the elements open behind the first i items. *)
OpenAlong(s, n, L) ==
  /\ L \in [0 .. n -> Seq(Labels)] /\ L[0] = << >>
  /\ \A i \in 1 .. n: L[i] = AfterTag(L[i - 1], s[i].kind)

(* Whether a header is well formed shows behind its last item. *)
LEMMA WellFormedAlong ==
  ASSUME NEW s, NEW n \in Nat, Len(s) = n
  PROVE  \E L: OpenAlong(s, n, L) /\ (WellFormed(s) <=> Passes(L[n]))
<1> DEFINE X == Seq(Labels)
           go(i, c) == AfterTag(c, s[i].kind)
           st == [p \in (1 .. n) \X X |-> go(p[1], p[2])]
           Is(f) == f = [i \in 0 .. n |-> IF i = 0 THEN << >> ELSE go(i, f[i - 1])]
<1>1. \A i, c: c \in X => go(i, c) \in X
  BY AfterTagType
<1>2. st \in [(1 .. n) \X X -> X]
  <2> HIDE DEF go, X
  <2>1. QED
    BY <1>1
<1>3. \A i \in 1 .. n: \A c \in X: st[<<i, c>>] = go(i, c)
  <2> HIDE DEF go, X
  <2>1. QED
    OBVIOUS
<1>4. << >> \in X
  OBVIOUS
<1>5. PICK L \in [0 .. n -> X]: Steps(n, << >>, st, L)
  <2> HIDE DEF st, X
  <2>1. QED
    BY <1>2, <1>4, StepsExist
<1>6. L[0] = << >> /\ \A i \in 1 .. n: L[i] = go(i, L[i - 1]) /\ L[i - 1] \in X
  <2>1. L[0] = << >> /\ \A i \in 1 .. n: L[i] = st[<<i, L[i - 1]>>]
    BY <1>5 DEF Steps
  <2>2. \A i \in 1 .. n: i - 1 \in 0 .. n
    OBVIOUS
  <2> HIDE DEF go, st, X
  <2>3. QED
    BY <1>3, <2>1, <2>2
<1>7. Is(L)
  <2>1. \A i \in 0 .. n: i # 0 => i \in 1 .. n
    OBVIOUS
  <2> HIDE DEF go, X
  <2>2. \A i \in 0 .. n: L[i] = IF i = 0 THEN << >> ELSE go(i, L[i - 1])
    BY <1>6, <2>1
  <2>3. QED
    BY <2>2
<1> DEFINE m == CHOOSE f: Is(f)
<1>8. WellFormed(s) <=> Passes(m[n])
  BY DEF WellFormed
<1>9. Is(m)
  <2> HIDE DEF Is
  <2>1. QED
    BY <1>7
<1>10. m[0] = << >> /\ \A i \in 1 .. n: m[i] = go(i, m[i - 1])
  <2>1. PICK f: f = m
    OBVIOUS
  <2>2. f = [i \in 0 .. n |-> IF i = 0 THEN << >> ELSE go(i, f[i - 1])]
    BY <1>9, <2>1
  <2> HIDE DEF go, m
  <2>3. \A i \in 0 .. n: f[i] = IF i = 0 THEN << >> ELSE go(i, f[i - 1])
    BY <2>2
  <2>4. 0 \in 0 .. n /\ \A i \in 1 .. n: i \in 0 .. n /\ i # 0
    OBVIOUS
  <2>5. QED
    BY <2>1, <2>3, <2>4
<1>11. m = L
  <2>1. PICK f: f = m
    OBVIOUS
  <2>2. f = [i \in 0 .. n |-> IF i = 0 THEN << >> ELSE go(i, f[i - 1])]
    BY <1>9, <2>1
  <2> HIDE DEF m
  <2>3. f = [i \in 0 .. n |-> f[i]]
    <3> HIDE DEF go
    <3>1. QED
      BY <2>2
  <2> HIDE DEF Is, go, st, X
  <2>4. f[0] = << >> /\ \A i \in 1 .. n: f[i] = go(i, f[i - 1])
    BY <1>10, <2>1
  <2>5. \A i \in 1 .. n: f[i - 1] \in X => f[i] = st[<<i, f[i - 1]>>]
    BY <1>3, <2>4
  <2>6. Follows(n, X, << >>, st, f)
    BY <2>3, <2>4, <2>5 DEF Follows
  <2>7. QED
    BY <1>5, <2>1, <2>6, StepsAgree
<1>12. QED
  <2>1. OpenAlong(s, n, L)
    BY <1>5, <1>6 DEF OpenAlong
  <2> HIDE DEF m
  <2>2. QED
    BY <1>8, <1>11, <2>1

-------------------------------------------------------------------------------
(* Guesses *)

(* What a header says of its attachments are numbers. *)
Numbers(atts) ==
  /\ Len(atts) \in Nat
  /\ \A i \in 1 .. Len(atts): atts[i].offset \in Nat /\ atts[i].size \in Nat /\ atts[i].span \in Nat

(* So is what moving them does to its length. *)
LEMMA LocationsDeltaType ==
  ASSUME Printed, NEW atts, Numbers(atts), NEW d \in Int
  PROVE  LocationsDelta(atts, d) \in Int
<1>1. PICK n \in Nat: n = Len(atts)
  BY DEF Numbers
<1>2. PICK w: w = [i \in 1 .. n |-> Growth(atts[i], d)]
  OBVIOUS
<1>3. LocationsDelta(atts, d) = SumTo(w, n)
  BY <1>1, <1>2, LocationsDeltaIsSum
<1>4. \A i \in 1 .. n: w[i] \in Int
  <2>1. ASSUME NEW i \in 1 .. n PROVE w[i] \in Int
    <3>1. atts[i].offset \in Nat /\ atts[i].size \in Nat /\ atts[i].span \in Nat
      BY <1>1 DEF Numbers
    <3>2. atts[i].offset + d \in Int /\ atts[i].size \in Int
      BY <3>1
    <3>3. Digits(atts[i].offset + d) \in Nat /\ Digits(atts[i].size) \in Nat
      BY <3>2 DEF Printed
    <3>4. Growth(atts[i], d) \in Int
      BY <3>1, <3>3 DEF Growth, LocationLength
    <3>5. QED
      BY <1>2, <3>4
  <2>2. QED
    BY <2>1
<1>5. QED
  BY <1>3, <1>4, SumType

(* And the last guess. *)
LEMMA GuessType ==
  ASSUME Printed, NEW atts, Numbers(atts), NEW edit \in Int
  PROVE  Guess(atts, edit) \in Int
<1>1. PICK N \in Nat: N = MaxRounds /\ N # 0
  BY UpdateAssumption
<1>2. PICK n \in Nat: n = N - 1
  BY <1>1
<1> DEFINE st == [p \in (1 .. n) \X Int |-> Needed(atts, edit, p[2])]
           Is(g) == g = [i \in 1 .. N |-> IF i = 1 THEN edit ELSE Needed(atts, edit, g[i - 1])]
           g == CHOOSE g: Is(g)
<1>3. \A c \in Int: Needed(atts, edit, c) \in Int
  BY LocationsDeltaType DEF Needed
<1>4. st \in [(1 .. n) \X Int -> Int]
  BY <1>3
<1>5. PICK L \in [0 .. n -> Int]: Steps(n, edit, st, L)
  <2> HIDE DEF st
  <2>1. QED
    BY <1>4, StepsExist
<1>6. L[0] = edit /\ \A i \in 1 .. n: L[i] = Needed(atts, edit, L[i - 1])
  <2>1. L[0] = edit /\ \A i \in 1 .. n: L[i] = st[<<i, L[i - 1]>>]
    BY <1>5 DEF Steps
  <2>2. \A i \in 1 .. n: i - 1 \in 0 .. n /\ L[i - 1] \in Int
    OBVIOUS
  <2>3. \A i \in 1 .. n: \A c \in Int: st[<<i, c>>] = Needed(atts, edit, c)
    OBVIOUS
  <2> HIDE DEF st
  <2>4. QED
    BY <2>1, <2>2, <2>3
<1> DEFINE G == [i \in 1 .. N |-> L[i - 1]]
<1>7. \A i \in 1 .. N: G[i] = IF i = 1 THEN edit ELSE Needed(atts, edit, G[i - 1])
  <2>1. ASSUME NEW i \in 1 .. N, i # 1 PROVE G[i] = Needed(atts, edit, G[i - 1])
    <3>1. PICK j \in 1 .. n: j = i - 1 /\ j \in 1 .. N
      BY <1>2, <2>1
    <3>2. G[i] = L[j] /\ G[j] = L[j - 1]
      BY <3>1
    <3>3. L[j] = Needed(atts, edit, L[j - 1])
      BY <1>6
    <3>4. QED
      BY <3>1, <3>2, <3>3
  <2>2. 1 \in 1 .. N /\ G[1] = edit
    BY <1>1, <1>6
  <2> HIDE DEF G
  <2>3. QED
    BY <2>1, <2>2
<1>8. Is(G)
  <2>1. G = [i \in 1 .. N |-> G[i]]
    OBVIOUS
  <2> HIDE DEF G
  <2>2. QED
    BY <1>7, <2>1
<1>9. Is(g)
  <2> HIDE DEF Is
  <2>1. QED
    BY <1>8
<1>10. Guess(atts, edit) = g[N]
  BY <1>1 DEF Guess
<1>11. PICK f: f = g
  OBVIOUS
<1>12. f = [i \in 1 .. N |-> IF i = 1 THEN edit ELSE Needed(atts, edit, f[i - 1])]
  BY <1>9, <1>11, ZenonT(30)
<1> HIDE DEF g
<1> DEFINE T == {i \in 1 .. N: f[i] \notin Int}
<1>13. ASSUME T # {} PROVE FALSE
  <2>1. T \in SUBSET Nat
    OBVIOUS
  <2>2. PICK i \in T: \A u \in T: i <= u
    BY <1>13, <2>1, FirstExists
  <2>3. i \in 1 .. N /\ f[i] \notin Int
    OBVIOUS
  <2>4. f[i] = IF i = 1 THEN edit ELSE Needed(atts, edit, f[i - 1])
    BY <1>12, <2>3
  <2>5. i # 1
    BY <2>3, <2>4
  <2>6. PICK j \in Nat: j = i - 1 /\ j \in 1 .. N /\ ~(i <= j)
    BY <2>3, <2>5
  <2>7. j \notin T
    BY <2>2, <2>6, Zenon
  <2>8. f[j] \in Int
    BY <2>6, <2>7
  <2>9. QED
    BY <1>3, <2>3, <2>4, <2>5, <2>6, <2>8
<1>14. N \in 1 .. N
  BY <1>1
<1>15. QED
  BY <1>10, <1>11, <1>13, <1>14

-------------------------------------------------------------------------------
(* Headers in memory *)

Keyword == [name: Strings, val: Strings]
Headers ==
  {h \in [keywords: Seq(Keyword), properties: UNION {[S -> Strings]: S \in SUBSET Strings}]:
     IsFiniteSet(DOMAIN h.properties)}

(* One change of a header makes another. *)
LEMMA OneEditTyped ==
  ASSUME NEW h \in Headers, NEW e \in OneEdit(h)
  PROVE  e \in Headers
<1>1. PICK kws: kws = h.keywords
  OBVIOUS
<1>2. PICK props: props = h.properties
  OBVIOUS
<1>3. h \in [keywords: Seq(Keyword), properties: UNION {[S -> Strings]: S \in SUBSET Strings}]
      /\ IsFiniteSet(DOMAIN props)
  BY <1>2 DEF Headers
<1>4. kws \in Seq(Keyword) /\ props \in UNION {[S -> Strings]: S \in SUBSET Strings}
  BY <1>1, <1>2, <1>3
<1>5. PICK S \in SUBSET Strings: props \in [S -> Strings]
  BY <1>4
<1>6. DOMAIN props = S /\ IsFiniteSet(S)
  BY <1>3, <1>5
<1>7. Names \subseteq Strings /\ Values \subseteq Strings /\ Ids \subseteq Strings
  BY UpdateAssumption
<1>8. ASSUME NEW k \in KeywordEdits(kws) PROVE k \in Seq(Keyword)
  <2>1. ASSUME NEW i \in DOMAIN kws, NEW v \in Values, k = SetKeyword(kws, i, v)
        PROVE  k \in Seq(Keyword)
    <3>1. kws[i] \in Keyword /\ v \in Strings
      BY <1>4, <1>7
    <3>2. PICK y: y = [kws[i] EXCEPT !.val = v]
      OBVIOUS
    <3>3. y \in Keyword
      BY <3>1, <3>2 DEF Keyword
    <3>4. k = [kws EXCEPT ![i] = y]
      BY <2>1, <3>2, Zenon DEF SetKeyword
    <3>5. QED
      BY <1>4, <3>3, <3>4
  <2>2. ASSUME NEW i \in DOMAIN kws, k = RemoveAt(kws, i)
        PROVE  k \in Seq(Keyword)
    <3>1. PICK n \in Nat: n = Len(kws) /\ i \in 1 .. n
      BY <1>4
    <3>2. k = SubSeq(kws, 1, i - 1) \o SubSeq(kws, i + 1, Len(kws))
      BY <2>2 DEF RemoveAt
    <3>3. \A j \in 1 .. i - 1: kws[j] \in Keyword
      BY <1>4, <3>1
    <3>4. \A j \in i + 1 .. n: kws[j] \in Keyword
      BY <1>4, <3>1
    <3>5. SubSeq(kws, 1, i - 1) \in Seq(Keyword) /\ SubSeq(kws, i + 1, n) \in Seq(Keyword)
      BY <3>1, <3>3, <3>4, SubSeqProperties
    <3>6. QED
      BY <3>1, <3>2, <3>5
  <2>3. ASSUME NEW n \in Names, NEW v \in Values, k = AddKeyword(kws, n, v)
        PROVE  k \in Seq(Keyword)
    <3>1. PICK y: y = [name |-> n, val |-> v]
      OBVIOUS
    <3>2. y \in Keyword
      BY <1>7, <3>1 DEF Keyword
    <3>3. QED
      BY <1>4, <2>3, <3>1, <3>2 DEF AddKeyword
  <2>4. \/ \E i \in DOMAIN kws, v \in Values: k = SetKeyword(kws, i, v)
        \/ \E i \in DOMAIN kws: k = RemoveAt(kws, i)
        \/ \E n \in Names, v \in Values: k = AddKeyword(kws, n, v)
    BY DEF KeywordEdits
  <2>5. QED
    BY <2>1, <2>2, <2>3, <2>4, Zenon
<1>9. ASSUME NEW p \in PropertyEdits(props)
      PROVE  p \in UNION {[U -> Strings]: U \in SUBSET Strings} /\ IsFiniteSet(DOMAIN p)
  <2>1. ASSUME NEW id \in Ids, NEW v \in Values, p = SetProperty(props, id, v)
        PROVE  p \in UNION {[U -> Strings]: U \in SUBSET Strings} /\ IsFiniteSet(DOMAIN p)
    <3>1. S \cup {id} \in SUBSET Strings /\ p \in [S \cup {id} -> Strings]
      BY <1>5, <1>6, <1>7, <2>1 DEF SetProperty
    <3>2. IsFiniteSet(S \cup {id})
      BY <1>6, FS_AddElement
    <3>3. DOMAIN p = S \cup {id}
      BY <3>1
    <3>4. QED
      BY <3>1, <3>2, <3>3
  <2>2. ASSUME NEW id \in DOMAIN props, p = DropProperty(props, id)
        PROVE  p \in UNION {[U -> Strings]: U \in SUBSET Strings} /\ IsFiniteSet(DOMAIN p)
    <3>1. S \ {id} \in SUBSET Strings /\ p \in [S \ {id} -> Strings]
      BY <1>5, <1>6, <2>2 DEF DropProperty
    <3>2. IsFiniteSet(S \ {id})
      BY <1>6, FS_RemoveElement
    <3>3. DOMAIN p = S \ {id}
      BY <3>1
    <3>4. QED
      BY <3>1, <3>2, <3>3
  <2>3. \/ \E id \in Ids, v \in Values: p = SetProperty(props, id, v)
        \/ \E id \in DOMAIN props: p = DropProperty(props, id)
    BY DEF PropertyEdits
  <2>4. QED
    BY <2>1, <2>2, <2>3, Zenon
<1>10. CASE \E k \in KeywordEdits(kws): e = [h EXCEPT !.keywords = k]
  <2>1. PICK k \in KeywordEdits(kws): e = [h EXCEPT !.keywords = k]
    BY <1>10
  <2>2. k \in Seq(Keyword)
    BY <1>8
  <2>3. e \in [keywords: Seq(Keyword), properties: UNION {[U -> Strings]: U \in SUBSET Strings}]
        /\ e.properties = props
    BY <1>2, <1>3, <2>1, <2>2
  <2>4. QED
    BY <1>3, <2>3 DEF Headers
<1>11. CASE \E p \in PropertyEdits(props): e = [h EXCEPT !.properties = p]
  <2>1. PICK p \in PropertyEdits(props): e = [h EXCEPT !.properties = p]
    BY <1>11
  <2>2. p \in UNION {[U -> Strings]: U \in SUBSET Strings} /\ IsFiniteSet(DOMAIN p)
    BY <1>9
  <2>3. e \in [keywords: Seq(Keyword), properties: UNION {[U -> Strings]: U \in SUBSET Strings}]
        /\ e.properties = p
    BY <1>3, <2>1, <2>2
  <2>4. QED
    BY <2>2, <2>3 DEF Headers
<1>12. QED
  BY <1>1, <1>2, <1>10, <1>11 DEF OneEdit

(* So does any number of changes. *)
LEMMA EditsTyped ==
  ASSUME NEW h \in Headers, NEW n \in Nat
  PROVE  EditsOf(h, n) \subseteq Headers
<1> DEFINE Is(f) == f = [i \in 0 .. n |-> IF i = 0 THEN {h}
                                          ELSE f[i - 1] \cup UNION {OneEdit(g): g \in f[i - 1]}]
           m == CHOOSE f: Is(f)
           X == SUBSET Headers
           go(c) == c \cup UNION {OneEdit(g): g \in c}
           st == [p \in (1 .. n) \X X |-> go(p[2])]
<1>1. \A c \in X: go(c) \in X
  <2>1. ASSUME NEW c \in SUBSET Headers, NEW e \in go(c) PROVE e \in Headers
    <3>1. CASE e \in c
      BY <3>1
    <3>2. CASE \E g \in c: e \in OneEdit(g)
      BY <3>2, OneEditTyped
    <3>3. QED
      BY <2>1, <3>1, <3>2
  <2> HIDE DEF go
  <2>2. QED
    BY <2>1
<1>2. st \in [(1 .. n) \X X -> X]
  <2> HIDE DEF go, X
  <2>1. QED
    BY <1>1
<1>3. \A i \in 1 .. n: \A c \in X: st[<<i, c>>] = go(c)
  <2> HIDE DEF go, X
  <2>1. QED
    OBVIOUS
<1>4. {h} \in X
  OBVIOUS
<1>5. PICK L \in [0 .. n -> X]: Steps(n, {h}, st, L)
  <2> HIDE DEF st, X
  <2>1. QED
    BY <1>2, <1>4, StepsExist
<1>6. L[0] = {h} /\ \A i \in 1 .. n: L[i] = go(L[i - 1])
  <2>1. L[0] = {h} /\ \A i \in 1 .. n: L[i] = st[<<i, L[i - 1]>>]
    BY <1>5 DEF Steps
  <2>2. \A i \in 1 .. n: i - 1 \in 0 .. n /\ L[i - 1] \in X
    <3> HIDE DEF X
    <3>1. QED
      BY <1>5
  <2> HIDE DEF go, st, X
  <2>3. QED
    BY <1>3, <2>1, <2>2
<1>7. Is(L)
  <2>1. \A i \in 0 .. n: i # 0 => i \in 1 .. n
    OBVIOUS
  <2>2. \A i \in 0 .. n: L[i] = IF i = 0 THEN {h} ELSE go(L[i - 1])
    <3> HIDE DEF go, X
    <3>1. QED
      BY <1>6, <2>1
  <2>3. L = [i \in 0 .. n |-> IF i = 0 THEN {h} ELSE go(L[i - 1])]
    <3> HIDE DEF go, X
    <3>1. QED
      BY <2>2
  <2>4. QED
    BY <2>3, Zenon
<1>8. EditsOf(h, n) = m[n]
  BY Zenon DEF EditsOf
<1>9. Is(m)
  <2> HIDE DEF Is
  <2>1. QED
    BY <1>7
<1>10. PICK f: f = m
  OBVIOUS
<1>11. f = [i \in 0 .. n |-> IF i = 0 THEN {h} ELSE go(f[i - 1])]
  BY <1>9, <1>10, Zenon
<1> HIDE DEF m, Is
<1> DEFINE T == {i \in 0 .. n: f[i] \notin X}
<1>12. ASSUME T # {} PROVE FALSE
  <2>1. T \in SUBSET Nat
    <3> HIDE DEF X
    <3>1. QED
      OBVIOUS
  <2>2. PICK i \in T: \A u \in T: i <= u
    BY <1>12, <2>1, FirstExists
  <2>3. i \in 0 .. n /\ f[i] \notin X
    OBVIOUS
  <2> HIDE DEF X, go
  <2>4. f[i] = IF i = 0 THEN {h} ELSE go(f[i - 1])
    BY <1>11, <2>3
  <2>5. i # 0
    BY <1>4, <2>3, <2>4
  <2>6. PICK j \in Nat: j = i - 1 /\ j \in 0 .. n /\ ~(i <= j)
    BY <2>3, <2>5
  <2>7. j \notin T
    BY <2>2, <2>6, Zenon
  <2>8. f[j] \in X
    BY <2>6, <2>7
  <2>9. QED
    BY <1>1, <2>3, <2>4, <2>5, <2>6, <2>8
<1>13. n \in 0 .. n
  OBVIOUS
<1>14. f[n] \in X
  BY <1>12, <1>13
<1>15. QED
  BY <1>8, <1>10, <1>14

-------------------------------------------------------------------------------
(* What a header says *)

(* Positions in a header, in document order. *)
LEMMA PositionsListed ==
  ASSUME NEW n \in Nat, NEW S, S \subseteq 1 .. n
  PROVE  /\ S \in SUBSET Nat /\ IsFiniteSet(S) /\ Cardinality(S) \in Nat
         /\ Lists(PositionsInOrder(S), Cardinality(S), S)
         /\ DOMAIN PositionsInOrder(S) = 1 .. Cardinality(S) /\ Len(PositionsInOrder(S)) = Cardinality(S)
         /\ \A k \in 1 .. Cardinality(S): PositionsInOrder(S)[k] \in S
         /\ \A i \in S: \E k \in 1 .. Cardinality(S): PositionsInOrder(S)[k] = i
<1>1. S \in SUBSET Nat
  OBVIOUS
<1>2. IsFiniteSet(S)
  <2>1. IsFiniteSet(1 .. n)
    BY FS_Interval
  <2>2. QED
    BY <2>1, FS_Subset
<1>3. Lists(PositionsInOrder(S), Cardinality(S), S)
  BY <1>1, <1>2, Ordered
<1>4. PICK f: f = PositionsInOrder(S)
  OBVIOUS
<1>5. PICK c: c = Cardinality(S)
  OBVIOUS
<1>6. c \in Nat /\ f \in [1 .. c -> S] /\ \A i \in S: \E k \in 1 .. c: f[k] = i
  BY <1>3, <1>4, <1>5 DEF Lists
<1>7. DOMAIN f = 1 .. c /\ \A k \in 1 .. c: f[k] \in S
  BY <1>6
<1>8. Len(f) = c
  BY <1>6, <1>7
<1>9. QED
  BY <1>1, <1>2, <1>3, <1>4, <1>5, <1>6, <1>7, <1>8

OfKind(s, kinds) == {i \in DOMAIN s: s[i].kind \in kinds}
KeywordsIn(s) == OfKind(s, {"keyword", "keywordstart"})

(* Its keywords are those of their tags, in document order. *)
LEMMA KeywordsFacts ==
  ASSUME NEW s \in Seq(Items), NEW L, L = KeywordSpans(s), NEW n, n = Cardinality(KeywordsIn(s)),
         NEW K, K = Keywords(s)
  PROVE  /\ n \in Nat /\ Lists(L, n, KeywordsIn(s)) /\ DOMAIN L = 1 .. n
         /\ \A q \in 1 .. n: L[q] \in KeywordsIn(s) /\ L[q] \in 1 .. Len(s)
         /\ \A i \in KeywordsIn(s): \E q \in 1 .. n: L[q] = i
         /\ K \in Seq(Keyword) /\ Len(K) = n /\ DOMAIN K = 1 .. n
         /\ \A q \in 1 .. n: K[q] = KeywordAt(s, L[q])
<1>1. PICK m \in Nat: m = Len(s) /\ DOMAIN s = 1 .. m
  OBVIOUS
<1>2. PICK S: S = KeywordsIn(s)
  OBVIOUS
<1>3. S \subseteq 1 .. m
  BY <1>1, <1>2 DEF KeywordsIn, OfKind
<1>4. L = PositionsInOrder(S)
  BY <1>2 DEF KeywordSpans, At, KeywordsIn, OfKind
<1>5. /\ n \in Nat /\ Lists(L, n, S) /\ DOMAIN L = 1 .. n
      /\ \A q \in 1 .. n: L[q] \in S
      /\ \A i \in S: \E q \in 1 .. n: L[q] = i
  BY <1>2, <1>3, <1>4, PositionsListed
<1>6. \A q \in 1 .. n: L[q] \in 1 .. m
  BY <1>3, <1>5
<1>7. K = [q \in 1 .. n |-> KeywordAt(s, L[q])]
  BY <1>5 DEF Keywords
<1>8. \A q \in 1 .. n: KeywordAt(s, L[q]) \in Keyword
  <2>1. ASSUME NEW q \in 1 .. n PROVE KeywordAt(s, L[q]) \in Keyword
    <3>1. PICK y: y = s[L[q]]
      OBVIOUS
    <3>2. y \in Items
      BY <1>1, <1>6, <3>1
    <3>3. y.id \in Strings /\ y.val \in Strings
      BY <3>2 DEF Items
    <3>4. QED
      BY <3>1, <3>3 DEF KeywordAt, Keyword
  <2>2. QED
    BY <2>1
<1>9. K \in Seq(Keyword) /\ Len(K) = n /\ DOMAIN K = 1 .. n
  <2>1. K \in [1 .. n -> Keyword]
    BY <1>7, <1>8
  <2>2. QED
    BY <1>5, <2>1
<1>10. \A q \in 1 .. n: K[q] = KeywordAt(s, L[q])
  BY <1>7
<1>11. QED
  BY <1>1, <1>2, <1>5, <1>6, <1>9, <1>10

-------------------------------------------------------------------------------
(* Properties *)

(* The element of a property that ends at j starts at StartOf(s, j). *)
StartOf(s, j) == SpanTo(s, j)[1]
IdAt(s, j) == s[StartOf(s, j)].id
ValAt(s, j) == s[StartOf(s, j)].val

(* Only one start tag is open at an end tag. *)
LEMMA OneOpen ==
  ASSUME NEW s, NEW j \in Nat, NEW i \in OpenProperty(s, j), NEW k \in OpenProperty(s, j)
  PROVE  i = k
<1>1. /\ i \in 1 .. j - 1 /\ k \in 1 .. j - 1
      /\ s[i].kind = "propertystart" /\ s[k].kind = "propertystart"
      /\ \A q \in i + 1 .. j - 1: s[q].kind # "propertystart"
      /\ \A q \in k + 1 .. j - 1: s[q].kind # "propertystart"
  BY DEF OpenProperty
<1>2. ~(i < k)
  <2>1. i < k => k \in i + 1 .. j - 1
    BY <1>1
  <2>2. QED
    BY <1>1, <2>1
<1>3. ~(k < i)
  <2>1. k < i => i \in k + 1 .. j - 1
    BY <1>1
  <2>2. QED
    BY <1>1, <2>1
<1>4. QED
  BY <1>1, <1>2, <1>3

(* It is one tag, or it has a start tag, and no other between.             *)
LEMMA SpanFacts ==
  ASSUME NEW s \in Seq(Items), NEW j \in PropertyEnds(s)
  PROVE  /\ SpanTo(s, j) = <<StartOf(s, j), j>> /\ SpanTo(s, j)[2] = j
         /\ j \in 1 .. Len(s) /\ StartOf(s, j) \in 1 .. Len(s) /\ StartOf(s, j) <= j
         /\ \/ s[j].kind = "property" /\ StartOf(s, j) = j
            \/ /\ s[j].kind = "propertyend" /\ StartOf(s, j) \in OpenProperty(s, j)
               /\ s[StartOf(s, j)].kind = "propertystart" /\ StartOf(s, j) < j
<1>1. j \in 1 .. Len(s) /\ Len(s) \in Nat
  BY DEF PropertyEnds
<1>2. CASE s[j].kind = "property"
  <2>1. SpanTo(s, j) = <<j, j>>
    BY <1>2 DEF SpanTo
  <2>2. StartOf(s, j) = j
    BY <2>1 DEF StartOf
  <2>3. QED
    BY <1>1, <1>2, <2>1, <2>2
<1>3. CASE s[j].kind # "property"
  <2>1. s[j].kind = "propertyend" /\ OpenProperty(s, j) # {}
    BY <1>3 DEF PropertyEnds
  <2>2. PICK i: i = CHOOSE k \in OpenProperty(s, j): TRUE
    OBVIOUS
  <2>3. i \in OpenProperty(s, j)
    BY <2>1, <2>2
  <2>4. SpanTo(s, j) = <<i, j>>
    BY <1>3, <2>2 DEF SpanTo
  <2>5. StartOf(s, j) = i
    BY <2>4 DEF StartOf
  <2>6. i \in 1 .. j - 1 /\ s[i].kind = "propertystart"
    BY <2>3 DEF OpenProperty
  <2>7. i \in 1 .. Len(s) /\ i < j
    BY <1>1, <2>6
  <2>8. QED
    BY <1>1, <2>1, <2>3, <2>4, <2>5, <2>6, <2>7
<1>4. QED
  BY <1>2, <1>3

(* Its properties are those of the elements, by document order of their    *)
(* ends; of two with one id the later one counts.                          *)
LEMMA PropertiesFacts ==
  ASSUME NEW s \in Seq(Items), NEW P, P = Properties(s)
  PROVE  /\ P = [id \in DOMAIN P |-> P[id]]
         /\ \A id: id \in DOMAIN P <=> \E j \in PropertyEnds(s): IdAt(s, j) = id
         /\ \A j \in PropertyEnds(s):
              (\A k \in PropertyEnds(s): IdAt(s, k) = IdAt(s, j) => k <= j)
                => P[IdAt(s, j)] = ValAt(s, j)
         /\ IsFiniteSet(DOMAIN P) /\ DOMAIN P \in SUBSET Strings /\ P \in [DOMAIN P -> Strings]
<1>1. PICK m \in Nat: m = Len(s) /\ DOMAIN s = 1 .. m
  OBVIOUS
<1>2. PICK S: S = PropertyEnds(s)
  OBVIOUS
<1>3. S \subseteq 1 .. m
  BY <1>1, <1>2 DEF PropertyEnds
<1>4. PICK n: n = Cardinality(S)
  OBVIOUS
<1>5. PICK L: L = PositionsInOrder(S)
  OBVIOUS
<1>6. /\ n \in Nat /\ DOMAIN L = 1 .. n
      /\ \A q \in 1 .. n: L[q] \in S
      /\ \A i \in S: \E q \in 1 .. n: L[q] = i
      /\ IsFiniteSet(S) /\ Lists(L, n, S)
  BY <1>3, <1>4, <1>5, PositionsListed, ZenonT(30)
<1> DEFINE sp == PropertySpans(s)
<1>8. DOMAIN sp = 1 .. n /\ \A q \in 1 .. n: sp[q][1] = StartOf(s, L[q])
  <2>1. sp = [q \in DOMAIN L |-> SpanTo(s, L[q])]
    BY <1>2, <1>5, Zenon DEF PropertySpans
  <2> HIDE DEF sp
  <2>2. QED
    BY <1>6, <2>1 DEF StartOf
<1> DEFINE idOf(q) == s[sp[q][1]].id
           last(id) == CHOOSE q \in DOMAIN sp: idOf(q) = id /\ \A p \in DOMAIN sp: idOf(p) = id => p <= q
<1>9. P = [id \in {idOf(q): q \in DOMAIN sp} |-> s[sp[last(id)][1]].val]
  BY Zenon DEF Properties
<1> HIDE DEF sp
<1>10. \A q \in 1 .. n: idOf(q) = IdAt(s, L[q]) /\ s[sp[q][1]].val = ValAt(s, L[q])
  BY <1>8 DEF IdAt, ValAt
<1>11. \A k, p \in 1 .. n: k < p => L[k] < L[p]
  BY <1>6 DEF Lists
<1>12. ASSUME NEW id, NEW q0 \in 1 .. n, idOf(q0) = id
       PROVE  /\ last(id) \in 1 .. n /\ idOf(last(id)) = id
              /\ \A p \in 1 .. n: idOf(p) = id => p <= last(id)
  <2> DEFINE T == {q \in 1 .. n: idOf(q) = id}
  <2>1. T \in SUBSET Nat /\ T # {} /\ \A t \in T: t <= n
    <3> HIDE DEF idOf
    <3>1. QED
      BY <1>6, <1>12
  <2>2. PICK q \in T: \A t \in T: t <= q
    <3> HIDE DEF T
    <3>1. QED
      BY <1>6, <2>1, LastExists
  <2>3. q \in DOMAIN sp /\ idOf(q) = id /\ \A p \in DOMAIN sp: idOf(p) = id => p <= q
    <3> HIDE DEF idOf
    <3>1. QED
      BY <1>8, <2>2
  <2>4. /\ last(id) \in DOMAIN sp /\ idOf(last(id)) = id
        /\ \A p \in DOMAIN sp: idOf(p) = id => p <= last(id)
    <3> HIDE DEF idOf
    <3>1. QED
      BY <2>3
  <2>5. QED
    BY <1>8, <2>4
<1>13. \A id: id \in DOMAIN P <=> \E j \in PropertyEnds(s): IdAt(s, j) = id
  <2>1. \A id: id \in DOMAIN P <=> \E q \in DOMAIN sp: idOf(q) = id
    <3> HIDE DEF idOf, last
    <3>1. QED
      BY <1>9
  <2> HIDE DEF idOf, last
  <2>2. \A id: id \in DOMAIN P <=> \E q \in 1 .. n: IdAt(s, L[q]) = id
    BY <1>8, <1>10, <2>1
  <2>3. QED
    BY <1>2, <1>6, <2>2
<1>14. ASSUME NEW id \in DOMAIN P
       PROVE  \E j \in PropertyEnds(s): /\ IdAt(s, j) = id /\ P[id] = ValAt(s, j)
                                        /\ \A k \in PropertyEnds(s): IdAt(s, k) = id => k <= j
  <2>1. PICK q0 \in 1 .. n: idOf(q0) = id
    <3> HIDE DEF idOf, last
    <3>1. \E q \in DOMAIN sp: idOf(q) = id
      BY <1>9
    <3>2. QED
      BY <1>8, <3>1
  <2>2. PICK q: q = last(id)
    OBVIOUS
  <2>3. q \in 1 .. n /\ idOf(q) = id /\ \A p \in 1 .. n: idOf(p) = id => p <= q
    <3> HIDE DEF idOf, last
    <3>1. QED
      BY <1>12, <2>1, <2>2
  <2>4. P[id] = s[sp[q][1]].val
    <3>1. P[id] = s[sp[last(id)][1]].val
      <4> HIDE DEF idOf, last
      <4>1. QED
        BY <1>9
    <3>2. QED
      BY <2>2, <3>1, Zenon
  <2> HIDE DEF idOf, last
  <2>5. L[q] \in PropertyEnds(s) /\ IdAt(s, L[q]) = id /\ P[id] = ValAt(s, L[q])
    BY <1>2, <1>6, <1>10, <2>3, <2>4
  <2>6. ASSUME NEW k \in PropertyEnds(s), IdAt(s, k) = id PROVE k <= L[q]
    <3>1. PICK p \in 1 .. n: L[p] = k
      BY <1>2, <1>6
    <3>2. idOf(p) = id
      BY <1>10, <2>6, <3>1
    <3>3. p <= q
      BY <2>3, <3>2
    <3>4. L[p] \in Nat /\ L[q] \in Nat
      <4>1. L[p] \in S /\ L[q] \in S
        BY <1>6, <2>3
      <4>2. \A x \in S: x \in Nat
        BY <1>3
      <4>3. QED
        BY <4>1, <4>2, Zenon
    <3>5. p = q \/ p < q
      BY <1>6, <2>3, <3>3
    <3>6. QED
      BY <1>11, <2>3, <3>1, <3>4, <3>5
  <2>7. QED
    BY <2>5, <2>6
<1>15. ASSUME NEW j \in PropertyEnds(s),
              \A k \in PropertyEnds(s): IdAt(s, k) = IdAt(s, j) => k <= j
       PROVE  P[IdAt(s, j)] = ValAt(s, j)
  <2>1. PICK id: id = IdAt(s, j)
    OBVIOUS
  <2>2. id \in DOMAIN P
    BY <1>13, <2>1
  <2>3. PICK i \in PropertyEnds(s): /\ IdAt(s, i) = id /\ P[id] = ValAt(s, i)
                                    /\ \A k \in PropertyEnds(s): IdAt(s, k) = id => k <= i
    BY <1>14, <2>2
  <2>4. i <= j /\ j <= i
    BY <1>15, <2>1, <2>3
  <2>5. i = j
    BY <1>2, <1>3, <2>4
  <2>6. QED
    BY <2>1, <2>3, <2>5
<1>16. \A j \in PropertyEnds(s): IdAt(s, j) \in Strings /\ ValAt(s, j) \in Strings
  <2>1. ASSUME NEW j \in PropertyEnds(s) PROVE IdAt(s, j) \in Strings /\ ValAt(s, j) \in Strings
    <3>1. PICK i: i = StartOf(s, j)
      OBVIOUS
    <3>2. i \in 1 .. Len(s)
      BY <3>1, SpanFacts
    <3>3. s[i] \in Items
      BY <3>2
    <3>4. s[i].id \in Strings /\ s[i].val \in Strings
      BY <3>3 DEF Items
    <3>5. QED
      BY <3>1, <3>4 DEF IdAt, ValAt
  <2>2. QED
    BY <2>1
<1>17. IsFiniteSet(DOMAIN P)
  <2> DEFINE I == {IdAt(s, j): j \in S}
  <2>1. IsFiniteSet(I)
    <3>1. PICK f: f = [j \in S |-> IdAt(s, j)]
      OBVIOUS
    <3>2. I = {f[j]: j \in S}
      BY <3>1
    <3>3. f \in [S -> I]
      BY <3>1
    <3>4. \A y \in I: \E j \in S: f[j] = y
      BY <3>1
    <3> HIDE DEF I
    <3>5. f \in Surjection(S, I)
      BY <3>3, <3>4 DEF Surjection
    <3>6. QED
      BY <1>6, <3>5, FS_Surjection
  <2>2. DOMAIN P = I
    BY <1>2, <1>13
  <2>3. QED
    BY <2>1, <2>2
<1>18. P = [id \in DOMAIN P |-> P[id]]
  <2> HIDE DEF idOf, last
  <2>1. QED
    BY <1>9
<1>19. DOMAIN P \in SUBSET Strings /\ P \in [DOMAIN P -> Strings]
  <2>1. \A id \in DOMAIN P: id \in Strings /\ P[id] \in Strings
    BY <1>14, <1>16
  <2> HIDE DEF idOf, last
  <2>2. QED
    BY <1>18, <2>1
<1>20. QED
  BY <1>13, <1>15, <1>17, <1>18, <1>19

-------------------------------------------------------------------------------
(* The regions of an edit *)

(* The fields of a region.                                                 *)
LEMMA RegionFields ==
  ASSUME NEW f, NEW l, NEW x
  PROVE  Region(f, l, x).first = f /\ Region(f, l, x).last = l /\ Region(f, l, x).new = x
BY DEF Region

(* A keyword is cut out if nothing matches it, and rendered again if what  *)
(* matches it differs.                                                     *)
LEMMA KeywordRegionsFacts ==
  ASSUME NEW s \in Seq(Items), NEW after, NEW R, R = KeywordRegions(s, after),
         NEW L, L = KeywordSpans(s), NEW n, n = Cardinality(KeywordsIn(s)),
         NEW K, K = Keywords(s), NEW m, m = Matched(K, after)
  PROVE  /\ \A r \in R: \E q \in 1 .. n:
              \/ m[q] = m[q - 1] /\ r = Region(L[q], L[q], << >>)
              \/ /\ m[q] # m[q - 1] /\ after[m[q]] # K[q]
                 /\ r = Region(L[q], L[q], <<RenderedKeyword(after[m[q]])>>)
         /\ \A q \in 1 .. n: m[q] = m[q - 1] => Region(L[q], L[q], << >>) \in R
         /\ \A q \in 1 .. n: m[q] # m[q - 1] /\ after[m[q]] # K[q]
                               => Region(L[q], L[q], <<RenderedKeyword(after[m[q]])>>) \in R
<1>1. DOMAIN L = 1 .. n
  BY KeywordsFacts
<1> DEFINE kept(q) == m[q] # m[q - 1]
           out(q) == Region(L[q], L[q], << >>)
           in(q) == Region(L[q], L[q], <<RenderedKeyword(after[m[q]])>>)
<1>2. R = {out(q): q \in {k \in DOMAIN L: ~kept(k)}}
          \cup {in(q): q \in {k \in DOMAIN L: kept(k) /\ after[m[k]] # K[k]}}
  BY DEF KeywordRegions
<1> HIDE DEF out, in
<1>3. /\ \A r \in R: \E q \in 1 .. n: \/ ~kept(q) /\ r = out(q)
                                      \/ kept(q) /\ after[m[q]] # K[q] /\ r = in(q)
      /\ \A q \in 1 .. n: ~kept(q) => out(q) \in R
      /\ \A q \in 1 .. n: kept(q) /\ after[m[q]] # K[q] => in(q) \in R
  <2> HIDE DEF kept
  <2>1. QED
    BY <1>1, <1>2
<1>4. QED
  BY <1>3 DEF out, in

(* A property is cut out if its id is gone, and rendered again if its      *)
(* value differs.                                                          *)
LEMMA PropertyRegionsFacts ==
  ASSUME NEW s \in Seq(Items), NEW after, NEW R, R = PropertyRegions(s, after),
         NEW P, P = Properties(s)
  PROVE  /\ \A r \in R: \E j \in PropertyEnds(s):
              \/ IdAt(s, j) \notin DOMAIN after /\ r = Region(StartOf(s, j), j, << >>)
              \/ /\ IdAt(s, j) \in DOMAIN after /\ after[IdAt(s, j)] # P[IdAt(s, j)]
                 /\ r = Region(StartOf(s, j), j,
                               <<RenderedProperty(IdAt(s, j), after[IdAt(s, j)])>>)
         /\ \A j \in PropertyEnds(s): IdAt(s, j) \notin DOMAIN after
              => Region(StartOf(s, j), j, << >>) \in R
         /\ \A j \in PropertyEnds(s): IdAt(s, j) \in DOMAIN after /\ after[IdAt(s, j)] # P[IdAt(s, j)]
              => Region(StartOf(s, j), j,
                        <<RenderedProperty(IdAt(s, j), after[IdAt(s, j)])>>) \in R
<1>1. PICK m \in Nat: m = Len(s) /\ DOMAIN s = 1 .. m
  OBVIOUS
<1>2. PICK S: S = PropertyEnds(s)
  OBVIOUS
<1>3. S \subseteq 1 .. m
  BY <1>1, <1>2 DEF PropertyEnds
<1>4. PICK n: n = Cardinality(S)
  OBVIOUS
<1>5. PICK L: L = PositionsInOrder(S)
  OBVIOUS
<1>6. /\ n \in Nat /\ DOMAIN L = 1 .. n
      /\ \A q \in 1 .. n: L[q] \in S
      /\ \A i \in S: \E q \in 1 .. n: L[q] = i
  BY <1>3, <1>4, <1>5, PositionsListed, ZenonT(30)
<1> DEFINE sp == PropertySpans(s)
           idOf(q) == s[sp[q][1]].id
           out(q) == Region(sp[q][1], sp[q][2], << >>)
           in(q) == Region(sp[q][1], sp[q][2], <<RenderedProperty(idOf(q), after[idOf(q)])>>)
<1>7. sp = [q \in DOMAIN L |-> SpanTo(s, L[q])]
  BY <1>2, <1>5, Zenon DEF PropertySpans
<1>8. R = {out(q): q \in {k \in DOMAIN sp: idOf(k) \notin DOMAIN after}}
          \cup {in(q): q \in {k \in DOMAIN sp: idOf(k) \in DOMAIN after /\ after[idOf(k)] # P[idOf(k)]}}
  BY DEF PropertyRegions
<1> HIDE DEF sp
<1>9. /\ DOMAIN sp = 1 .. n
      /\ \A q \in 1 .. n: sp[q][1] = StartOf(s, L[q]) /\ sp[q][2] = L[q] /\ idOf(q) = IdAt(s, L[q])
  <2>1. \A q \in 1 .. n: SpanTo(s, L[q])[2] = L[q]
    BY <1>2, <1>6, SpanFacts
  <2>2. QED
    BY <1>6, <1>7, <2>1 DEF StartOf, IdAt
<1> DEFINE gone(j) == Region(StartOf(s, j), j, << >>)
           new(j) == Region(StartOf(s, j), j, <<RenderedProperty(IdAt(s, j), after[IdAt(s, j)])>>)
<1>10. \A q \in 1 .. n: out(q) = gone(L[q]) /\ in(q) = new(L[q])
  BY <1>9, Zenon
<1> HIDE DEF out, in, gone, new, idOf
<1>11. /\ \A r \in R: \E q \in 1 .. n:
            \/ idOf(q) \notin DOMAIN after /\ r = out(q)
            \/ idOf(q) \in DOMAIN after /\ after[idOf(q)] # P[idOf(q)] /\ r = in(q)
       /\ \A q \in 1 .. n: idOf(q) \notin DOMAIN after => out(q) \in R
       /\ \A q \in 1 .. n: idOf(q) \in DOMAIN after /\ after[idOf(q)] # P[idOf(q)] => in(q) \in R
  BY <1>8, <1>9
<1>12. /\ \A r \in R: \E j \in S:
            \/ IdAt(s, j) \notin DOMAIN after /\ r = gone(j)
            \/ IdAt(s, j) \in DOMAIN after /\ after[IdAt(s, j)] # P[IdAt(s, j)] /\ r = new(j)
       /\ \A j \in S: IdAt(s, j) \notin DOMAIN after => gone(j) \in R
       /\ \A j \in S: IdAt(s, j) \in DOMAIN after /\ after[IdAt(s, j)] # P[IdAt(s, j)] => new(j) \in R
  BY <1>6, <1>9, <1>10, <1>11
<1>13. QED
  BY <1>2, <1>12 DEF gone, new

LocationsIn(s) == OfKind(s, {"location"})

(* Every location is given its new offset. *)
LEMMA LocationRegionsFacts ==
  ASSUME NEW s \in Seq(Items), NEW edit, NEW g, g = Guess(Attachments(s), edit), NEW r
  PROVE  r \in LocationRegions(s, edit)
           <=> \E i \in LocationsIn(s): r = Region(i, i, <<Moved(s[i], g)>>)
<1>1. PICK m \in Nat: m = Len(s) /\ DOMAIN s = 1 .. m
  OBVIOUS
<1>2. PICK S: S = LocationsIn(s)
  OBVIOUS
<1>3. S \subseteq 1 .. m
  BY <1>1, <1>2 DEF LocationsIn, OfKind
<1>4. PICK L: L = PositionsInOrder(S)
  OBVIOUS
<1>5. Locations(s) = L
  BY <1>2, <1>4 DEF Locations, At, LocationsIn, OfKind
<1>6. PICK n: n = Cardinality(S)
  OBVIOUS
<1>7. DOMAIN L = 1 .. n /\ (\A q \in 1 .. n: L[q] \in S) /\ \A i \in S: \E q \in 1 .. n: L[q] = i
  BY <1>3, <1>4, <1>6, PositionsListed, ZenonT(30)
<1>8. Range(L) = S
  BY <1>7 DEF Range
<1> DEFINE f(i) == Region(i, i, <<Moved(s[i], g)>>)
<1>9. LocationRegions(s, edit) = {f(i): i \in S}
  BY <1>5, <1>8 DEF LocationRegions
<1> HIDE DEF f
<1>10. r \in LocationRegions(s, edit) <=> \E i \in S: r = f(i)
  BY <1>9
<1>11. QED
  BY <1>2, <1>10 DEF f

-------------------------------------------------------------------------------
(* What is added *)

(* SetToSeq lists each member of a finite set once. *)
LEMMA SetListed ==
  ASSUME NEW S, IsFiniteSet(S), NEW f, f = SetToSeq(S), NEW c, c = Cardinality(S)
  PROVE  /\ c \in Nat /\ f \in [1 .. c -> S] /\ DOMAIN f = 1 .. c /\ Len(f) = c
         /\ \A x \in S: \E k \in 1 .. c: f[k] = x
         /\ \A k, l \in 1 .. c: f[k] = f[l] => k = l
<1>1. c \in Nat /\ ExistsBijection(1 .. c, S)
  BY FS_CardinalityType
<1>2. PICK b \in [1 .. c -> S]: IsInjective(b)
  BY <1>1 DEF ExistsBijection, Bijection, Injection
<1>3. f \in [1 .. c -> S] /\ IsInjective(f)
  BY <1>2 DEF SetToSeq
<1>4. f \in Injection(1 .. c, S)
  BY <1>3 DEF Injection
<1>5. IsFiniteSet(1 .. c) /\ Cardinality(1 .. c) = c
  BY <1>1, FS_Interval
<1>6. f \in Surjection(1 .. c, S)
  BY <1>4, <1>5, FS_Injection
<1>7. \A x \in S: \E k \in 1 .. c: f[k] = x
  BY <1>6 DEF Surjection
<1>8. DOMAIN f = 1 .. c /\ Len(f) = c
  BY <1>1, <1>3
<1>9. \A k, l \in 1 .. c: f[k] = f[l] => k = l
  BY <1>3, <1>8 DEF IsInjective
<1>10. QED
  BY <1>1, <1>3, <1>7, <1>8, <1>9

(* Texts of two items in a row: the k-th is at 2 k - 1 and 2 k.            *)
Pairs(u, v, n) == [k \in 1 .. n |-> <<u[k], v[k]>>]
AllItems(u, n) == \A k \in 1 .. n: u[k] \in Items

(* Flattened pairs are twice as many items, in that order.                 *)
LEMMA PairsInARow ==
  ASSUME NEW n \in Nat, NEW u, NEW v, AllItems(u, n), AllItems(v, n),
         NEW out, out = FlattenSeq(Pairs(u, v, n))
  PROVE  /\ out \in Seq(Items) /\ Len(out) = 2 * n
         /\ \A k \in 1 .. n: out[2 * k - 1] = u[k] /\ out[2 * k] = v[k]
<1>0. \A k \in 1 .. n: u[k] \in Items /\ v[k] \in Items
  BY DEF AllItems
<1>1. PICK t: t = [k \in 1 .. n |-> <<u[k], v[k]>>]
  OBVIOUS
<1>2. \A k \in 1 .. n: /\ t[k] \in Seq(Items) /\ Len(t[k]) = 2
                       /\ t[k][1] = u[k] /\ t[k][2] = v[k]
  <2>1. ASSUME NEW k \in 1 .. n
        PROVE  t[k] \in Seq(Items) /\ Len(t[k]) = 2 /\ t[k][1] = u[k] /\ t[k][2] = v[k]
    <3>1. PICK x \in Items, y \in Items: x = u[k] /\ y = v[k]
      BY <1>0
    <3>2. t[k] = <<x, y>>
      BY <1>1, <3>1
    <3>3. QED
      BY <3>1, <3>2
  <2>2. QED
    BY <2>1
<1>3. t \in [1 .. n -> Seq(Items)]
  <2>1. \A k \in 1 .. n: t[k] \in Seq(Items)
    BY <1>2
  <2>2. t = [k \in 1 .. n |-> t[k]]
    BY <1>1
  <2>3. QED
    BY <2>1, <2>2
<1>4. out = FlattenSeq(t)
  BY <1>1, Zenon DEF Pairs
<1>5. out \in Seq(Items) /\ \E B: Laid(t, n, B, out)
  BY <1>3, <1>4, FlattenLaid
<1>6. PICK B: Laid(t, n, B, out)
  BY <1>5
<1>7. /\ B \in [0 .. n -> Nat] /\ B[0] = 0 /\ Len(out) = B[n]
      /\ \A k \in 1 .. n: B[k] = B[k - 1] + Len(t[k])
      /\ \A k \in 1 .. n: \A l \in 1 .. Len(t[k]): out[B[k - 1] + l] = t[k][l]
  BY <1>6 DEF Laid
<1>8. \A k \in 1 .. n: B[k] = B[k - 1] + 2
  BY <1>2, <1>7
<1> DEFINE T == {k \in 0 .. n: B[k] # 2 * k}
<1>9. ASSUME T # {} PROVE FALSE
  <2>1. T \in SUBSET Nat
    OBVIOUS
  <2>2. PICK k \in T: \A w \in T: k <= w
    BY <1>9, <2>1, FirstExists
  <2>3. k # 0
    BY <1>7, <2>2
  <2>4. PICK j \in Nat: j = k - 1 /\ j \in 0 .. n /\ ~(k <= j) /\ k \in 1 .. n
    BY <2>2, <2>3
  <2>5. j \notin T
    BY <2>2, <2>4, Zenon
  <2>6. B[j] = 2 * j
    BY <2>4, <2>5
  <2>7. B[k] = B[j] + 2
    BY <1>8, <2>4
  <2>8. B[k] = 2 * k
    BY <2>4, <2>6, <2>7
  <2>9. QED
    BY <2>2, <2>8
<1>10. \A k \in 0 .. n: B[k] = 2 * k
  BY <1>9
<1>11. Len(out) = 2 * n
  <2>1. n \in 0 .. n
    OBVIOUS
  <2>2. QED
    BY <1>7, <1>10, <2>1
<1>12. ASSUME NEW k \in 1 .. n PROVE out[2 * k - 1] = u[k] /\ out[2 * k] = v[k]
  <2>1. PICK j \in 0 .. n: j = k - 1
    OBVIOUS
  <2>2. B[j] = 2 * j
    BY <1>10
  <2>3. 1 \in 1 .. Len(t[k]) /\ 2 \in 1 .. Len(t[k])
    BY <1>2
  <2>4. out[B[j] + 1] = t[k][1] /\ out[B[j] + 2] = t[k][2]
    BY <1>7, <2>1, <2>3
  <2>5. B[j] + 1 = 2 * k - 1 /\ B[j] + 2 = 2 * k
    BY <2>1, <2>2
  <2>6. QED
    BY <1>2, <2>4, <2>5
<1>13. QED
  BY <1>5, <1>11, <1>12

(* Additions are the keywords that matched nothing, then the new           *)
(* properties, each behind an indent.                                      *)
Added(s, after, A, M, nk, np, ids) ==
  /\ nk \in Nat /\ np \in Nat /\ M \in Nat /\ Len(after.keywords) = M + nk
  /\ ids \in [1 .. np -> DOMAIN after.properties \ DOMAIN Properties(s)]
  /\ \A id \in DOMAIN after.properties \ DOMAIN Properties(s): \E k \in 1 .. np: ids[k] = id
  /\ A \in Seq(Items) /\ Len(A) = 2 * nk + 2 * np
  /\ \A k \in 1 .. nk: /\ A[2 * k - 1] = Indent
                       /\ A[2 * k] = RenderedKeyword(after.keywords[M + k])
  /\ \A k \in 1 .. np: /\ A[2 * nk + 2 * k - 1] = Indent
                       /\ A[2 * nk + 2 * k]
                            = RenderedProperty(ids[k], after.properties[ids[k]])

(* What an edit adds: the keywords beyond the last match, then the new     *)
(* properties, each behind an indent (splice_bytes, "insertions").         *)
LEMMA AdditionsFacts ==
  ASSUME Printed, NEW s \in Seq(Items), NEW after \in Headers,
         NEW A, A = Additions(s, after),
         NEW M, M = Matched(Keywords(s), after.keywords)[Len(Keywords(s))]
  PROVE  \E nk, np, ids: Added(s, after, A, M, nk, np, ids)
<1>1. PICK K: K = Keywords(s)
  OBVIOUS
<1>2. PICK n: n = Cardinality(KeywordsIn(s))
  OBVIOUS
<1>3. n \in Nat /\ Len(K) = n
  <2>1. PICK L: L = KeywordSpans(s)
    OBVIOUS
  <2>2. QED
    BY <1>1, <1>2, <2>1, KeywordsFacts
<1>4. PICK kw: kw = after.keywords
  OBVIOUS
<1>5. PICK pr: pr = after.properties
  OBVIOUS
<1>6. /\ kw \in Seq(Keyword) /\ IsFiniteSet(DOMAIN pr)
      /\ \A id \in DOMAIN pr: id \in Strings /\ pr[id] \in Strings
  <2>1. after \in [keywords: Seq(Keyword), properties: UNION {[U -> Strings]: U \in SUBSET Strings}]
        /\ IsFiniteSet(DOMAIN pr)
    BY <1>5 DEF Headers
  <2>2. kw \in Seq(Keyword) /\ pr \in UNION {[U -> Strings]: U \in SUBSET Strings}
    BY <1>4, <1>5, <2>1
  <2>3. PICK U \in SUBSET Strings: pr \in [U -> Strings]
    BY <2>2
  <2>4. QED
    BY <2>1, <2>2, <2>3
<1>7. PICK k \in Nat: k = Len(kw)
  BY <1>6
<1>8. PICK m: m = Matched(K, kw)
  OBVIOUS
<1>9. m[n] \in 0 .. k /\ M = m[n]
  <2>1. m \in [0 .. n -> 0 .. k]
    BY <1>3, <1>7, <1>8, MatchedFacts DEF Matching
  <2>2. M = m[n]
    BY <1>1, <1>3, <1>4, <1>8
  <2>3. n \in 0 .. n
    BY <1>3
  <2>4. QED
    BY <2>1, <2>2, <2>3
<1>10. PICK nk \in Nat: nk = k - M
  BY <1>9
<1>11. PICK kws: kws = SubSeq(kw, M + 1, k)
  OBVIOUS
<1>12. /\ kws \in Seq(Keyword) /\ Len(kws) = nk /\ DOMAIN kws = 1 .. nk
       /\ \A x \in 1 .. nk: kws[x] = kw[M + x]
  <2>1. \A i \in M + 1 .. k: i \in 1 .. k
    BY <1>9
  <2>2. \A i \in M + 1 .. k: kw[i] \in Keyword
    BY <1>6, <1>7, <2>1
  <2>3. PICK f \in Int: f = M + 1
    BY <1>9
  <2>4. k \in Int
    OBVIOUS
  <2>5. /\ kws \in Seq(Keyword)
        /\ Len(kws) = IF f <= k THEN k - f + 1 ELSE 0
        /\ \A i \in 1 .. k - f + 1: kws[i] = kw[f + i - 1]
    <3>1. \A i \in f .. k: kw[i] \in Keyword
      BY <2>2, <2>3
    <3>2. kws = SubSeq(kw, f, k)
      BY <1>11, <2>3
    <3>3. QED
      BY <2>4, <3>1, <3>2, SubSeqProperties
  <2>6. Len(kws) = nk /\ k - f + 1 = nk
    BY <1>9, <1>10, <2>3, <2>5, SMTT(30)
  <2>7. \A x \in 1 .. nk: f + x - 1 = M + x
    BY <1>9, <2>3
  <2>8. QED
    BY <2>5, <2>6, <2>7
<1>13. PICK D: D = DOMAIN pr \ DOMAIN Properties(s)
  OBVIOUS
<1>14. IsFiniteSet(D)
  BY <1>6, <1>13, FS_Subset
<1>15. PICK ids: ids = SetToSeq(D)
  OBVIOUS
<1>16. PICK np: np = Cardinality(D)
  OBVIOUS
<1>17. /\ np \in Nat /\ ids \in [1 .. np -> D] /\ DOMAIN ids = 1 .. np
       /\ \A x \in D: \E q \in 1 .. np: ids[q] = x
  BY <1>14, <1>15, <1>16, SetListed
<1>18. Indent \in Items
  BY IndentItem
<1>19. \A x \in 1 .. nk: RenderedKeyword(kws[x]) \in Items
  <2>1. \A x \in 1 .. nk: kws[x] \in Keyword
    BY <1>12
  <2>2. \A y \in Keyword: y.name \in Strings /\ y.val \in Strings
    BY DEF Keyword
  <2>3. QED
    BY <2>1, <2>2, RenderedItems
<1>20. \A x \in 1 .. np: RenderedProperty(ids[x], pr[ids[x]]) \in Items
  <2>1. \A x \in 1 .. np: ids[x] \in DOMAIN pr
    BY <1>13, <1>17
  <2>2. QED
    BY <1>6, <2>1, RenderedItems
<1>21. PICK ind: ind = Indent
  OBVIOUS
<1>22. PICK a1: a1 = FlattenSeq([x \in 1 .. nk |-> <<ind, RenderedKeyword(kws[x])>>])
  OBVIOUS
<1>23. PICK a2: a2 = FlattenSeq([x \in 1 .. np |-> <<ind, RenderedProperty(ids[x], pr[ids[x]])>>])
  OBVIOUS
<1>24. A = a1 \o a2
  <2>1. A = FlattenSeq([x \in DOMAIN kws |-> <<Indent, RenderedKeyword(kws[x])>>])
            \o FlattenSeq([x \in DOMAIN ids |-> <<Indent, RenderedProperty(ids[x], pr[ids[x]])>>])
    <3>1. A = Additions(s, after)
      OBVIOUS
    <3>2. SubSeq(after.keywords, Matched(Keywords(s), after.keywords)[Len(Keywords(s))] + 1,
                 Len(after.keywords)) = kws
      BY <1>4, <1>7, <1>11, Zenon
    <3>3. SetToSeq(DOMAIN after.properties \ DOMAIN Properties(s)) = ids
      BY <1>5, <1>13, <1>15, Zenon
    <3>4. QED
      BY <1>5, <3>1, <3>2, <3>3, Zenon DEF Additions
  <2>2. QED
    BY <1>12, <1>17, <1>21, <1>22, <1>23, <2>1, Zenon
<1>25. /\ a1 \in Seq(Items) /\ Len(a1) = 2 * nk
       /\ \A x \in 1 .. nk: a1[2 * x - 1] = ind /\ a1[2 * x] = RenderedKeyword(kws[x])
  <2>1. PICK u: u = [x \in 1 .. nk |-> ind]
    OBVIOUS
  <2>2. PICK v: v = [x \in 1 .. nk |-> RenderedKeyword(kws[x])]
    OBVIOUS
  <2>3. \A x \in 1 .. nk: /\ u[x] = ind /\ v[x] = RenderedKeyword(kws[x])
                          /\ u[x] \in Items /\ v[x] \in Items
    BY <1>18, <1>19, <1>21, <2>1, <2>2
  <2>4. a1 = FlattenSeq(Pairs(u, v, nk)) /\ AllItems(u, nk) /\ AllItems(v, nk)
    <3>1. [x \in 1 .. nk |-> <<u[x], v[x]>>] = [x \in 1 .. nk |-> <<ind, RenderedKeyword(kws[x])>>]
      BY <2>3
    <3>2. AllItems(u, nk) /\ AllItems(v, nk)
      BY <2>3 DEF AllItems
    <3>3. QED
      BY <1>22, <3>1, <3>2, Zenon DEF Pairs
  <2>5. /\ a1 \in Seq(Items) /\ Len(a1) = 2 * nk
        /\ \A x \in 1 .. nk: a1[2 * x - 1] = u[x] /\ a1[2 * x] = v[x]
    <3>1. PICK c \in Nat: c = nk
      OBVIOUS
    <3>2. a1 = FlattenSeq(Pairs(u, v, c)) /\ AllItems(u, c) /\ AllItems(v, c)
      BY <2>4, <3>1
    <3>3. /\ a1 \in Seq(Items) /\ Len(a1) = 2 * c
          /\ \A x \in 1 .. c: a1[2 * x - 1] = u[x] /\ a1[2 * x] = v[x]
      BY <3>2, PairsInARow
    <3>4. QED
      BY <3>1, <3>3
  <2>6. QED
    BY <2>3, <2>5
<1>26. /\ a2 \in Seq(Items) /\ Len(a2) = 2 * np
       /\ \A x \in 1 .. np: a2[2 * x - 1] = ind /\ a2[2 * x] = RenderedProperty(ids[x], pr[ids[x]])
  <2>1. PICK u: u = [x \in 1 .. np |-> ind]
    OBVIOUS
  <2>2. PICK v: v = [x \in 1 .. np |-> RenderedProperty(ids[x], pr[ids[x]])]
    OBVIOUS
  <2>3. \A x \in 1 .. np: /\ u[x] = ind /\ v[x] = RenderedProperty(ids[x], pr[ids[x]])
                          /\ u[x] \in Items /\ v[x] \in Items
    BY <1>18, <1>20, <1>21, <2>1, <2>2
  <2>4. a2 = FlattenSeq(Pairs(u, v, np)) /\ AllItems(u, np) /\ AllItems(v, np)
    <3>1. [x \in 1 .. np |-> <<u[x], v[x]>>]
            = [x \in 1 .. np |-> <<ind, RenderedProperty(ids[x], pr[ids[x]])>>]
      BY <2>3
    <3>2. AllItems(u, np) /\ AllItems(v, np)
      BY <2>3 DEF AllItems
    <3>3. QED
      BY <1>23, <3>1, <3>2, Zenon DEF Pairs
  <2>5. np \in Nat
    BY <1>17
  <2>6. /\ a2 \in Seq(Items) /\ Len(a2) = 2 * np
        /\ \A x \in 1 .. np: a2[2 * x - 1] = u[x] /\ a2[2 * x] = v[x]
    <3>1. PICK c \in Nat: c = np
      BY <2>5
    <3>2. a2 = FlattenSeq(Pairs(u, v, c)) /\ AllItems(u, c) /\ AllItems(v, c)
      BY <2>4, <3>1
    <3>3. /\ a2 \in Seq(Items) /\ Len(a2) = 2 * c
          /\ \A x \in 1 .. c: a2[2 * x - 1] = u[x] /\ a2[2 * x] = v[x]
      BY <3>2, PairsInARow
    <3>4. QED
      BY <3>1, <3>3
  <2>7. QED
    BY <2>3, <2>6
<1>27. /\ A \in Seq(Items) /\ Len(A) = 2 * nk + 2 * np
       /\ \A p \in 1 .. 2 * nk: A[p] = a1[p]
       /\ \A p \in 1 .. 2 * np: A[2 * nk + p] = a2[p]
  <2>1. A \in Seq(Items) /\ Len(A) = Len(a1) + Len(a2)
        /\ \A p \in 1 .. Len(a1) + Len(a2): A[p] = IF p <= Len(a1) THEN a1[p] ELSE a2[p - Len(a1)]
    BY <1>24, <1>25, <1>26, ConcatProperties
  <2>2. np \in Nat /\ Len(a1) = 2 * nk /\ Len(a2) = 2 * np
    BY <1>17, <1>25, <1>26
  <2>3. \A p \in 1 .. 2 * nk: A[p] = a1[p]
    BY <2>1, <2>2
  <2>4. ASSUME NEW p \in 1 .. 2 * np PROVE A[2 * nk + p] = a2[p]
    <3>1. PICK c \in Nat: c = 2 * nk + p
      BY <2>2
    <3>2. c \in 1 .. Len(a1) + Len(a2) /\ ~(c <= Len(a1)) /\ c - Len(a1) = p
      BY <2>2, <3>1
    <3>3. QED
      BY <2>1, <3>1, <3>2
  <2>5. QED
    BY <2>1, <2>2, <2>3, <2>4
<1>28. ASSUME NEW x \in 1 .. nk
       PROVE  A[2 * x - 1] = Indent /\ A[2 * x] = RenderedKeyword(kw[M + x])
  <2>1. 2 * x - 1 \in 1 .. 2 * nk /\ 2 * x \in 1 .. 2 * nk
    OBVIOUS
  <2>2. QED
    BY <1>12, <1>21, <1>25, <1>27, <2>1
<1>29. ASSUME NEW x \in 1 .. np
       PROVE  /\ A[2 * nk + 2 * x - 1] = Indent
              /\ A[2 * nk + 2 * x] = RenderedProperty(ids[x], pr[ids[x]])
  <2>1. PICK y, z: y = 2 * x - 1 /\ z = 2 * x
    OBVIOUS
  <2>2. y \in 1 .. 2 * np /\ z \in 1 .. 2 * np /\ 2 * nk + y = 2 * nk + 2 * x - 1
        /\ 2 * nk + z = 2 * nk + 2 * x
    BY <1>17, <2>1
  <2>3. A[2 * nk + y] = a2[y] /\ A[2 * nk + z] = a2[z]
    BY <1>27, <2>2
  <2>4. a2[y] = Indent /\ a2[z] = RenderedProperty(ids[x], pr[ids[x]])
    BY <1>21, <1>26, <2>1
  <2>5. QED
    BY <2>2, <2>3, <2>4
<1>30. k = M + nk /\ M \in Nat
  BY <1>9, <1>10
<1>31. Added(s, after, A, M, nk, np, ids)
  BY <1>4, <1>5, <1>7, <1>13, <1>17, <1>27, <1>28, <1>29, <1>30 DEF Added
<1>32. QED
  BY <1>31

-------------------------------------------------------------------------------
(* What a region may do *)

KeywordChange(s, r) ==
  /\ r.first \in KeywordsIn(s) /\ r.last = r.first
  /\ r.new = << >> \/ \E kw \in Keyword: r.new = <<RenderedKeyword(kw)>>
PropertyChange(s, r) ==
  \E j \in PropertyEnds(s):
    /\ r.first = StartOf(s, j) /\ r.last = j
    /\ r.new = << >> \/ \E v \in Strings: r.new = <<RenderedProperty(IdAt(s, j), v)>>
Insertion(s, r) ==
  /\ r.first \in OfKind(s, {"imageend"}) /\ r.last = r.first - 1
  /\ \A e \in OfKind(s, {"imageend"}): r.first <= e
  /\ r.new \in Seq(Items)
  /\ \A k \in 1 .. Len(r.new): r.new[k].kind \in {"text", "keyword", "property"}
Relocated(s, d, r) ==
  /\ r.first \in LocationsIn(s) /\ r.last = r.first
  /\ r.new = <<Moved(s[r.first], d)>> /\ Moved(s[r.first], d) \in Items
Cuts(s, d, R) ==
  /\ \A r \in R: \/ KeywordChange(s, r) \/ PropertyChange(s, r)
                 \/ Insertion(s, r) \/ Relocated(s, d, r)
  /\ \A q, r \in R: Insertion(s, q) /\ Insertion(s, r) => q = r

(* Where a region starts tells what it does, and what it writes.           *)
LEMMA CutStarts ==
  ASSUME NEW s \in Seq(Items), NEW d, NEW r
  PROVE  /\ KeywordChange(s, r) =>
              /\ r.first \in 1 .. Len(s) /\ r.last = r.first
              /\ s[r.first].kind \in {"keyword", "keywordstart"}
         /\ PropertyChange(s, r) =>
              /\ r.first \in 1 .. Len(s) /\ r.last \in 1 .. Len(s) /\ r.first <= r.last
              /\ s[r.first].kind \in {"property", "propertystart"}
         /\ Insertion(s, r) =>
              /\ r.first \in 1 .. Len(s) /\ r.last = r.first - 1 /\ s[r.first].kind = "imageend"
         /\ Relocated(s, d, r) =>
              /\ r.first \in 1 .. Len(s) /\ r.last = r.first /\ s[r.first].kind = "location"
<1>1. DOMAIN s = 1 .. Len(s) /\ Len(s) \in Nat
  OBVIOUS
<1>2. ASSUME PropertyChange(s, r)
      PROVE  /\ r.first \in 1 .. Len(s) /\ r.last \in 1 .. Len(s) /\ r.first <= r.last
             /\ s[r.first].kind \in {"property", "propertystart"}
  <2>1. PICK j \in PropertyEnds(s): r.first = StartOf(s, j) /\ r.last = j
    BY <1>2 DEF PropertyChange
  <2>2. /\ j \in 1 .. Len(s) /\ StartOf(s, j) \in 1 .. Len(s) /\ StartOf(s, j) <= j
        /\ s[StartOf(s, j)].kind \in {"property", "propertystart"}
    BY SpanFacts
  <2>3. QED
    BY <2>1, <2>2
<1>3. KeywordChange(s, r) =>
              /\ r.first \in 1 .. Len(s) /\ r.last = r.first
              /\ s[r.first].kind \in {"keyword", "keywordstart"}
  BY <1>1 DEF KeywordChange, KeywordsIn, OfKind
<1>4. Insertion(s, r) =>
              /\ r.first \in 1 .. Len(s) /\ r.last = r.first - 1 /\ s[r.first].kind = "imageend"
  BY <1>1 DEF Insertion, OfKind
<1>5. Relocated(s, d, r) =>
              /\ r.first \in 1 .. Len(s) /\ r.last = r.first /\ s[r.first].kind = "location"
  BY <1>1 DEF Relocated, LocationsIn, OfKind
<1>6. QED
  BY <1>2, <1>3, <1>4, <1>5

(* What a region writes are items. *)
LEMMA CutWrites ==
  ASSUME Printed, NEW s \in Seq(Items), NEW d, NEW r,
         \/ KeywordChange(s, r) \/ PropertyChange(s, r) \/ Insertion(s, r) \/ Relocated(s, d, r)
  PROVE  /\ r.new \in Seq(Items)
         /\ \A k \in 1 .. Len(r.new): r.new[k].kind \in {"text", "keyword", "property", "location"}
         /\ \A k \in 1 .. Len(r.new): r.new[k].kind = "location"
              => Relocated(s, d, r) /\ r.new[k] = Moved(s[r.first], d)
<1>1. CASE KeywordChange(s, r)
  <2>1. CASE r.new = << >>
    BY <2>1
  <2>2. CASE \E kw \in Keyword: r.new = <<RenderedKeyword(kw)>>
    <3>1. PICK kw \in Keyword: r.new = <<RenderedKeyword(kw)>>
      BY <2>2
    <3>2. kw.name \in Strings /\ kw.val \in Strings
      BY DEF Keyword
    <3>3. PICK x \in Items: x = RenderedKeyword(kw) /\ x.kind = "keyword"
      BY <3>2, RenderedItems
    <3>4. r.new = <<x>>
      BY <3>1, <3>3
    <3>5. QED
      BY <3>3, <3>4
  <2>3. QED
    BY <1>1, <2>1, <2>2 DEF KeywordChange
<1>2. CASE PropertyChange(s, r)
  <2>1. PICK j \in PropertyEnds(s):
          r.new = << >> \/ \E v \in Strings: r.new = <<RenderedProperty(IdAt(s, j), v)>>
    BY <1>2 DEF PropertyChange
  <2>2. CASE r.new = << >>
    BY <2>2
  <2>3. CASE \E v \in Strings: r.new = <<RenderedProperty(IdAt(s, j), v)>>
    <3>1. PICK v \in Strings: r.new = <<RenderedProperty(IdAt(s, j), v)>>
      BY <2>3
    <3>2. IdAt(s, j) \in Strings
      <4>1. PICK i: i = StartOf(s, j)
        OBVIOUS
      <4>2. i \in 1 .. Len(s)
        BY <4>1, SpanFacts
      <4>3. s[i] \in Items
        BY <4>2
      <4>4. QED
        BY <4>1, <4>3 DEF IdAt, Items
    <3>3. PICK x \in Items: x = RenderedProperty(IdAt(s, j), v) /\ x.kind = "property"
      BY <3>2, RenderedItems
    <3>4. r.new = <<x>>
      BY <3>1, <3>3
    <3>5. QED
      BY <3>3, <3>4
  <2>4. QED
    BY <2>1, <2>2, <2>3
<1>3. CASE Insertion(s, r)
  BY <1>3 DEF Insertion
<1>4. CASE Relocated(s, d, r)
  <2>1. r.new = <<Moved(s[r.first], d)>> /\ Moved(s[r.first], d) \in Items
    BY <1>4 DEF Relocated
  <2>2. PICK x \in Items: x = Moved(s[r.first], d) /\ x.kind = "location"
    BY <2>1, MovedItem
  <2>3. r.new = <<x>>
    BY <2>1, <2>2
  <2>4. QED
    BY <1>4, <2>2, <2>3
<1>5. QED
  BY <1>1, <1>2, <1>3, <1>4

(* Such regions fit the header if they are apart. *)
LEMMA CutsFit ==
  ASSUME Printed, NEW s \in Seq(Items), NEW d, NEW R, Cuts(s, d, R), Disjoint(R)
  PROVE  Fit(s, R)
<1>1. \A r \in R: KeywordChange(s, r) \/ PropertyChange(s, r) \/ Insertion(s, r) \/ Relocated(s, d, r)
  BY DEF Cuts
<1>2. Len(s) \in Nat
  OBVIOUS
<1>3. ASSUME NEW r \in R
      PROVE  /\ r.first \in Nat /\ r.last \in Nat /\ r.new \in Seq(Items)
             /\ 1 <= r.first /\ r.first <= r.last + 1 /\ r.last <= Len(s)
  <2>1. r.new \in Seq(Items)
    BY <1>1, CutWrites
  <2>2. /\ r.first \in 1 .. Len(s)
        /\ \/ r.last \in 1 .. Len(s) /\ r.first <= r.last
           \/ r.last = r.first - 1
    <3>1. CASE KeywordChange(s, r)
      <4>1. r.first \in 1 .. Len(s) /\ r.last = r.first
        BY <3>1, CutStarts
      <4>2. QED
        BY <1>2, <4>1
    <3>2. CASE PropertyChange(s, r)
      BY <3>2, CutStarts
    <3>3. CASE Insertion(s, r)
      BY <3>3, CutStarts
    <3>4. CASE Relocated(s, d, r)
      <4>1. r.first \in 1 .. Len(s) /\ r.last = r.first
        BY <3>4, CutStarts
      <4>2. QED
        BY <1>2, <4>1
    <3>5. QED
      BY <1>1, <3>1, <3>2, <3>3, <3>4
  <2>3. QED
    BY <1>2, <2>1, <2>2
<1>4. ASSUME NEW q \in R, NEW r \in R, q.first = r.first, q # r PROVE FALSE
  <2>1. q.last < r.first \/ r.last < q.first
    BY <1>4 DEF Disjoint
  <2>2. q.last < q.first \/ r.last < r.first
    BY <1>4, <2>1
  <2>3. \A p \in R: p.last < p.first => Insertion(s, p)
    <3>1. ASSUME NEW p \in R, p.last < p.first PROVE Insertion(s, p)
      <4>1. ~(p.first <= p.last) /\ p.last # p.first
        BY <1>3, <3>1
      <4>2. ~KeywordChange(s, p) /\ ~PropertyChange(s, p) /\ ~Relocated(s, d, p)
        <5>1. ~KeywordChange(s, p)
          BY <4>1, CutStarts
        <5>2. ~PropertyChange(s, p)
          BY <4>1, CutStarts
        <5>3. ~Relocated(s, d, p)
          BY <4>1, CutStarts
        <5>4. QED
          BY <5>1, <5>2, <5>3
      <4>3. QED
        BY <1>1, <4>2
    <3>2. QED
      BY <3>1
  <2>4. s[q.first].kind = "imageend"
    <3>1. CASE Insertion(s, q)
      BY <3>1, CutStarts
    <3>2. CASE Insertion(s, r)
      BY <1>4, <3>2, CutStarts
    <3>3. QED
      BY <2>2, <2>3, <3>1, <3>2
  <2>5. \A p \in R: s[p.first].kind = "imageend" => Insertion(s, p)
    <3>1. ASSUME NEW p \in R, s[p.first].kind = "imageend" PROVE Insertion(s, p)
      <4>1. ~KeywordChange(s, p) /\ ~PropertyChange(s, p) /\ ~Relocated(s, d, p)
        BY <3>1, CutStarts
      <4>2. QED
        BY <1>1, <4>1
    <3>2. QED
      BY <3>1
  <2>6. Insertion(s, q) /\ Insertion(s, r)
    BY <1>4, <2>4, <2>5
  <2>7. QED
    BY <1>4, <2>6 DEF Cuts
<1>5. QED
  BY <1>3, <1>4 DEF Fit

(* So do fewer. *)
LEMMA FitFewer ==
  ASSUME NEW s, NEW R, Fit(s, R), NEW C \in SUBSET R
  PROVE  Fit(s, C)
<1>1. \A r \in C: r \in R
  OBVIOUS
<1>2. QED
  BY <1>1 DEF Fit, Disjoint

-------------------------------------------------------------------------------
(* The regions of an update *)

(* The regions of an edit are of these kinds. *)
LEMMA ContentKinds ==
  ASSUME Printed, NEW s \in Seq(Items), NEW after \in Headers,
         Additions(s, after) # << >> => InsertionPoint(s) # << >>
  PROVE  /\ \A r \in KeywordRegions(s, after.keywords): KeywordChange(s, r)
         /\ \A r \in PropertyRegions(s, after.properties): PropertyChange(s, r)
         /\ \A r \in InsertionRegions(s, after):
              /\ Insertion(s, r) /\ r.new = Additions(s, after)
              /\ r = Region(InsertionPoint(s)[1], InsertionPoint(s)[1] - 1, Additions(s, after))
<1>1. PICK kw: kw = after.keywords
  OBVIOUS
<1>2. PICK pr: pr = after.properties
  OBVIOUS
<1>3. /\ kw \in Seq(Keyword) /\ \A id \in DOMAIN pr: pr[id] \in Strings
  <2>1. after \in [keywords: Seq(Keyword), properties: UNION {[U -> Strings]: U \in SUBSET Strings}]
    BY DEF Headers
  <2>2. kw \in Seq(Keyword) /\ pr \in UNION {[U -> Strings]: U \in SUBSET Strings}
    BY <1>1, <1>2, <2>1
  <2>3. PICK U \in SUBSET Strings: pr \in [U -> Strings]
    BY <2>2
  <2>4. QED
    BY <2>2, <2>3
<1>4. ASSUME NEW r \in KeywordRegions(s, kw) PROVE KeywordChange(s, r)
  <2>1. PICK L: L = KeywordSpans(s)
    OBVIOUS
  <2>2. PICK n: n = Cardinality(KeywordsIn(s))
    OBVIOUS
  <2>3. PICK K: K = Keywords(s)
    OBVIOUS
  <2>4. PICK m: m = Matched(K, kw)
    OBVIOUS
  <2>5. n \in Nat /\ Len(K) = n /\ \A q \in 1 .. n: L[q] \in KeywordsIn(s)
    BY <2>1, <2>2, <2>3, KeywordsFacts
  <2>6. PICK k \in Nat: k = Len(kw)
    BY <1>3
  <2>7. PICK q \in 1 .. n:
              \/ m[q] = m[q - 1] /\ r = Region(L[q], L[q], << >>)
              \/ m[q] # m[q - 1] /\ r = Region(L[q], L[q], <<RenderedKeyword(kw[m[q]])>>)
    <3>1. PICK R: R = KeywordRegions(s, kw)
      OBVIOUS
    <3>2. \A x \in R: \E q \in 1 .. n:
              \/ m[q] = m[q - 1] /\ x = Region(L[q], L[q], << >>)
              \/ /\ m[q] # m[q - 1] /\ kw[m[q]] # K[q]
                 /\ x = Region(L[q], L[q], <<RenderedKeyword(kw[m[q]])>>)
      BY <2>1, <2>2, <2>3, <2>4, <3>1, KeywordRegionsFacts, SMTT(30)
    <3>3. QED
      BY <3>1, <3>2
  <2>8. m[q] # m[q - 1] => kw[m[q]] \in Keyword
    <3>1. m[q] = m[q - 1] \/ m[q] \in 1 .. k
      BY <2>4, <2>5, <2>6, MatchedFacts DEF Matching
    <3>2. QED
      BY <1>3, <2>6, <3>1
  <2>9. \A x: /\ Region(L[q], L[q], x).first = L[q] /\ Region(L[q], L[q], x).last = L[q]
              /\ Region(L[q], L[q], x).new = x
    BY RegionFields
  <2>10. /\ r.first = L[q] /\ r.last = L[q]
         /\ r.new = << >> \/ (m[q] # m[q - 1] /\ r.new = <<RenderedKeyword(kw[m[q]])>>)
    BY <2>7, <2>9, Zenon
  <2>11. QED
    BY <2>5, <2>8, <2>10 DEF KeywordChange
<1>5. ASSUME NEW r \in PropertyRegions(s, pr) PROVE PropertyChange(s, r)
  <2>1. PICK j \in PropertyEnds(s):
              \/ r = Region(StartOf(s, j), j, << >>)
              \/ /\ IdAt(s, j) \in DOMAIN pr
                 /\ r = Region(StartOf(s, j), j, <<RenderedProperty(IdAt(s, j), pr[IdAt(s, j)])>>)
    <3>1. PICK R: R = PropertyRegions(s, pr)
      OBVIOUS
    <3>2. PICK P: P = Properties(s)
      OBVIOUS
    <3>3. \A x \in R: \E j \in PropertyEnds(s):
              \/ IdAt(s, j) \notin DOMAIN pr /\ x = Region(StartOf(s, j), j, << >>)
              \/ /\ IdAt(s, j) \in DOMAIN pr /\ pr[IdAt(s, j)] # P[IdAt(s, j)]
                 /\ x = Region(StartOf(s, j), j,
                               <<RenderedProperty(IdAt(s, j), pr[IdAt(s, j)])>>)
      BY <3>1, <3>2, PropertyRegionsFacts
    <3>4. QED
      BY <3>1, <3>3
  <2>2. PICK i: i = StartOf(s, j)
    OBVIOUS
  <2>3. PICK v: v = pr[IdAt(s, j)]
    OBVIOUS
  <2>4. IdAt(s, j) \in DOMAIN pr => v \in Strings
    BY <1>3, <2>3
  <2>5. \/ r = Region(i, j, << >>)
        \/ v \in Strings /\ r = Region(i, j, <<RenderedProperty(IdAt(s, j), v)>>)
    BY <2>1, <2>2, <2>3, <2>4
  <2>6. \A x: Region(i, j, x).first = i /\ Region(i, j, x).last = j /\ Region(i, j, x).new = x
    BY RegionFields
  <2>7. /\ r.first = i /\ r.last = j
        /\ r.new = << >> \/ (v \in Strings /\ r.new = <<RenderedProperty(IdAt(s, j), v)>>)
    BY <2>5, <2>6, Zenon
  <2>8. QED
    BY <2>2, <2>7 DEF PropertyChange
<1>6. ASSUME NEW r \in InsertionRegions(s, after)
      PROVE  /\ Insertion(s, r) /\ r.new = Additions(s, after)
             /\ r = Region(InsertionPoint(s)[1], InsertionPoint(s)[1] - 1, Additions(s, after))
  <2>1. PICK A: A = Additions(s, after)
    OBVIOUS
  <2>2. PICK p: p = InsertionPoint(s)[1]
    OBVIOUS
  <2>3. A # << >> /\ r = Region(p, p - 1, A)
    BY <1>6, <2>1, <2>2 DEF InsertionRegions
  <2>4. p \in OfKind(s, {"imageend"}) /\ \A e \in OfKind(s, {"imageend"}): p <= e
    <3>1. PICK S: S = OfKind(s, {"imageend"})
      OBVIOUS
    <3>2. PICK n \in Nat: n = Len(s)
      OBVIOUS
    <3>3. S \subseteq 1 .. n
      BY <3>1, <3>2 DEF OfKind
    <3>4. PICK L: L = PositionsInOrder(S)
      OBVIOUS
    <3>5. InsertionPoint(s) = L
      BY <3>1, <3>4 DEF InsertionPoint, At, OfKind
    <3>6. PICK c: c = Cardinality(S)
      OBVIOUS
    <3>7. c \in Nat /\ DOMAIN L = 1 .. c /\ (\A k \in 1 .. c: L[k] \in S) /\ L \in [1 .. c -> S]
      <4>1. Lists(L, c, S) /\ DOMAIN L = 1 .. c /\ \A k \in 1 .. c: L[k] \in S
        BY <3>3, <3>4, <3>6, PositionsListed
      <4>2. QED
        BY <4>1 DEF Lists
    <3>11. /\ \A k, m \in 1 .. c: k < m => L[k] < L[m]
           /\ \A e \in S: \E k \in 1 .. c: L[k] = e
      <4>1. Lists(L, c, S)
        BY <3>3, <3>4, <3>6, PositionsListed
      <4>2. QED
        BY <4>1 DEF Lists
    <3>8. c # 0
      <4>1. L # << >>
        BY <2>1, <2>3, <3>5
      <4>2. ASSUME c = 0 PROVE L = << >>
        BY <3>7, <4>2
      <4>3. QED
        BY <4>1, <4>2
    <3>9. 1 \in 1 .. c
      BY <3>7, <3>8
    <3>12. ASSUME NEW e \in S PROVE L[1] <= e
      <4>1. PICK k \in 1 .. c: L[k] = e
        BY <3>11
      <4>2. k = 1 \/ 1 < k
        BY <3>7, <4>1
      <4>3. 1 < k => L[1] < L[k]
        BY <3>9, <3>11, <4>1
      <4>4. L[1] \in Nat /\ L[k] \in Nat
        <5>1. \A x \in S: x \in Nat
          BY <3>2, <3>3
        <5>2. L[1] \in S /\ L[k] \in S
          BY <3>7, <3>9
        <5>3. QED
          BY <5>1, <5>2
      <4>5. QED
        BY <4>1, <4>2, <4>3, <4>4
    <3>10. QED
      BY <2>2, <3>1, <3>5, <3>7, <3>9, <3>12
  <2>5. A \in Seq(Items) /\ \A k \in 1 .. Len(A): A[k].kind \in {"text", "keyword", "property"}
    <3>1. PICK M: M = Matched(Keywords(s), after.keywords)[Len(Keywords(s))]
      OBVIOUS
    <3>2. PICK nk, np, ids: Added(s, after, A, M, nk, np, ids)
      BY <2>1, <3>1, AdditionsFacts
    <3>3. nk \in Nat /\ np \in Nat /\ Len(A) = 2 * nk + 2 * np /\ A \in Seq(Items)
      BY <3>2 DEF Added
    <3>4. \A k \in 1 .. nk: A[2 * k - 1].kind = "text" /\ A[2 * k].kind = "keyword"
      <4>1. ASSUME NEW k \in 1 .. nk PROVE A[2 * k - 1].kind = "text" /\ A[2 * k].kind = "keyword"
        <5>1. A[2 * k - 1] = Indent /\ A[2 * k] = RenderedKeyword(after.keywords[M + k])
          BY <3>2 DEF Added
        <5>2. QED
          BY <5>1, IndentItem, RenderedItems
      <4>2. QED
        BY <4>1
    <3>5. \A k \in 1 .. np: A[2 * nk + 2 * k - 1].kind = "text" /\ A[2 * nk + 2 * k].kind = "property"
      <4>1. ASSUME NEW k \in 1 .. np
            PROVE  A[2 * nk + 2 * k - 1].kind = "text" /\ A[2 * nk + 2 * k].kind = "property"
        <5>1. A[2 * nk + 2 * k - 1] = Indent
              /\ A[2 * nk + 2 * k] = RenderedProperty(ids[k], after.properties[ids[k]])
          BY <3>2 DEF Added
        <5>2. QED
          BY <5>1, IndentItem, RenderedItems
      <4>2. QED
        BY <4>1
    <3>6. ASSUME NEW k \in 1 .. Len(A) PROVE A[k].kind \in {"text", "keyword", "property"}
      <4>1. PICK h \in Nat: k = 2 * h \/ k = 2 * h - 1
        <5>1. k = 2 * ((k + 1) \div 2) \/ k = 2 * ((k + 1) \div 2) - 1
          BY <3>3
        <5>2. (k + 1) \div 2 \in Nat
          BY <3>3
        <5>3. QED
          BY <5>1, <5>2
      <4>2. CASE h <= nk
        <5>1. h \in 1 .. nk
          BY <3>3, <4>1, <4>2
        <5>2. QED
          BY <3>4, <4>1, <5>1
      <4>3. CASE h > nk
        <5>1. PICK g \in 1 .. np: h = nk + g
          BY <3>3, <4>1, <4>3
        <5>2. k = 2 * nk + 2 * g \/ k = 2 * nk + 2 * g - 1
          BY <3>3, <4>1, <5>1
        <5>3. QED
          BY <3>5, <5>2
      <4>4. QED
        BY <3>3, <4>2, <4>3
    <3>7. QED
      BY <3>3, <3>6
  <2>6. r.first = p /\ r.last = p - 1 /\ r.new = A
    BY <2>3, RegionFields
  <2>7. QED
    BY <2>1, <2>2, <2>3, <2>4, <2>5, <2>6 DEF Insertion
<1>7. QED
  BY <1>1, <1>2, <1>4, <1>5, <1>6

(* What the edits of a closure cut: keywords and properties of the         *)
(* document, or nothing, before the end of the image.                      *)
LEMMA ContentCuts ==
  ASSUME Printed, NEW s \in Seq(Items), NEW after \in Headers, NEW d,
         Additions(s, after) # << >> => InsertionPoint(s) # << >>
  PROVE  Cuts(s, d, ContentRegions(s, after))
<1>1. PICK kw: kw = after.keywords
  OBVIOUS
<1>2. PICK pr: pr = after.properties
  OBVIOUS
<1>4. \A r \in KeywordRegions(s, kw): KeywordChange(s, r)
  BY <1>1, ContentKinds
<1>5. \A r \in PropertyRegions(s, pr): PropertyChange(s, r)
  BY <1>2, ContentKinds
<1>6. \A r \in InsertionRegions(s, after):
        /\ Insertion(s, r)
        /\ r = Region(InsertionPoint(s)[1], InsertionPoint(s)[1] - 1, Additions(s, after))
  BY ContentKinds
<1>7. ASSUME NEW r \in ContentRegions(s, after)
      PROVE  /\ KeywordChange(s, r) \/ PropertyChange(s, r) \/ Insertion(s, r)
             /\ Insertion(s, r) => r \in InsertionRegions(s, after)
  <2>1. r \in KeywordRegions(s, kw) \/ r \in PropertyRegions(s, pr) \/ r \in InsertionRegions(s, after)
    BY <1>1, <1>2 DEF ContentRegions
  <2>2. ~(KeywordChange(s, r) /\ Insertion(s, r)) /\ ~(PropertyChange(s, r) /\ Insertion(s, r))
    BY CutStarts
  <2>3. QED
    BY <1>4, <1>5, <1>6, <2>1, <2>2
<1>8. \A q, r \in ContentRegions(s, after): Insertion(s, q) /\ Insertion(s, r) => q = r
  BY <1>6, <1>7
<1>9. QED
  BY <1>7, <1>8 DEF Cuts

(* What a header says of its attachments. *)
LEMMA AttachmentsFacts ==
  ASSUME NEW s \in Seq(Items), NEW L, L = Locations(s), NEW n, n = Cardinality(LocationsIn(s)),
         NEW a, a = Attachments(s)
  PROVE  /\ n \in Nat /\ Lists(L, n, LocationsIn(s)) /\ DOMAIN L = 1 .. n
         /\ \A q \in 1 .. n: L[q] \in LocationsIn(s) /\ L[q] \in 1 .. Len(s)
         /\ \A i \in LocationsIn(s): \E q \in 1 .. n: L[q] = i
         /\ Range(L) = LocationsIn(s)
         /\ DOMAIN a = 1 .. n /\ Len(a) = n
         /\ \A q \in 1 .. n: /\ a[q].offset = s[L[q]].off /\ a[q].size = s[L[q]].size
                             /\ a[q].span = s[L[q]].len
         /\ Numbers(a)
<1>1. PICK m \in Nat: m = Len(s) /\ DOMAIN s = 1 .. m
  OBVIOUS
<1>2. PICK S: S = LocationsIn(s)
  OBVIOUS
<1>3. S \subseteq 1 .. m
  BY <1>1, <1>2 DEF LocationsIn, OfKind
<1>4. L = PositionsInOrder(S)
  BY <1>2 DEF Locations, At, LocationsIn, OfKind
<1>5. /\ n \in Nat /\ Lists(L, n, S) /\ DOMAIN L = 1 .. n
      /\ \A q \in 1 .. n: L[q] \in S
      /\ \A i \in S: \E q \in 1 .. n: L[q] = i
  BY <1>2, <1>3, <1>4, PositionsListed
<1>6. \A q \in 1 .. n: L[q] \in 1 .. m
  BY <1>3, <1>5
<1>7. Range(L) = S
  BY <1>5 DEF Range
<1>8. a = [q \in 1 .. n |-> [offset |-> s[L[q]].off, size |-> s[L[q]].size, span |-> s[L[q]].len]]
  BY <1>5 DEF Attachments
<1>9. /\ DOMAIN a = 1 .. n /\ Len(a) = n
      /\ \A q \in 1 .. n: /\ a[q].offset = s[L[q]].off /\ a[q].size = s[L[q]].size
                          /\ a[q].span = s[L[q]].len
  BY <1>5, <1>8
<1>10. Numbers(a)
  <2>1. ASSUME NEW q \in 1 .. n PROVE a[q].offset \in Nat /\ a[q].size \in Nat /\ a[q].span \in Nat
    <3>1. PICK y: y = s[L[q]]
      OBVIOUS
    <3>2. y \in Items
      BY <1>1, <1>6, <3>1
    <3>3. y.off \in Nat /\ y.size \in Nat /\ y.len \in Nat
      BY <3>2 DEF Items
    <3>4. QED
      BY <1>9, <3>1, <3>3
  <2>2. QED
    BY <1>5, <1>9, <2>1 DEF Numbers
<1>11. QED
  BY <1>1, <1>2, <1>5, <1>6, <1>7, <1>9, <1>10

(* What an update does: its content regions C change the header's length   *)
(* by delta, and the data moves by d.                                      *)
Does(s, C, delta, d, R) ==
  /\ d \in Int /\ delta \in Int
  /\ Cuts(s, d, R) /\ Fit(s, R) /\ Fit(s, C) /\ C \subseteq R
  /\ \A r \in C: KeywordChange(s, r) \/ PropertyChange(s, r) \/ Insertion(s, r)
  /\ \/ delta = 0 /\ d = 0 /\ R = C
     \/ /\ d = Needed(Attachments(s), delta, d)
        /\ \A r: r \in R <=> r \in C \/ \E i \in LocationsIn(s): r = Region(i, i, <<Moved(s[i], d)>>)

(* The regions of an update that is not refused: those of its edits, and   *)
(* the locations if the data moves.                                        *)
LEMMA UpdateDoes ==
  ASSUME Printed, items \in Seq(Items), NEW after \in Headers, Supported(after),
         NEW C, C = ContentRegions(items, after), NEW delta, delta = DeltaOf(items, C)
  PROVE  \E d: Does(items, C, delta, d, Regions(after))
<1>1. PICK s \in Seq(Items): s = items
  OBVIOUS
<1>2. PICK R: R = Regions(after)
  OBVIOUS
<1>3. PICK A: A = Attachments(s)
  OBVIOUS
<1>4. Disjoint(R) /\ (Additions(s, after) # << >> => InsertionPoint(s) # << >>)
      /\ (delta # 0 => Relocates(A, delta))
  BY <1>1, <1>2, <1>3 DEF Supported, NeedsChildren
<1>5. R = C \cup IF delta = 0 THEN {} ELSE LocationRegions(s, delta)
  BY <1>1, <1>2 DEF Regions
<1>6. \A e: Cuts(s, e, C)
  BY <1>1, <1>4, ContentCuts
<1>7. Disjoint(C)
  BY <1>4, <1>5 DEF Disjoint
<1>8. Fit(s, C) /\ delta \in Int
  <2>1. Fit(s, C)
    BY <1>6, <1>7, CutsFit
  <2>2. QED
    BY <1>1, <2>1, SpliceLength
<1>9. \A r \in C: KeywordChange(s, r) \/ PropertyChange(s, r) \/ Insertion(s, r)
  <2>1. ASSUME NEW r \in C PROVE KeywordChange(s, r) \/ PropertyChange(s, r) \/ Insertion(s, r)
    <3>1. PICK e1, e2: e1 # e2 /\ e1 \in Int /\ e2 \in Int
      <4>1. 0 \in Int /\ 1 \in Int /\ 0 # 1
        OBVIOUS
      <4>2. QED
        BY <4>1
    <3>2. ASSUME Relocated(s, e1, r), Relocated(s, e2, r) PROVE FALSE
      <4>1. r.new = <<Moved(s[r.first], e1)>> /\ r.new = <<Moved(s[r.first], e2)>>
            /\ r.first \in LocationsIn(s)
        BY <3>2 DEF Relocated
      <4>2. PICK y: y = s[r.first]
        OBVIOUS
      <4>3. y.off \in Nat
        <5>1. y \in Items
          BY <4>1, <4>2 DEF LocationsIn, OfKind
        <5>2. QED
          BY <5>1 DEF Items
      <4>4. Moved(y, e1) = Moved(y, e2)
        BY <4>1, <4>2
      <4>5. y.off + e1 = y.off + e2
        <5>1. Moved(y, e1).off = y.off + e1 /\ Moved(y, e2).off = y.off + e2
          BY MovedItem
        <5>2. QED
          BY <4>4, <5>1
      <4>6. QED
        BY <3>1, <4>3, <4>5
    <3>3. \A e: \/ KeywordChange(s, r) \/ PropertyChange(s, r)
                \/ Insertion(s, r) \/ Relocated(s, e, r)
      BY <1>6 DEF Cuts
    <3>4. QED
      BY <3>2, <3>3
  <2>2. QED
    BY <2>1
<1>10. CASE delta = 0
  <2>1. R = C
    BY <1>5, <1>10
  <2>2. Does(s, C, delta, 0, R)
    <3>1. PICK z \in Int: z = 0
      OBVIOUS
    <3>2. Does(s, C, delta, z, R)
      BY <1>6, <1>8, <1>9, <1>10, <2>1, <3>1 DEF Does
    <3>3. QED
      BY <3>1, <3>2
  <2>3. QED
    BY <1>1, <1>2, <2>2
<1>11. CASE delta # 0
  <2>1. PICK d: d = Guess(A, delta)
    OBVIOUS
  <2>2. Needed(A, delta, d) = d /\ ~BelowZero(A, d)
    BY <1>4, <1>11, <2>1 DEF Relocates
  <2>3. PICK L: L = Locations(s)
    OBVIOUS
  <2>4. PICK n: n = Cardinality(LocationsIn(s))
    OBVIOUS
  <2>5. /\ Numbers(A) /\ DOMAIN A = 1 .. n
        /\ \A i \in LocationsIn(s): \E q \in 1 .. n: L[q] = i
    BY <1>3, <2>3, <2>4, AttachmentsFacts
  <2>15. \A q \in 1 .. n: A[q].offset = s[L[q]].off
    BY <1>3, <2>3, <2>4, AttachmentsFacts
  <2>6. d \in Int
    BY <1>8, <2>1, <2>5, GuessType
  <2>7. \A i \in LocationsIn(s): Moved(s[i], d) \in Items
    <3>1. ASSUME NEW i \in LocationsIn(s) PROVE Moved(s[i], d) \in Items
      <4>1. PICK q \in 1 .. n: L[q] = i
        BY <2>5
      <4>2. s[i] \in Items
        BY DEF LocationsIn, OfKind
      <4>3. ~(A[q].offset + d < 0)
        BY <2>2, <2>5 DEF BelowZero
      <4>4. A[q].offset = s[i].off
        BY <2>15, <4>1
      <4>5. s[i].off \in Nat
        BY <4>2 DEF Items
      <4>6. s[i].off + d >= 0
        BY <2>6, <4>3, <4>4, <4>5
      <4>7. QED
        BY <2>6, <4>2, <4>6, MovedTyped
    <3>2. QED
      BY <3>1
  <2>8. \A r: r \in R <=> r \in C \/ \E i \in LocationsIn(s): r = Region(i, i, <<Moved(s[i], d)>>)
    <3>1. \A r: r \in LocationRegions(s, delta)
                  <=> \E i \in LocationsIn(s): r = Region(i, i, <<Moved(s[i], d)>>)
      BY <1>3, <2>1, LocationRegionsFacts
    <3>2. R = C \cup LocationRegions(s, delta)
      BY <1>5, <1>11
    <3>3. QED
      BY <3>1, <3>2
  <2>9. ASSUME NEW r \in R, r \notin C PROVE Relocated(s, d, r)
    <3>1. PICK i \in LocationsIn(s): r = Region(i, i, <<Moved(s[i], d)>>)
      BY <2>8, <2>9
    <3>2. r.first = i /\ r.last = i /\ r.new = <<Moved(s[i], d)>>
      BY <3>1, RegionFields
    <3>3. QED
      BY <2>7, <3>2 DEF Relocated
  <2>10. Cuts(s, d, R)
    <3>1. \A r \in R: \/ KeywordChange(s, r) \/ PropertyChange(s, r)
                      \/ Insertion(s, r) \/ Relocated(s, d, r)
      BY <1>9, <2>9
    <3>2. \A r: ~(Insertion(s, r) /\ Relocated(s, d, r))
      BY CutStarts
    <3>3. \A q, r \in C: Insertion(s, q) /\ Insertion(s, r) => q = r
      BY <1>6 DEF Cuts
    <3>4. QED
      BY <2>9, <3>1, <3>2, <3>3 DEF Cuts
  <2>11. Fit(s, R)
    BY <1>4, <2>10, CutsFit
  <2>12. C \subseteq R
    BY <1>5
  <2>13. Does(s, C, delta, d, R)
    BY <1>3, <1>8, <1>9, <2>2, <2>6, <2>8, <2>10, <2>11, <2>12 DEF Does
  <2>14. QED
    BY <1>1, <1>2, <2>13
<1>12. QED
  BY <1>10, <1>11
===============================================================================
