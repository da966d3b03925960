--------------------------- MODULE UpdateFileProofs ---------------------------
(*****************************************************************************)
(* Theorems about UpdateFile, for any number of updates of documents of any  *)
(* length: what was asked is what is read back, blocks follow their          *)
(* locations, and nothing else changes.                                      *)
(*****************************************************************************)
EXTENDS SpliceProofs

-------------------------------------------------------------------------------
(* What is read and written is well typed *)

(* What a file says is a header in memory. *)
LEMMA HeaderTyped ==
  ASSUME NEW s \in Seq(Items)
  PROVE  /\ Header(s) \in Headers
         /\ Header(s).keywords = Keywords(s) /\ Header(s).properties = Properties(s)
<1>1. PICK K: K = Keywords(s)
  OBVIOUS
<1>2. PICK P: P = Properties(s)
  OBVIOUS
<1>3. K \in Seq(Keyword)
  BY <1>1, KeywordsFacts
<1>4. IsFiniteSet(DOMAIN P) /\ DOMAIN P \in SUBSET Strings /\ P \in [DOMAIN P -> Strings]
  BY <1>2, PropertiesFacts
<1>5. Header(s) = [keywords |-> K, properties |-> P]
  BY <1>1, <1>2 DEF Header
<1>6. P \in UNION {[S -> Strings]: S \in SUBSET Strings}
  BY <1>4
<1>7. Header(s).keywords = K /\ Header(s).properties = P
  BY <1>5
<1>8. Header(s) \in [keywords: Seq(Keyword), properties: UNION {[S -> Strings]: S \in SUBSET Strings}]
  BY <1>3, <1>5, <1>6
<1>9. QED
  BY <1>1, <1>2, <1>4, <1>7, <1>8 DEF Headers

(* The document and its data, as the program holds them. *)
TypeInvariant == items \in Seq(Items) /\ tail \in Seq(STRING) /\ updates \in Nat

(* A document starts well typed.                                           *)
LEMMA TypeInit ==
  ASSUME Init
  PROVE  TypeInvariant
<1>1. PICK d \in Documents: items = d.items /\ tail = d.tail
  BY DEF Init
<1>2. QED
  BY <1>1, UpdateAssumption DEF Init, TypeInvariant

(* A step that writes does so for a header the closure left. *)
LEMMA Writes ==
  ASSUME TypeInvariant, Update, updates' # updates
  PROVE  /\ Readable(items) /\ ImageIsSupported(items)
         /\ \E after \in Headers: Supported(after) /\ Write(after)
<1>1. ~Refuse("unreadable") /\ ~Refuse("Unsupported")
  BY DEF Refuse
<1>2. Readable(items) /\ ImageIsSupported(items)
  BY <1>1 DEF Update
<1>3. PICK after \in EditsOf(Header(items), Changes[updates + 1]): Supported(after) /\ Write(after)
  BY <1>1 DEF Update
<1>4. Changes[updates + 1] \in Nat
  <2>1. updates < Len(Changes) /\ updates \in Nat
    BY DEF Update, TypeInvariant
  <2>2. PICK c: c = updates + 1
    OBVIOUS
  <2>3. c \in 1 .. Len(Changes)
    BY <2>1, <2>2, UpdateAssumption
  <2>4. QED
    BY <2>2, <2>3, UpdateAssumption
<1>5. Header(items) \in Headers
  BY HeaderTyped DEF TypeInvariant
<1>6. after \in Headers
  BY <1>3, <1>4, <1>5, EditsTyped
<1>7. QED
  BY <1>2, <1>3, <1>6

(* Such a step replaces the header by a splice that fits it. *)
LEMMA WritesASplice ==
  ASSUME Printed, TypeInvariant, Update, updates' # updates
  PROVE  \E after \in Headers: \E C, delta, d, R:
           /\ Supported(after) /\ R = Regions(after) /\ C = ContentRegions(items, after)
           /\ delta = DeltaOf(items, C) /\ Does(items, C, delta, d, R)
           /\ items' = Splice(items, R) /\ tail' = tail /\ goal' = after /\ updates' = updates + 1
           /\ items' \in Seq(Items)
<1>1. PICK after \in Headers: Supported(after) /\ Write(after)
  BY Writes
<1>2. PICK C: C = ContentRegions(items, after)
  OBVIOUS
<1>3. PICK delta: delta = DeltaOf(items, C)
  OBVIOUS
<1>4. PICK R: R = Regions(after)
  OBVIOUS
<1>5. items \in Seq(Items)
  BY DEF TypeInvariant
<1>6. PICK d: Does(items, C, delta, d, R)
  BY <1>1, <1>2, <1>3, <1>4, <1>5, UpdateDoes
<1>7. /\ items' = Splice(items, R) /\ tail' = tail /\ goal' = after /\ updates' = updates + 1
  BY <1>1, <1>4 DEF Write
<1>8. items' \in Seq(Items)
  <2>1. Fit(items, R)
    BY <1>6 DEF Does
  <2>2. PICK B: Placed(items, R, Len(items) + 1, B, Splice(items, R))
    BY <1>5, <2>1, SplicePlaced
  <2>3. QED
    BY <1>7, <2>2 DEF Placed
<1>9. QED
  BY <1>1, <1>2, <1>3, <1>4, <1>6, <1>7, <1>8

(* An update leaves a well-typed document, whatever it does.               *)
LEMMA TypeStep ==
  ASSUME Printed, TypeInvariant, [Next]_vars
  PROVE  TypeInvariant'
<1>1. CASE Update /\ updates' # updates
  <2>1. items' \in Seq(Items) /\ tail' = tail /\ updates' = updates + 1
    BY <1>1, WritesASplice
  <2>2. QED
    BY <2>1 DEF TypeInvariant
<1>2. CASE Update /\ updates' = updates
  <2>1. ASSUME NEW after, Write(after) PROVE FALSE
    BY <1>2, <2>1 DEF Write, TypeInvariant
  <2>2. UNCHANGED <<items, tail, updates>>
    BY <1>2, <2>1 DEF Update, Refuse
  <2>3. QED
    BY <2>2 DEF TypeInvariant
<1>3. CASE UNCHANGED vars
  BY <1>3 DEF vars, TypeInvariant
<1>4. QED
  BY <1>1, <1>2, <1>3 DEF Next

-------------------------------------------------------------------------------
(* An edit that changes nothing *)

(* Matched with themselves, keywords match one by one. *)
LEMMA MatchedSelf ==
  ASSUME NEW K \in Seq(Keyword), NEW m, m = Matched(K, K)
  PROVE  \A q \in 0 .. Len(K): m[q] = q
<1>1. PICK n \in Nat: n = Len(K)
  OBVIOUS
<1>2. /\ m[0] = 0
      /\ \A i \in 1 .. n: m[i - 1] < n /\ K[m[i - 1] + 1].name = K[i].name => m[i] = m[i - 1] + 1
  <2>1. Matching(K, n, K, n, m)
    BY <1>1, MatchedFacts
  <2>2. QED
    BY <2>1 DEF Matching
<1>3. PICK T: T = {q \in 0 .. n: m[q] # q}
  OBVIOUS
<1>7. T \in SUBSET Nat
  BY <1>1, <1>3
<1>4. ASSUME T # {} PROVE FALSE
  <2>1. PICK q \in T: \A u \in T: q <= u
    BY <1>4, <1>7, FirstExists
  <2>2. q \in 1 .. n /\ m[q] # q
    BY <1>2, <1>3, <2>1
  <2>3. q - 1 \in 0 .. n /\ ~(q <= q - 1) /\ q - 1 + 1 = q /\ q - 1 < n
    BY <1>1, <2>2
  <2>4. q - 1 \notin T
    BY <2>1, <2>3
  <2>5. m[q - 1] = q - 1
    BY <1>3, <2>3, <2>4
  <2>6. m[q] = m[q - 1] + 1
    BY <1>2, <2>2, <2>3, <2>5
  <2>7. QED
    BY <2>2, <2>3, <2>5, <2>6
<1>5. QED
  BY <1>1, <1>3, <1>4

(* So there is nothing to replace. *)
LEMMA NothingToDo ==
  ASSUME Printed, NEW s \in Seq(Items), NEW after, after = Header(s)
  PROVE  ContentRegions(s, after) = {}
<1>1. PICK K: K = Keywords(s)
  OBVIOUS
<1>2. PICK P: P = Properties(s)
  OBVIOUS
<1>3. after \in Headers /\ after.keywords = K /\ after.properties = P
  BY <1>1, <1>2, HeaderTyped
<1>4. PICK n: n = Cardinality(KeywordsIn(s))
  OBVIOUS
<1>5. K \in Seq(Keyword) /\ Len(K) = n /\ n \in Nat
  BY <1>1, <1>4, KeywordsFacts
<1>6. PICK m: m = Matched(K, K)
  OBVIOUS
<1>7. \A q \in 0 .. n: m[q] = q
  BY <1>5, <1>6, MatchedSelf
<1>8. KeywordRegions(s, after.keywords) = {}
  <2>0. PICK J, L, R: J = K /\ L = KeywordSpans(s) /\ R = KeywordRegions(s, J)
    OBVIOUS
  <2>10. m = Matched(K, J)
    BY <1>6, <2>0
  <2>1. \A r \in R: \E q \in 1 .. n:
              \/ m[q] = m[q - 1] /\ r = Region(L[q], L[q], << >>)
              \/ /\ m[q] # m[q - 1] /\ J[m[q]] # K[q]
                 /\ r = Region(L[q], L[q], <<RenderedKeyword(J[m[q]])>>)
    BY <1>1, <1>4, <2>0, <2>10, KeywordRegionsFacts, SMTT(30)
  <2>2. ASSUME NEW q \in 1 .. n PROVE m[q] # m[q - 1] /\ J[m[q]] = K[q]
    BY <1>5, <1>7, <2>0
  <2>3. QED
    BY <1>3, <2>0, <2>1, <2>2
<1>9. PropertyRegions(s, after.properties) = {}
  <2>1. \A r \in PropertyRegions(s, P): \E j \in PropertyEnds(s):
          IdAt(s, j) \notin DOMAIN P \/ P[IdAt(s, j)] # P[IdAt(s, j)]
    BY <1>2, PropertyRegionsFacts
  <2>2. \A j \in PropertyEnds(s): IdAt(s, j) \in DOMAIN P
    BY <1>2, PropertiesFacts
  <2>3. QED
    BY <1>3, <2>1, <2>2
<1>10. InsertionRegions(s, after) = {}
  <2>1. PICK A: A = Additions(s, after)
    OBVIOUS
  <2>2. PICK M: M = Matched(Keywords(s), after.keywords)[Len(Keywords(s))]
    OBVIOUS
  <2>3. M = n
    BY <1>1, <1>3, <1>5, <1>6, <1>7, <2>2
  <2>4. PICK nk, np, ids: Added(s, after, A, M, nk, np, ids)
    BY <1>3, <2>1, <2>2, AdditionsFacts
  <2>5. nk = 0
    BY <1>3, <1>5, <2>3, <2>4 DEF Added
  <2>6. np = 0
    <3>1. DOMAIN after.properties \ DOMAIN Properties(s) = {}
      BY <1>2, <1>3
    <3>2. np \in Nat /\ ids \in [1 .. np -> {}]
      BY <2>4, <3>1 DEF Added
    <3>3. 1 \notin 1 .. np
      BY <3>2
    <3>4. QED
      BY <3>2, <3>3
  <2>7. A \in Seq(Items) /\ Len(A) = 0
    BY <2>4, <2>5, <2>6 DEF Added
  <2>8. A = << >>
    BY <2>7, EmptySeq
  <2>9. QED
    BY <2>1, <2>8 DEF InsertionRegions
<1>11. QED
  BY <1>8, <1>9, <1>10 DEF ContentRegions

(* A splice of no regions is the header itself. *)
LEMMA SpliceOfNothing ==
  ASSUME NEW s \in Seq(Items)
  PROVE  Splice(s, {}) = s /\ DeltaOf(s, {}) = 0
<1>1. Fit(s, {})
  BY DEF Fit, Disjoint
<1>2. PICK R: R = {}
  OBVIOUS
<1>3. PICK n \in Nat: n = Len(s) /\ DOMAIN s = 1 .. n
  OBVIOUS
<1>4. PICK out: out = Splice(s, R)
  OBVIOUS
<1>5. PICK B: Placed(s, R, n + 1, B, out)
  BY <1>1, <1>2, <1>3, <1>4, SplicePlaced
<1>6. \A i: NewAt(R, i) = << >> /\ ~Gone(R, i)
  BY <1>1, <1>2, NewHere DEF Gone
<1>7. Len(<< >>) = 0
  OBVIOUS
<1>8. /\ out \in Seq(Items) /\ Len(out) = B[n + 1] /\ B \in [0 .. n + 1 -> Nat] /\ B[0] = 0
      /\ \A i \in 1 .. n: B[i] = B[i - 1] + 1 /\ out[B[i]] = s[i]
      /\ B[n + 1] = B[n]
  <2>1. out \in Seq(Items) /\ Len(out) = B[n + 1] /\ B \in [0 .. n + 1 -> Nat] /\ B[0] = 0
    BY <1>5 DEF Placed
  <2>2. ASSUME NEW i \in 1 .. n PROVE B[i] = B[i - 1] + 1 /\ out[B[i]] = s[i]
    <3>1. B[i] = B[i - 1] + Len(NewAt(R, i)) + 1 /\ out[B[i]] = s[i]
      BY <1>3, <1>5, <1>6 DEF Placed
    <3>2. B[i - 1] \in Nat
      <4>1. i - 1 \in 0 .. n + 1
        BY <1>3
      <4>2. QED
        BY <2>1, <4>1
    <3>3. QED
      BY <1>6, <1>7, <3>1, <3>2
  <2>3. B[n + 1] = B[n]
    <3>1. n + 1 \in 1 .. n + 1 /\ n + 1 \notin DOMAIN s /\ n + 1 - 1 = n
      BY <1>3
    <3>2. B[n + 1] = B[n + 1 - 1] + Len(NewAt(R, n + 1))
      BY <1>5, <3>1 DEF Placed
    <3>3. B[n] \in Nat
      BY <1>3, <2>1
    <3>4. QED
      BY <1>6, <1>7, <3>1, <3>2, <3>3
  <2>4. QED
    BY <2>1, <2>2, <2>3
<1>9. \A i \in 0 .. n: B[i] = i
  <2>1. PICK T: T = {q \in 0 .. n: B[q] # q}
    OBVIOUS
  <2>2. ASSUME T # {} PROVE FALSE
    <3>0. T \in SUBSET Nat
      BY <1>3, <2>1
    <3>1. PICK q \in T: \A u \in T: q <= u
      BY <2>2, <3>0, FirstExists
    <3>2. q \in 1 .. n /\ B[q] # q
      BY <1>8, <2>1, <3>1
    <3>3. q - 1 \in 0 .. n /\ ~(q <= q - 1) /\ q - 1 + 1 = q
      BY <1>3, <3>2
    <3>4. q - 1 \notin T
      BY <3>1, <3>3
    <3>5. B[q - 1] = q - 1
      BY <2>1, <3>3, <3>4
    <3>6. QED
      BY <1>8, <3>2, <3>3, <3>5
  <2>3. QED
    BY <2>1, <2>2
<1>10. Len(out) = n /\ \A i \in 1 .. n: out[i] = s[i]
  BY <1>3, <1>8, <1>9
<1>11. out = s
  BY <1>3, <1>8, <1>10
<1>12. TotalLen(out) = TotalLen(s) + DeltaOf(s, R) /\ TotalLen(s) \in Int /\ DeltaOf(s, R) \in Int
  BY <1>1, <1>2, <1>4, SpliceLength
<1>13. DeltaOf(s, R) = 0
  BY <1>11, <1>12
<1>14. QED
  BY <1>2, <1>4, <1>11, <1>13

(* An edit that leaves the header as it was cuts no region, so no byte     *)
(* changes.                                                                *)
LEMMA NoOpStep ==
  ASSUME Printed, TypeInvariant, [Next]_vars
  PROVE  updates' # updates /\ goal' = Header(items) => items' = items /\ tail' = tail
<1> SUFFICES ASSUME updates' # updates, goal' = Header(items)
             PROVE  items' = items /\ tail' = tail
  OBVIOUS
<1>1. Update
  BY DEF Next, vars
<1>2. PICK after, C, delta, d, R:
        /\ C = ContentRegions(items, after) /\ delta = DeltaOf(items, C)
        /\ Does(items, C, delta, d, R)
        /\ R = Regions(after)
        /\ items' = Splice(items, R) /\ tail' = tail /\ goal' = after
  BY <1>1, WritesASplice
<1>3. C = {}
  BY <1>2, NothingToDo DEF TypeInvariant
<1>4. DeltaOf(items, {}) = 0 /\ Splice(items, {}) = items
  BY SpliceOfNothing DEF TypeInvariant
<1>5. R = {}
  BY <1>2, <1>3, <1>4 DEF Regions
<1>6. QED
  BY <1>2, <1>4, <1>5

(* The type invariant holds of the specification. *)
THEOREM UpdateFileTypes == Printed => (Spec => []TypeInvariant)
<1> SUFFICES ASSUME Printed PROVE Spec => []TypeInvariant
  OBVIOUS
<1>1. Init => TypeInvariant
  BY TypeInit
<1>2. TypeInvariant /\ [Next]_vars => TypeInvariant'
  BY TypeStep
<1>3. QED
  BY <1>1, <1>2, PTL DEF Spec

(* An update whose closure leaves the header as it was read writes the     *)
(* file it read (update_file).                                             *)
THEOREM NoOpTheorem == Printed => (Spec => NoOpIsIdentity)
<1> SUFFICES ASSUME Printed PROVE Spec => NoOpIsIdentity
  OBVIOUS
<1>1. TypeInvariant /\ [Next]_vars
        => [updates' # updates /\ goal' = Header(items) => items' = items /\ tail' = tail]_vars
  BY NoOpStep
<1>2. Spec => []TypeInvariant
  BY UpdateFileTypes
<1>3. QED
  BY <1>1, <1>2, PTL DEF Spec, NoOpIsIdentity

-------------------------------------------------------------------------------
(* How far the data moves *)

(* The sum of sums. *)
Adds(u, v, w, n) == \A i \in 1 .. n: u[i] = v[i] + w[i] /\ v[i] \in Int /\ w[i] \in Int

(* The sum of sums is the sum of the two.                                  *)
LEMMA SumAdds ==
  ASSUME NEW n \in Nat, NEW u, NEW v, NEW w, Adds(u, v, w, n)
  PROVE  /\ SumTo(u, n) = SumTo(v, n) + SumTo(w, n)
         /\ SumTo(v, n) \in Int /\ SumTo(w, n) \in Int
<1>1. PICK T: T = {i \in 0 .. n: SumTo(u, i) # SumTo(v, i) + SumTo(w, i)}
  OBVIOUS
<1>2. \A i \in 0 .. n: SumTo(v, i) \in Int /\ SumTo(w, i) \in Int
  <2>1. ASSUME NEW i \in 0 .. n PROVE SumTo(v, i) \in Int /\ SumTo(w, i) \in Int
    <3>1. i \in Nat /\ (\A k \in 1 .. i: v[k] \in Int) /\ \A k \in 1 .. i: w[k] \in Int
      BY DEF Adds
    <3>2. QED
      BY <3>1, SumType
  <2>2. QED
    BY <2>1
<1>3. ASSUME T # {} PROVE FALSE
  <2>1. T \in SUBSET Nat
    BY <1>1
  <2>2. PICK i \in T: \A t \in T: i <= t
    BY <1>3, <2>1, FirstExists
  <2>3. i \in 0 .. n /\ SumTo(u, i) # SumTo(v, i) + SumTo(w, i)
    BY <1>1, <2>2
  <2>4. i # 0
    BY <2>3, SumSteps
  <2>5. PICK k \in 0 .. n: k = i - 1 /\ i \in 1 .. n /\ i \in Nat /\ ~(i <= k)
    BY <2>3, <2>4
  <2>6. k \notin T
    BY <2>2, <2>5
  <2>7. SumTo(u, k) = SumTo(v, k) + SumTo(w, k)
    BY <1>1, <2>6
  <2>8. SumTo(u, i) = SumTo(u, k) + u[i] /\ SumTo(v, i) = SumTo(v, k) + v[i]
        /\ SumTo(w, i) = SumTo(w, k) + w[i]
    BY <2>4, <2>5, SumSteps
  <2>9. u[i] = v[i] + w[i] /\ v[i] \in Int /\ w[i] \in Int
    BY <2>5 DEF Adds
  <2>10. SumTo(v, k) \in Int /\ SumTo(w, k) \in Int
    BY <1>2
  <2>11. QED
    BY <2>3, <2>7, <2>8, <2>9, <2>10
<1>4. n \in 0 .. n
  OBVIOUS
<1>5. QED
  BY <1>1, <1>2, <1>3, <1>4

(* Zeros add nothing: what is left is the sum over the other positions.    *)
Sparse(w, n, f, c, S) ==
  /\ Lists(f, c, S) /\ S \subseteq 1 .. n
  /\ \A i \in 1 .. n: w[i] \in Int
  /\ \A i \in (1 .. n) \ S: w[i] = 0

(* So a sum is that over the positions that count.                         *)
LEMMA SumSparse ==
  ASSUME NEW n \in Nat, NEW w, NEW f, NEW c, NEW S, Sparse(w, n, f, c, S),
         NEW v, \A q \in 1 .. c: v[q] = w[f[q]]
  PROVE  SumTo(w, n) = SumTo(v, c)
<1>1. /\ c \in Nat /\ f \in [1 .. c -> S]
      /\ \A k, m \in 1 .. c: k < m => f[k] < f[m]
      /\ \A i \in S: \E k \in 1 .. c: f[k] = i
  BY DEF Sparse, Lists
<1>2. S \subseteq 1 .. n /\ \A q \in 1 .. c: f[q] \in 1 .. n /\ f[q] \in S
  BY <1>1 DEF Sparse
<1> DEFINE Upto(i, k) == /\ SumTo(w, i) = SumTo(v, k)
                         /\ \A q \in 1 .. k: f[q] <= i
                         /\ \A q \in k + 1 .. c: i < f[q]
<1>3. Upto(0, 0)
  <2>1. SumTo(w, 0) = 0 /\ SumTo(v, 0) = 0
    BY SumSteps
  <2>2. QED
    BY <1>2, <2>1
<1>4. PICK T: T = {i \in 0 .. n: ~\E k \in 0 .. c: Upto(i, k)}
  OBVIOUS
<1>5. \A i \in 1 .. n: SumTo(w, i) = SumTo(w, i - 1) + w[i]
  BY SumSteps
<1>6. \A k \in 1 .. c: SumTo(v, k) = SumTo(v, k - 1) + v[k]
  BY <1>1, SumSteps
<1>7. \A i \in 0 .. n: SumTo(w, i) \in Int
  <2>1. ASSUME NEW i \in 0 .. n PROVE SumTo(w, i) \in Int
    <3>1. i \in Nat /\ \A k \in 1 .. i: w[k] \in Int
      BY DEF Sparse
    <3>2. QED
      BY <3>1, SumType
  <2>2. QED
    BY <2>1
<1>8. ASSUME T # {} PROVE FALSE
  <2>1. T \in SUBSET Nat
    BY <1>4
  <2>2. PICK i \in T: \A t \in T: i <= t
    BY <1>8, <2>1, FirstExists
  <2>3. i \in 0 .. n /\ ~\E k \in 0 .. c: Upto(i, k)
    BY <1>4, <2>2
  <2>4. i # 0
    BY <1>1, <1>3, <2>3
  <2>5. PICK h \in 0 .. n: h = i - 1 /\ i \in 1 .. n /\ ~(i <= h)
    BY <2>3, <2>4
  <2>6. h \notin T
    BY <2>2, <2>5
  <2>7. PICK k \in 0 .. c: Upto(h, k)
    BY <1>4, <2>6
  <2>8. SumTo(w, i) = SumTo(w, h) + w[i] /\ SumTo(w, h) \in Int
    BY <1>5, <1>7, <2>5
  <2>9. CASE i \in S
    <3>1. PICK q \in 1 .. c: f[q] = i
      BY <1>1, <2>9
    <3>2. q \notin 1 .. k
      BY <2>5, <2>7, <3>1
    <3>3. PICK z \in 1 .. c: z = k + 1 /\ z <= q /\ z - 1 = k
      BY <1>1, <3>2
    <3>4. ~(z < q)
      <4>1. h < f[z] /\ f[z] \in 1 .. n
        BY <1>1, <1>2, <2>7, <3>3
      <4>2. z < q => f[z] < f[q]
        BY <1>1
      <4>3. QED
        BY <2>5, <3>1, <4>1, <4>2
    <3>5. z = q
      BY <3>3, <3>4
    <3>6. SumTo(v, z) = SumTo(v, k) + w[i]
      BY <1>6, <3>1, <3>3, <3>5
    <3>7. SumTo(w, i) = SumTo(v, z)
      BY <2>7, <2>8, <3>6
    <3>8. \A x \in 1 .. z: f[x] <= i
      <4>1. ASSUME NEW x \in 1 .. z PROVE f[x] <= i
        <5>1. x = z \/ x \in 1 .. k
          BY <1>1, <3>3
        <5>2. x \in 1 .. k => f[x] <= h /\ f[x] \in 1 .. n
          BY <1>1, <1>2, <2>7
        <5>3. QED
          BY <2>5, <3>1, <3>5, <5>1, <5>2
      <4>2. QED
        BY <4>1
    <3>9. \A x \in z + 1 .. c: i < f[x]
      BY <1>1, <3>1, <3>5
    <3>10. QED
      BY <1>1, <2>3, <3>3, <3>7, <3>8, <3>9
  <2>10. CASE i \notin S
    <3>1. w[i] = 0
      BY <2>5, <2>10 DEF Sparse
    <3>2. SumTo(w, i) = SumTo(v, k)
      BY <2>7, <2>8, <3>1
    <3>3. \A x \in 1 .. k: f[x] <= i
      <4>1. \A x \in 1 .. k: f[x] <= h /\ f[x] \in 1 .. n
        BY <1>1, <1>2, <2>7
      <4>2. QED
        BY <2>5, <4>1
    <3>4. \A x \in k + 1 .. c: i < f[x]
      <4>1. \A x \in k + 1 .. c: h < f[x] /\ f[x] \in 1 .. n /\ f[x] # i
        <5>1. \A x \in k + 1 .. c: x \in 1 .. c
          BY <1>1
        <5>2. QED
          BY <1>2, <2>7, <2>10, <5>1
      <4>2. QED
        BY <2>5, <4>1
    <3>5. QED
      BY <2>3, <3>2, <3>3, <3>4
  <2>11. QED
    BY <2>9, <2>10
<1>9. PICK k \in 0 .. c: Upto(n, k)
  BY <1>4, <1>8
<1>10. k = c
  <2>1. ~(k + 1 <= c)
    <3>1. ASSUME k + 1 <= c PROVE FALSE
      <4>1. k + 1 \in k + 1 .. c /\ k + 1 \in 1 .. c
        BY <1>1, <3>1
      <4>2. n < f[k + 1] /\ f[k + 1] \in 1 .. n
        BY <1>2, <1>9, <4>1
      <4>3. QED
        BY <4>2
    <3>2. QED
      BY <3>1
  <2>2. QED
    BY <1>1, <2>1
<1>11. QED
  BY <1>9, <1>10

(* The length of one item. *)
LEMMA OneLong ==
  ASSUME NEW y \in Items
  PROVE  TotalLen(<<y>>) = y.len /\ y.len \in Nat
<1>1. PICK x: x = <<y>>
  OBVIOUS
<1>2. Len(x) = 1 /\ x[1] = y
  BY <1>1
<1>3. TotalLen(x) = SumTo(Lens(x), 1)
  <2>1. Len(x) \in Nat
    BY <1>2
  <2>2. TotalLen(x) = SumTo(Lens(x), Len(x))
    BY <2>1, TotalIsSum
  <2>3. QED
    BY <1>2, <2>2
<1>4. PICK w: w = Lens(x)
  OBVIOUS
<1>5. w[1] = y.len
  BY <1>2, <1>4 DEF Lens
<1>6. SumTo(w, 0) = 0 /\ SumTo(w, 1) = SumTo(w, 1 - 1) + w[1]
  BY SumSteps
<1>7. 1 - 1 = 0
  OBVIOUS
<1>8. y.len \in Nat
  BY DEF Items
<1>9. QED
  BY <1>1, <1>3, <1>4, <1>5, <1>6, <1>7, <1>8

(* An update changes the length of the header by what the data moves. *)
LEMMA MovesBy ==
  ASSUME Printed, NEW s \in Seq(Items), NEW C, NEW delta, delta = DeltaOf(s, C),
         NEW d, NEW R, Does(s, C, delta, d, R)
  PROVE  DeltaOf(s, R) = d /\ d \in Int
<1>1. d \in Int /\ delta \in Int /\ Cuts(s, d, R) /\ Fit(s, R) /\ Fit(s, C) /\ C \subseteq R
  BY DEF Does
<1>2. CASE delta = 0 /\ d = 0 /\ R = C
  BY <1>1, <1>2
<1>3. CASE /\ d = Needed(Attachments(s), delta, d)
           /\ \A r: r \in R <=> r \in C \/ \E i \in LocationsIn(s): r = Region(i, i, <<Moved(s[i], d)>>)
  <2>1. PICK n \in Nat: n = Len(s) + 1
    OBVIOUS
  <2>2. PICK S: S = LocationsIn(s)
    OBVIOUS
  <2>3. \A i \in S: i \in 1 .. n /\ i \in 1 .. Len(s) /\ s[i].kind = "location" /\ s[i] \in Items
    BY <2>1, <2>2 DEF LocationsIn, OfKind
  <2>4. PICK u, v: u = [i \in 1 .. n |-> DeltaAt(s, R, i)] /\ v = [i \in 1 .. n |-> DeltaAt(s, C, i)]
    OBVIOUS
  <2>5. PICK w: w = [i \in 1 .. n |-> IF i \in S THEN Moved(s[i], d).len - s[i].len ELSE 0]
    OBVIOUS
  <2>6. Len(s) \in Nat
    OBVIOUS
  <2>7. DeltaOf(s, R) = SumTo(u, n) /\ delta = SumTo(v, n)
    BY <2>1, <2>4, <2>6, DeltaIsSum
  <2>8. \A i \in S: Moved(s[i], d) \in Items /\ Region(i, i, <<Moved(s[i], d)>>) \in R
    <3>1. ASSUME NEW i \in S PROVE Moved(s[i], d) \in Items /\ Region(i, i, <<Moved(s[i], d)>>) \in R
      <4>1. PICK r: r = Region(i, i, <<Moved(s[i], d)>>)
        OBVIOUS
      <4>2. r \in R
        BY <1>3, <2>2, <4>1
      <4>3. r.first = i /\ r.new = <<Moved(s[i], d)>>
        BY <4>1, RegionFields
      <4>4. r.new \in Seq(Items)
        BY <1>1, <4>2 DEF Fit
      <4>5. QED
        <5>1. PICK y: y = Moved(s[i], d)
          OBVIOUS
        <5>2. <<y>> \in Seq(Items)
          BY <4>3, <4>4, <5>1
        <5>3. 1 \in 1 .. Len(<<y>>) /\ <<y>>[1] = y
          OBVIOUS
        <5>4. y \in Items
          BY <5>2, <5>3
        <5>5. QED
          BY <4>1, <4>2, <5>1, <5>4
    <3>2. QED
      BY <3>1
  <2>9. \A i \in 1 .. n: v[i] \in Int /\ w[i] \in Int
    <3>1. ASSUME NEW i \in 1 .. n PROVE v[i] \in Int /\ w[i] \in Int
      <4>1. v[i] \in Int
        BY <1>1, <2>4, DeltaHere
      <4>2. i \in S => Moved(s[i], d).len \in Nat /\ s[i].len \in Nat
        <5>1. ASSUME NEW y \in Items PROVE y.len \in Nat
          BY DEF Items
        <5>2. QED
          BY <2>3, <2>8, <5>1
      <4>3. QED
        BY <2>5, <4>1, <4>2
    <3>2. QED
      BY <3>1
  <2>10. Adds(u, v, w, n)
    <3>1. ASSUME NEW i \in 1 .. n PROVE u[i] = v[i] + w[i]
      <4>1. CASE i \in S
        <5>1. PICK r: r = Region(i, i, <<Moved(s[i], d)>>)
          OBVIOUS
        <5>2. r \in R /\ r.first = i /\ r.last = i /\ r.new = <<Moved(s[i], d)>>
          BY <2>8, <4>1, <5>1, RegionFields
        <5>3. u[i] = Delta(s, r)
          BY <1>1, <2>4, <5>2, DeltaHere
        <5>4. SubSeq(s, i, i) = <<s[i]>>
          <6>1. PICK x: x = SubSeq(s, i, i)
            OBVIOUS
          <6>2. i \in 1 .. Len(s)
            BY <2>3, <4>1
          <6>3. x \in Seq(Items) /\ Len(x) = 1 /\ x[1] = s[i]
            <7>1. i \in Int /\ i - i + 1 = 1 /\ i + 1 - 1 = i
              BY <6>2
            <7>2. \A q \in i .. i: s[q] \in Items
              BY <6>2
            <7>3. /\ x \in Seq(Items) /\ Len(x) = IF i <= i THEN i - i + 1 ELSE 0
                  /\ \A q \in 1 .. i - i + 1: x[q] = s[i + q - 1]
              BY <6>1, <7>1, <7>2, SubSeqProperties
            <7>4. Len(x) = 1
              BY <7>1, <7>3
            <7>5. x[1] = s[i + 1 - 1]
              <8>1. 1 \in 1 .. i - i + 1
                BY <7>1
              <8>2. QED
                BY <7>3, <8>1
            <7>6. QED
              BY <7>1, <7>3, <7>4, <7>5
          <6>4. x \in Seq(Items)
            BY <6>3
          <6>5. \A z \in Seq(Items): Len(z) = 1 => z = <<z[1]>>
            OBVIOUS
          <6>6. x = <<x[1]>>
            BY <6>3, <6>4, <6>5
          <6>7. QED
            BY <6>1, <6>3, <6>6
        <5>5. PICK y \in Items, x \in Items: y = Moved(s[i], d) /\ x = s[i]
          BY <2>3, <2>8, <4>1
        <5>6. TotalLen(<<y>>) = y.len /\ TotalLen(<<x>>) = x.len
          BY OneLong
        <5>7. u[i] = y.len - x.len
          BY <5>2, <5>3, <5>4, <5>5, <5>6 DEF Delta
        <5>8. w[i] = y.len - x.len
          BY <2>5, <4>1, <5>5
        <5>9. \A r1 \in C: r1.first # i
          <6>1. ASSUME NEW r1 \in C, r1.first = i PROVE FALSE
            <7>1. s[i].kind \in {"keyword", "keywordstart", "property", "propertystart", "imageend"}
              <8>1. KeywordChange(s, r1) \/ PropertyChange(s, r1) \/ Insertion(s, r1)
                BY <6>1 DEF Does
              <8>2. QED
                BY <6>1, <8>1, CutStarts
            <7>2. s[i].kind = "location"
              BY <2>3, <4>1
            <7>3. QED
              BY <7>1, <7>2
          <6>2. QED
            BY <6>1
        <5>10. v[i] = 0
          BY <1>1, <2>4, <5>9, DeltaHere
        <5>11. QED
          BY <2>9, <5>7, <5>8, <5>10
      <4>2. CASE i \notin S
        <5>1. \A r \in R: r.first = i => r \in C
          <6>1. ASSUME NEW r \in R, r.first = i, r \notin C PROVE FALSE
            <7>1. PICK j \in LocationsIn(s): r = Region(j, j, <<Moved(s[j], d)>>)
              BY <1>3, <6>1
            <7>2. r.first = j
              BY <7>1, RegionFields
            <7>3. QED
              BY <2>2, <4>2, <6>1, <7>1, <7>2
          <6>2. QED
            BY <6>1
        <5>2. u[i] = v[i]
          <6>1. CASE \E r \in R: r.first = i
            <7>1. PICK r \in R: r.first = i
              BY <6>1
            <7>2. r \in C
              BY <5>1, <7>1
            <7>3. QED
              BY <1>1, <2>4, <7>1, <7>2, DeltaHere
          <6>2. CASE \A r \in R: r.first # i
            <7>1. \A r \in C: r.first # i
              BY <1>1, <6>2
            <7>2. QED
              BY <1>1, <2>4, <6>2, <7>1, DeltaHere
          <6>3. QED
            BY <6>1, <6>2
        <5>3. w[i] = 0
          BY <2>5, <4>2
        <5>4. QED
          BY <2>9, <5>2, <5>3
      <4>3. QED
        BY <4>1, <4>2
    <3>2. QED
      BY <2>9, <3>1 DEF Adds
  <2>11. SumTo(u, n) = SumTo(v, n) + SumTo(w, n)
    BY <2>10, SumAdds
  <2>12. PICK A: A = Attachments(s)
    OBVIOUS
  <2>13. PICK L: L = Locations(s)
    OBVIOUS
  <2>14. PICK c: c = Cardinality(S)
    OBVIOUS
  <2>15. /\ c \in Nat /\ Lists(L, c, S) /\ Len(A) = c
         /\ \A q \in 1 .. c: L[q] \in S
    BY <2>2, <2>12, <2>13, <2>14, AttachmentsFacts
  <2>16. \A q \in 1 .. c: A[q].offset = s[L[q]].off /\ A[q].size = s[L[q]].size /\ A[q].span = s[L[q]].len
    BY <2>2, <2>12, <2>13, <2>14, AttachmentsFacts
  <2>17. PICK g: g = [q \in 1 .. c |-> Growth(A[q], d)]
    OBVIOUS
  <2>18. LocationsDelta(A, d) = SumTo(g, c)
    BY <2>15, <2>17, LocationsDeltaIsSum
  <2>19. \A q \in 1 .. c: g[q] = w[L[q]]
    <3>1. ASSUME NEW q \in 1 .. c PROVE g[q] = w[L[q]]
      <4>1. PICK i \in S: i = L[q]
        BY <2>15
      <4>2. w[i] = Moved(s[i], d).len - s[i].len
        BY <2>3, <2>5
      <4>3. Moved(s[i], d).len = LocationLength(s[i].off + d, s[i].size)
        BY MovedItem
      <4>4. g[q] = LocationLength(A[q].offset + d, A[q].size) - A[q].span
        BY <2>17 DEF Growth
      <4>5. A[q].offset = s[i].off /\ A[q].size = s[i].size /\ A[q].span = s[i].len
        BY <2>16, <4>1
      <4>6. QED
        BY <4>1, <4>2, <4>3, <4>4, <4>5
    <3>2. QED
      BY <3>1
  <2>20. Sparse(w, n, L, c, S)
    <3>1. S \subseteq 1 .. n
      BY <2>3
    <3>2. \A i \in (1 .. n) \ S: w[i] = 0
      BY <2>5
    <3>3. QED
      BY <2>9, <2>15, <3>1, <3>2 DEF Sparse
  <2>21. SumTo(w, n) = SumTo(g, c)
    BY <2>19, <2>20, SumSparse
  <2>22. d = delta + LocationsDelta(A, d)
    BY <1>3, <2>12 DEF Needed
  <2>23. QED
    BY <1>1, <2>7, <2>11, <2>18, <2>21, <2>22
<1>4. QED
  BY <1>2, <1>3 DEF Does

(* The data starts that much later. *)
LEMMA EndMoves ==
  ASSUME Printed, NEW s \in Seq(Items), NEW C, NEW delta, delta = DeltaOf(s, C),
         NEW d, NEW R, Does(s, C, delta, d, R)
  PROVE  XmlEnd(Splice(s, R)) = XmlEnd(s) + d /\ XmlEnd(s) \in Int /\ d \in Int
<1>1. Fit(s, R)
  BY DEF Does
<1>2. TotalLen(Splice(s, R)) = TotalLen(s) + DeltaOf(s, R) /\ TotalLen(s) \in Int
  BY <1>1, SpliceLength
<1>3. DeltaOf(s, R) = d /\ d \in Int
  BY MovesBy
<1>4. QED
  BY <1>2, <1>3 DEF XmlEnd, Preamble

-------------------------------------------------------------------------------
(* What an update keeps *)

(* Within the element of a property there are text and its location.       *)
LEMMA InElement ==
  ASSUME NEW s \in Seq(Items), PropertiesInPlace(s), NEW j \in PropertyEnds(s),
         NEW k \in StartOf(s, j) .. j
  PROVE  \/ k = StartOf(s, j)
         \/ k = j
         \/ k \in 1 .. Len(s) /\ s[k].kind = "text"
         \/ k \in 1 .. Len(s) /\ s[k].kind = "location" /\ s[k].id = "Property"
<1>1. PICK i: i = StartOf(s, j)
  OBVIOUS
<1>2. /\ j \in 1 .. Len(s) /\ i \in 1 .. Len(s) /\ i <= j
      /\ \/ s[j].kind = "property" /\ i = j
         \/ /\ s[j].kind = "propertyend" /\ i \in OpenProperty(s, j)
            /\ s[i].kind = "propertystart" /\ i < j
  BY <1>1, SpanFacts
<1>3. SUFFICES ASSUME k # i, k # j
               PROVE  \/ s[k].kind = "text"
                      \/ s[k].kind = "location" /\ s[k].id = "Property"
  BY <1>1, <1>2
<1>4. i < k /\ k < j /\ k \in 1 .. Len(s)
  BY <1>1, <1>2, <1>3
<1>5. /\ s[j].kind = "propertyend" /\ i \in OpenProperty(s, j) /\ s[i].kind = "propertystart"
  BY <1>2, <1>4
<1>6. PICK e \in DOMAIN s: Body(s, i, e)
  BY <1>2, <1>5 DEF PropertiesInPlace
<1>7. e \in Nat /\ i < e /\ s[e].kind = "propertyend"
  BY <1>6 DEF Body
<1>8. ~(e < j)
  <2>1. ASSUME e < j PROVE FALSE
    <3>1. e \in i + 1 .. j - 1
      BY <1>2, <1>7, <2>1
    <3>2. QED
      BY <1>5, <1>7, <3>1 DEF OpenProperty
  <2>2. QED
    BY <2>1
<1>9. k \in i + 1 .. e - 1
  BY <1>2, <1>4, <1>7, <1>8
<1>10. QED
  BY <1>6, <1>9 DEF Body

(* The end of an element is the one its start is followed by. *)
LEMMA OneBody ==
  ASSUME NEW s \in Seq(Items), NEW i \in 1 .. Len(s), NEW e \in 1 .. Len(s), Body(s, i, e),
         NEW j \in PropertyEnds(s), s[j].kind = "propertyend"
  PROVE  i = StartOf(s, j) <=> e = j
<1>1. PICK b: b = StartOf(s, j)
  OBVIOUS
<1>2. /\ j \in 1 .. Len(s) /\ b \in 1 .. Len(s) /\ b < j
      /\ b \in OpenProperty(s, j) /\ s[b].kind = "propertystart"
  <2>1. s[j].kind # "property"
    OBVIOUS
  <2>2. QED
    BY <1>1, <2>1, SpanFacts
<1>3. /\ i < e /\ s[i].kind = "propertystart" /\ s[e].kind = "propertyend"
      /\ \A k \in i + 1 .. e - 1: s[k].kind \in {"text", "location"}
  BY DEF Body
<1>4. \A k \in b + 1 .. j - 1: s[k].kind \notin {"propertystart", "propertyend"}
  BY <1>2 DEF OpenProperty
<1>5. ASSUME i = b PROVE e = j
  <2>1. ~(e < j)
    <3>1. e < j => e \in b + 1 .. j - 1
      BY <1>2, <1>3, <1>5
    <3>2. QED
      BY <1>3, <1>4, <3>1
  <2>2. ~(j < e)
    <3>1. j < e => j \in i + 1 .. e - 1
      BY <1>2, <1>3, <1>5
    <3>2. QED
      BY <1>3, <3>1
  <2>3. QED
    BY <1>2, <2>1, <2>2
<1>6. ASSUME e = j PROVE i = b
  <2>1. ~(i < b)
    <3>1. i < b => b \in i + 1 .. e - 1
      BY <1>2, <1>3, <1>6
    <3>2. QED
      BY <1>2, <1>3, <3>1
  <2>2. ~(b < i)
    <3>1. b < i => i \in b + 1 .. j - 1
      BY <1>2, <1>3, <1>6
    <3>2. QED
      BY <1>3, <1>4, <3>1
  <2>3. QED
    BY <1>2, <2>1, <2>2
<1>7. QED
  BY <1>1, <1>5, <1>6

(* What is replaced is a keyword, a location, or within the element of a   *)
(* property.                                                               *)
LEMMA GoneBy ==
  ASSUME NEW s \in Seq(Items), NEW d, NEW R, Cuts(s, d, R), NEW i, Gone(R, i)
  PROVE  /\ i \in Int
         /\ \E r \in R:
              \/ KeywordChange(s, r) /\ r.first = i /\ r.last = i
              \/ Relocated(s, d, r) /\ r.first = i /\ r.last = i
              \/ /\ PropertyChange(s, r) /\ r.last \in PropertyEnds(s) /\ r.first = StartOf(s, r.last)
                 /\ i \in r.first .. r.last
<1>1. PICK r \in R: i \in r.first .. r.last
  BY DEF Gone
<1>2. i \in Int
  BY <1>1
<1>3. CASE KeywordChange(s, r)
  <2>1. r.first \in 1 .. Len(s) /\ r.last = r.first
    BY <1>3, CutStarts
  <2>2. r.first = i
    BY <1>1, <2>1
  <2>3. QED
    BY <1>2, <1>3, <2>1, <2>2
<1>4. CASE Relocated(s, d, r)
  <2>1. r.first \in 1 .. Len(s) /\ r.last = r.first
    BY <1>4, CutStarts
  <2>2. r.first = i
    BY <1>1, <2>1
  <2>3. QED
    BY <1>2, <1>4, <2>1, <2>2
<1>5. CASE PropertyChange(s, r)
  <2>1. r.last \in PropertyEnds(s) /\ r.first = StartOf(s, r.last)
    BY <1>5 DEF PropertyChange
  <2>2. QED
    BY <1>1, <1>2, <1>5, <2>1
<1>6. ~Insertion(s, r)
  <2>1. ASSUME Insertion(s, r) PROVE FALSE
    <3>1. r.first \in 1 .. Len(s) /\ r.last = r.first - 1
      BY <2>1, CutStarts
    <3>2. QED
      BY <1>1, <3>1
  <2>2. QED
    BY <2>1
<1>7. QED
  BY <1>3, <1>4, <1>5, <1>6 DEF Cuts

(* Items of other kinds stay. *)
LEMMA OthersStay ==
  ASSUME NEW s \in Seq(Items), NEW d, NEW R, Cuts(s, d, R), PropertiesInPlace(s), NEW i, Gone(R, i)
  PROVE  i \in 1 .. Len(s)
         /\ s[i].kind \in {"keyword", "keywordstart", "location", "property", "propertystart",
                           "propertyend", "text"}
<1>1. PICK r \in R:
              \/ KeywordChange(s, r) /\ r.first = i /\ r.last = i
              \/ Relocated(s, d, r) /\ r.first = i /\ r.last = i
              \/ /\ PropertyChange(s, r) /\ r.last \in PropertyEnds(s) /\ r.first = StartOf(s, r.last)
                 /\ i \in r.first .. r.last
  BY GoneBy
<1>2. CASE KeywordChange(s, r) /\ r.first = i
  BY <1>2, CutStarts
<1>3. CASE Relocated(s, d, r) /\ r.first = i
  BY <1>3, CutStarts
<1>4. CASE /\ PropertyChange(s, r) /\ r.last \in PropertyEnds(s) /\ r.first = StartOf(s, r.last)
           /\ i \in r.first .. r.last
  <2>1. PICK j \in PropertyEnds(s): j = r.last
    BY <1>4
  <2>2. /\ j \in 1 .. Len(s) /\ StartOf(s, j) \in 1 .. Len(s)
        /\ s[j].kind \in {"property", "propertyend"}
        /\ s[StartOf(s, j)].kind \in {"property", "propertystart"}
    BY <2>1, SpanFacts
  <2>3. i \in StartOf(s, j) .. j
    BY <1>4, <2>1
  <2>4. QED
    BY <2>2, <2>3, InElement
<1>5. QED
  BY <1>1, <1>2, <1>3, <1>4

(* Where one item replaces others, all of them end there. *)
LEMMA Replaced ==
  ASSUME NEW s \in Seq(Items), NEW R, Fit(s, R), NEW r \in R, r.first <= r.last, NEW y, r.new = <<y>>,
         NEW n, NEW B, NEW out, Placed(s, R, n, B, out)
  PROVE  \A k \in r.first .. r.last:
            /\ B[k] = B[r.first - 1] + 1 /\ B[k] \in 1 .. Len(out) /\ out[B[k]] = y
            /\ B[r.first - 1] \in Nat
<1>1. r.first \in Nat /\ r.last \in Nat /\ 1 <= r.first /\ r.last <= Len(s) /\ n = Len(s) + 1
      /\ B \in [0 .. n -> Nat]
  BY DEF Fit, Placed
<1>2. PICK f \in Nat: f = r.first /\ f \in 1 .. n /\ f - 1 \in 0 .. n
  BY <1>1
<1>3. NewAt(R, f) = <<y>>
  BY <1>2, NewHere
<1>4. Len(<<y>>) = 1 /\ <<y>>[1] = y
  OBVIOUS
<1>5. out[B[f - 1] + 1] = y
  <2>1. \A k \in 1 .. Len(NewAt(R, f)): out[B[f - 1] + k] = NewAt(R, f)[k]
    BY <1>2 DEF Placed
  <2>2. 1 \in 1 .. Len(NewAt(R, f))
    BY <1>3, <1>4
  <2>3. QED
    BY <1>3, <1>4, <2>1, <2>2
<1>6. ASSUME NEW k \in r.first .. r.last
      PROVE  /\ B[k] = B[f - 1] + 1 /\ B[k] \in 1 .. Len(out) /\ out[B[k]] = y
  <2>1. B[k] = B[f - 1] + 1
    <3>1. B[k] = B[r.first - 1] + Len(r.new)
      BY StretchEnds, ZenonT(30)
    <3>2. QED
      BY <1>2, <1>4, <3>1
  <2>2. k \in 0 .. n /\ k <= n /\ n \in 0 .. n
    BY <1>1
  <2>3. B[k] <= B[n] /\ Len(out) = B[n]
    BY <2>2 DEF Placed
  <2>4. B[f - 1] \in Nat /\ B[n] \in Nat
    BY <1>1, <1>2, <2>2
  <2>5. QED
    BY <1>5, <2>1, <2>3, <2>4
<1>7. B[f - 1] \in Nat
  BY <1>1, <1>2
<1>8. QED
  BY <1>2, <1>6, <1>7

(* What stays is where its piece ends, in the same order. *)
LEMMA Kept ==
  ASSUME NEW s \in Seq(Items), NEW R, Fit(s, R), NEW n, NEW B, NEW out, Placed(s, R, n, B, out),
         NEW i \in 1 .. Len(s), ~Gone(R, i)
  PROVE  /\ B[i] \in 1 .. Len(out) /\ out[B[i]] = s[i] /\ B[i - 1] \in Nat /\ B[i - 1] < B[i]
         /\ B[i - 1] + Len(NewAt(R, i)) + 1 = B[i] /\ Len(NewAt(R, i)) \in Nat
<1>1. n = Len(s) + 1 /\ B \in [0 .. n -> Nat] /\ Len(out) = B[n]
  BY DEF Placed
<1>2. i \in DOMAIN s /\ i - 1 \in 0 .. n /\ i \in 0 .. n /\ i <= n /\ n \in 0 .. n
  BY <1>1
<1>3. B[i] = B[i - 1] + Len(NewAt(R, i)) + 1 /\ out[B[i]] = s[i]
  BY <1>2 DEF Placed
<1>4. Len(NewAt(R, i)) \in Nat
  BY NewType
<1>5. B[i] <= B[n]
  BY <1>2 DEF Placed
<1>6. B[i - 1] \in Nat /\ B[i] \in Nat /\ B[n] \in Nat
  BY <1>1, <1>2
<1>7. QED
  BY <1>1, <1>3, <1>4, <1>5, <1>6

(* Ends are in the order of the pieces. *)
LEMMA EndsInOrder ==
  ASSUME NEW s \in Seq(Items), NEW R, NEW n, NEW B, NEW out, Placed(s, R, n, B, out),
         NEW i \in 0 .. n, NEW j \in 1 .. n, i < j
  PROVE  /\ B[i] <= B[j - 1] /\ B[i] \in Nat /\ B[j - 1] \in Nat /\ B[j] \in Nat
         /\ j - 1 \in 0 .. n
<1>1. n = Len(s) + 1 /\ n \in Nat /\ B \in [0 .. n -> Nat]
  BY DEF Placed
<1>2. PICK h \in 0 .. n: h = j - 1 /\ i <= h
  BY <1>1
<1>3. \A x, y \in 0 .. n: x <= y => B[x] <= B[y]
  BY DEF Placed
<1>4. B[i] <= B[h]
  BY <1>2, <1>3
<1>5. j \in 0 .. n
  BY <1>1
<1>6. QED
  BY <1>1, <1>2, <1>4, <1>5

-------------------------------------------------------------------------------
(* Locations *)

SameLocation(x, y, d) ==
  /\ y.id = x.id /\ y.off = x.off + d /\ y.size = x.size
  /\ y.fmt = x.fmt \/ y.fmt = "source"
Staying(s, d, R) ==
  {i \in LocationsIn(s): ~Gone(R, i) \/ \E r \in R: Relocated(s, d, r) /\ r.first = i}

(* A location that moves is where its piece ends. *)
MovedTo(s, d, r, B, out, i) ==
  /\ i \in 1 .. Len(s) /\ B[i] = B[i - 1] + 1 /\ B[i - 1] \in Nat
  /\ B[i] \in 1 .. Len(out) /\ out[B[i]] = Moved(s[i], d) /\ r.new = <<Moved(s[i], d)>>

(* It is the one item its region writes.                                   *)
LEMMA RelocatedTo ==
  ASSUME NEW s \in Seq(Items), NEW d, NEW R, Fit(s, R), NEW r \in R, Relocated(s, d, r),
         NEW n, NEW B, NEW out, Placed(s, R, n, B, out), NEW i, i = r.first
  PROVE  MovedTo(s, d, r, B, out, i)
<1>1. i \in 1 .. Len(s) /\ r.first = i /\ r.last = i /\ r.new = <<Moved(s[i], d)>>
  <2>1. r.first \in 1 .. Len(s) /\ r.last = r.first
    BY CutStarts
  <2>2. QED
    BY <2>1 DEF Relocated
<1>2. PICK y: y = Moved(s[i], d)
  OBVIOUS
<1>3. r.first <= r.last /\ r.new = <<y>> /\ i \in r.first .. r.last
  BY <1>1, <1>2
<1>4. B[i] = B[r.first - 1] + 1 /\ B[i] \in 1 .. Len(out) /\ out[B[i]] = y /\ B[r.first - 1] \in Nat
  BY <1>3, Replaced
<1>5. QED
  BY <1>1, <1>2, <1>4 DEF MovedTo

(* While the data moves, every location is given its new offset. *)
LEMMA StayingMoves ==
  ASSUME NEW s \in Seq(Items), NEW C, NEW delta, NEW d, NEW R, Does(s, C, delta, d, R),
         NEW i \in LocationsIn(s), ~Gone(R, i)
  PROVE  d = 0
<1>1. CASE \A r: r \in R <=> r \in C \/ \E k \in LocationsIn(s): r = Region(k, k, <<Moved(s[k], d)>>)
  <2>1. PICK r: r = Region(i, i, <<Moved(s[i], d)>>)
    OBVIOUS
  <2>2. r \in R
    BY <1>1, <2>1
  <2>3. r.first = i /\ r.last = i
    BY <2>1, RegionFields
  <2>4. i \in 1 .. Len(s)
    BY DEF LocationsIn, OfKind
  <2>5. QED
    BY <2>2, <2>3, <2>4 DEF Gone
<1>2. QED
  BY <1>1 DEF Does

(* Locations are carried over in order, with new offsets. *)
LEMMA LocationsGo ==
  ASSUME NEW s \in Seq(Items), NEW C, NEW delta, NEW d, NEW R, Does(s, C, delta, d, R),
         NEW n, NEW B, NEW out, Placed(s, R, n, B, out), NEW i \in Staying(s, d, R)
  PROVE  B[i] \in LocationsIn(out) /\ SameLocation(s[i], out[B[i]], d)
<1>1. Fit(s, R) /\ i \in 1 .. Len(s) /\ s[i].kind = "location" /\ i \in LocationsIn(s)
  BY DEF Does, Staying, LocationsIn, OfKind
<1>2. out \in Seq(Items)
  BY DEF Placed
<1>3. CASE ~Gone(R, i)
  <2>1. d = 0
    BY <1>1, <1>3, StayingMoves
  <2>2. B[i] \in 1 .. Len(out) /\ out[B[i]] = s[i]
    BY <1>1, <1>3, Kept
  <2>3. B[i] \in LocationsIn(out)
    BY <1>1, <1>2, <2>2 DEF LocationsIn, OfKind
  <2>4. PICK x \in Items: x = s[i]
    BY <1>1
  <2>5. x.off \in Nat
    BY DEF Items
  <2>6. SameLocation(x, x, d)
    BY <2>1, <2>5 DEF SameLocation
  <2>7. QED
    BY <2>2, <2>3, <2>4, <2>6
<1>4. CASE \E r \in R: Relocated(s, d, r) /\ r.first = i
  <2>1. PICK r \in R: Relocated(s, d, r) /\ r.first = i
    BY <1>4
  <2>20. MovedTo(s, d, r, B, out, i)
    BY <1>1, <2>1, RelocatedTo
  <2>2. B[i] \in 1 .. Len(out) /\ out[B[i]] = Moved(s[i], d)
    BY <2>20 DEF MovedTo
  <2>3. PICK x, y: x = s[i] /\ y = Moved(x, d)
    OBVIOUS
  <2>4. /\ y.kind = "location" /\ y.id = x.id /\ y.fmt = "source" /\ y.off = x.off + d
        /\ y.size = x.size
    BY <2>3, MovedItem
  <2>5. B[i] \in LocationsIn(out)
    BY <1>2, <2>2, <2>3, <2>4 DEF LocationsIn, OfKind
  <2>6. SameLocation(x, y, d)
    BY <2>4 DEF SameLocation
  <2>7. QED
    BY <2>2, <2>3, <2>5, <2>6
<1>5. QED
  BY <1>3, <1>4 DEF Staying

(* Locations that stay, moved or not, keep their order.                    *)
LEMMA LocationsInOrder ==
  ASSUME NEW s \in Seq(Items), NEW d, NEW R, Fit(s, R),
         NEW n, NEW B, NEW out, Placed(s, R, n, B, out),
         NEW i \in Staying(s, d, R), NEW j \in Staying(s, d, R), i < j
  PROVE  B[i] < B[j]
<1>1. i \in 1 .. Len(s) /\ j \in 1 .. Len(s)
  BY DEF Staying, LocationsIn, OfKind
<1>2. n = Len(s) + 1
  BY DEF Placed
<1>3. B[i] <= B[j - 1] /\ B[i] \in Nat /\ B[j - 1] \in Nat /\ B[j] \in Nat
  BY <1>1, <1>2, EndsInOrder
<1>4. B[j - 1] < B[j]
  <2>1. CASE ~Gone(R, j)
    BY <1>1, <2>1, Kept
  <2>2. CASE \E r \in R: Relocated(s, d, r) /\ r.first = j
    <3>1. PICK r \in R: Relocated(s, d, r) /\ r.first = j
      BY <2>2
    <3>2. MovedTo(s, d, r, B, out, j)
      BY <3>1, RelocatedTo
    <3>3. QED
      BY <1>3, <3>2 DEF MovedTo
  <2>3. QED
    BY <2>1, <2>2 DEF Staying
<1>5. QED
  BY <1>3, <1>4

(* What is new in the result is new at some region. *)
LEMMA NewFrom ==
  ASSUME NEW s \in Seq(Items), NEW R, Fit(s, R), NEW n, NEW B, NEW out, Placed(s, R, n, B, out),
         NEW p \in 1 .. Len(out), \A i \in 1 .. Len(s): ~Gone(R, i) => p # B[i]
  PROVE  \E r \in R: \E k \in 1 .. Len(r.new):
           /\ p = B[r.first - 1] + k /\ out[p] = r.new[k]
           /\ NewAt(R, r.first) = r.new /\ r.first \in 1 .. n
<1>1. n = Len(s) + 1 /\ DOMAIN s = 1 .. Len(s)
  BY DEF Placed
<1>2. PICK i \in 1 .. n: \E k \in 1 .. Len(NewAt(R, i)): p = B[i - 1] + k
  BY <1>1 DEF Placed
<1>3. PICK k \in 1 .. Len(NewAt(R, i)): p = B[i - 1] + k
  BY <1>2
<1>4. \E r \in R: r.first = i
  <2>1. ASSUME \A r \in R: r.first # i PROVE FALSE
    <3>1. NewAt(R, i) = << >>
      BY <2>1, NewHere
    <3>2. Len(<< >>) = 0
      OBVIOUS
    <3>3. k \in 1 .. 0
      BY <1>3, <3>1, <3>2
    <3>4. QED
      BY <3>3
  <2>2. QED
    BY <2>1
<1>5. PICK r \in R: r.first = i
  BY <1>4
<1>6. NewAt(R, i) = r.new
  BY <1>5, NewHere
<1>7. out[p] = r.new[k]
  <2>1. out[B[i - 1] + k] = NewAt(R, i)[k]
    BY <1>3 DEF Placed
  <2>2. QED
    BY <1>3, <1>6, <2>1
<1>8. QED
  BY <1>3, <1>5, <1>6, <1>7

(* No location comes from elsewhere. *)
LEMMA LocationsFrom ==
  ASSUME Printed, NEW s \in Seq(Items), NEW d, NEW R, Cuts(s, d, R), Fit(s, R),
         NEW n, NEW B, NEW out, Placed(s, R, n, B, out), NEW p \in LocationsIn(out)
  PROVE  \E i \in Staying(s, d, R): B[i] = p
<1>1. p \in 1 .. Len(out) /\ out[p].kind = "location" /\ out \in Seq(Items)
  BY DEF LocationsIn, OfKind, Placed
<1>2. CASE \E i \in 1 .. Len(s): ~Gone(R, i) /\ p = B[i]
  <2>1. PICK i \in 1 .. Len(s): ~Gone(R, i) /\ p = B[i]
    BY <1>2
  <2>2. out[p] = s[i]
    BY <2>1, Kept
  <2>3. i \in Staying(s, d, R)
    BY <1>1, <2>1, <2>2 DEF Staying, LocationsIn, OfKind
  <2>4. QED
    BY <2>1, <2>3
<1>3. CASE \A i \in 1 .. Len(s): ~Gone(R, i) => p # B[i]
  <2>1. PICK r \in R: \E k \in 1 .. Len(r.new): p = B[r.first - 1] + k /\ out[p] = r.new[k]
    BY <1>1, <1>3, NewFrom
  <2>2. PICK k \in 1 .. Len(r.new): p = B[r.first - 1] + k /\ out[p] = r.new[k]
    BY <2>1
  <2>3. Relocated(s, d, r)
    <3>1. KeywordChange(s, r) \/ PropertyChange(s, r) \/ Insertion(s, r) \/ Relocated(s, d, r)
      BY DEF Cuts
    <3>2. r.new[k].kind = "location"
      BY <1>1, <2>2
    <3>3. QED
      BY <3>1, <3>2, CutWrites
  <2>4. PICK i: i = r.first
    OBVIOUS
  <2>5. MovedTo(s, d, r, B, out, i)
    BY <2>3, <2>4, RelocatedTo
  <2>6. k = 1
    <3>1. PICK y: y = Moved(s[i], d)
      OBVIOUS
    <3>2. Len(<<y>>) = 1
      OBVIOUS
    <3>3. k \in 1 .. 1
      BY <2>2, <2>5, <3>1, <3>2 DEF MovedTo
    <3>4. QED
      BY <3>3
  <2>7. i \in Staying(s, d, R)
    BY <2>3, <2>4 DEF Staying, Relocated
  <2>8. QED
    BY <2>2, <2>4, <2>5, <2>6, <2>7 DEF MovedTo
<1>4. QED
  BY <1>2, <1>3

(* A location outside a property stays. *)
LEMMA OutsideStays ==
  ASSUME NEW s \in Seq(Items), PropertiesInPlace(s), NEW d, NEW R, Cuts(s, d, R),
         NEW i \in LocationsIn(s), s[i].id # "Property"
  PROVE  i \in Staying(s, d, R)
<1> SUFFICES ASSUME Gone(R, i), ~\E r \in R: Relocated(s, d, r) /\ r.first = i
             PROVE  FALSE
  BY DEF Staying
<1>1. i \in 1 .. Len(s) /\ s[i].kind = "location"
  BY DEF LocationsIn, OfKind
<1>2. PICK r \in R:
              \/ KeywordChange(s, r) /\ r.first = i /\ r.last = i
              \/ Relocated(s, d, r) /\ r.first = i /\ r.last = i
              \/ /\ PropertyChange(s, r) /\ r.last \in PropertyEnds(s) /\ r.first = StartOf(s, r.last)
                 /\ i \in r.first .. r.last
  BY GoneBy
<1>3. CASE KeywordChange(s, r) /\ r.first = i
  <2>1. s[i].kind \in {"keyword", "keywordstart"}
    BY <1>3, CutStarts
  <2>2. QED
    BY <1>1, <2>1
<1>4. CASE /\ PropertyChange(s, r) /\ r.last \in PropertyEnds(s) /\ r.first = StartOf(s, r.last)
           /\ i \in r.first .. r.last
  <2>1. PICK j \in PropertyEnds(s): j = r.last
    BY <1>4
  <2>2. /\ s[j].kind \in {"property", "propertyend"}
        /\ s[StartOf(s, j)].kind \in {"property", "propertystart"}
    BY <2>1, SpanFacts
  <2>3. i \in StartOf(s, j) .. j
    BY <1>4, <2>1
  <2>4. QED
    BY <1>1, <2>2, <2>3, InElement
<1>5. QED
  BY <1>2, <1>3, <1>4

-------------------------------------------------------------------------------
(* Blocks *)

(* The locations of a document are its location items.                     *)
LEMMA RangeOfLocations ==
  ASSUME NEW s \in Seq(Items)
  PROVE  Range(Locations(s)) = LocationsIn(s)
<1>1. PICK L, n, a: L = Locations(s) /\ n = Cardinality(LocationsIn(s)) /\ a = Attachments(s)
  OBVIOUS
<1>2. Range(L) = LocationsIn(s)
  BY <1>1, AttachmentsFacts
<1>3. QED
  BY <1>1, <1>2

(* A block is where it was behind the end of the header. *)
LEMMA SameBytes ==
  ASSUME NEW s, NEW t, NEW data, NEW i, NEW j, NEW d \in Int, NEW e \in Int,
         XmlEnd(s) = e, XmlEnd(t) = e + d, SameLocation(s[i], t[j], d),
         s[i].off \in Nat, s[i].size \in Nat
  PROVE  BlockOf(s, data, i) = BlockOf(t, data, j)
<1>1. PICK o \in Nat, z \in Nat: o = s[i].off /\ z = s[i].size
  OBVIOUS
<1>2. t[j].off = o + d /\ t[j].size = z
  BY <1>1 DEF SameLocation
<1>3. BlockOf(s, data, i) = [k \in 1 .. z |-> IF o - e + k \in DOMAIN data THEN data[o - e + k] ELSE "none"]
  BY <1>1 DEF BlockOf, BlockAt
<1>4. BlockOf(t, data, j) = [k \in 1 .. z |-> IF o + d - (e + d) + k \in DOMAIN data
                                               THEN data[o + d - (e + d) + k] ELSE "none"]
  BY <1>2 DEF BlockOf, BlockAt
<1>5. \A k \in 1 .. z: o + d - (e + d) + k = o - e + k
  OBVIOUS
<1>6. QED
  BY <1>3, <1>4, <1>5

(* Every location outside a property still leads to its block, and none    *)
(* leads to another, at the new length of the header.                      *)
LEMMA BlocksStep ==
  ASSUME Printed, TypeInvariant, [Next]_vars,
         Readable(items) /\ ImageIsSupported(items) => PropertiesInPlace(items),
         updates' # updates
  PROVE  /\ \A i \in Range(Locations(items)):
              items[i].id # "Property" => \E j \in Range(Locations(items')): SameBlock(i, j)
         /\ \A j \in Range(Locations(items')): \E i \in Range(Locations(items)): SameBlock(i, j)
<1>1. Update
  BY DEF Next, vars
<1>2. PICK after, C, delta, d, R:
        /\ delta = DeltaOf(items, C) /\ Does(items, C, delta, d, R)
        /\ items' = Splice(items, R) /\ tail' = tail /\ items' \in Seq(Items)
  BY <1>1, WritesASplice
<1>3. PropertiesInPlace(items)
  BY <1>1, Writes
<1>4. items \in Seq(Items)
  BY DEF TypeInvariant
<1>5. Fit(items, R) /\ Cuts(items, d, R)
  BY <1>2 DEF Does
<1>6. PICK n: n = Len(items) + 1
  OBVIOUS
<1>7. PICK B: Placed(items, R, n, B, items')
  BY <1>2, <1>4, <1>5, <1>6, SplicePlaced
<1>8. PICK e \in Int: XmlEnd(items) = e /\ XmlEnd(items') = e + d /\ d \in Int
  BY <1>2, <1>4, EndMoves
<1>9. Range(Locations(items)) = LocationsIn(items) /\ Range(Locations(items')) = LocationsIn(items')
  BY <1>2, <1>4, RangeOfLocations
<1>10. ASSUME NEW i \in Staying(items, d, R)
       PROVE  B[i] \in LocationsIn(items') /\ SameBlock(i, B[i]) /\ i \in LocationsIn(items)
  <2>1. B[i] \in LocationsIn(items') /\ SameLocation(items[i], items'[B[i]], d)
    BY <1>2, <1>4, <1>7, LocationsGo
  <2>2. i \in LocationsIn(items)
    BY DEF Staying
  <2>3. items[i].off \in Nat /\ items[i].size \in Nat
    <3>1. items[i] \in Items
      BY <1>4, <2>2 DEF LocationsIn, OfKind
    <3>2. QED
      BY <3>1 DEF Items
  <2>4. PICK t, data: t = items' /\ data = tail
    OBVIOUS
  <2>5. BlockOf(items, data, i) = BlockOf(t, data, B[i])
    BY <1>8, <2>1, <2>3, <2>4, SameBytes
  <2>6. items'[B[i]].id = items[i].id
    BY <2>1 DEF SameLocation
  <2>7. BlockOf(items', tail', B[i]) = BlockOf(t, data, B[i])
    BY <1>2, <2>4
  <2>8. QED
    BY <2>1, <2>2, <2>4, <2>5, <2>6, <2>7 DEF SameBlock
<1>11. ASSUME NEW i \in LocationsIn(items), items[i].id # "Property"
       PROVE  \E j \in LocationsIn(items'): SameBlock(i, j)
  BY <1>3, <1>4, <1>5, <1>10, <1>11, OutsideStays
<1>12. ASSUME NEW j \in LocationsIn(items')
       PROVE  \E i \in LocationsIn(items): SameBlock(i, j)
  <2>1. PICK i \in Staying(items, d, R): B[i] = j
    BY <1>4, <1>5, <1>7, LocationsFrom
  <2>2. QED
    BY <1>10, <2>1
<1>13. QED
  BY <1>9, <1>11, <1>12

-------------------------------------------------------------------------------
(* The documents stay what the splice is made for *)

(* What is new is text, a keyword, a property or a location; what else is  *)
(* there has stayed.                                                       *)
LEMMA WhereFrom ==
  ASSUME Printed, NEW s \in Seq(Items), NEW d, NEW R, Cuts(s, d, R), Fit(s, R),
         NEW n, NEW B, NEW out, Placed(s, R, n, B, out), NEW p \in 1 .. Len(out)
  PROVE  \/ \E i \in 1 .. Len(s): ~Gone(R, i) /\ p = B[i] /\ out[p] = s[i]
         \/ \E r \in R: \E k \in 1 .. Len(r.new):
              /\ p = B[r.first - 1] + k /\ out[p] = r.new[k]
              /\ NewAt(R, r.first) = r.new /\ r.first \in 1 .. n
              /\ \/ KeywordChange(s, r) \/ PropertyChange(s, r)
                 \/ Insertion(s, r) \/ Relocated(s, d, r)
              /\ r.new[k].kind \in {"text", "keyword", "property", "location"}
              /\ r.new[k].kind = "location" => Relocated(s, d, r) /\ r.new[k] = Moved(s[r.first], d)
<1>1. CASE \E i \in 1 .. Len(s): ~Gone(R, i) /\ p = B[i]
  <2>1. PICK i \in 1 .. Len(s): ~Gone(R, i) /\ p = B[i]
    BY <1>1
  <2>2. out[p] = s[i]
    BY <2>1, Kept
  <2>3. QED
    BY <2>1, <2>2
<1>2. CASE \A i \in 1 .. Len(s): ~Gone(R, i) => p # B[i]
  <2>1. PICK r \in R: \E k \in 1 .. Len(r.new):
              /\ p = B[r.first - 1] + k /\ out[p] = r.new[k]
              /\ NewAt(R, r.first) = r.new /\ r.first \in 1 .. n
    BY <1>2, NewFrom
  <2>2. PICK k \in 1 .. Len(r.new):
              /\ p = B[r.first - 1] + k /\ out[p] = r.new[k]
              /\ NewAt(R, r.first) = r.new /\ r.first \in 1 .. n
    BY <2>1
  <2>3. KeywordChange(s, r) \/ PropertyChange(s, r) \/ Insertion(s, r) \/ Relocated(s, d, r)
    BY DEF Cuts
  <2>4. /\ r.new[k].kind \in {"text", "keyword", "property", "location"}
        /\ r.new[k].kind = "location" => Relocated(s, d, r) /\ r.new[k] = Moved(s[r.first], d)
    BY <2>3, CutWrites
  <2>5. QED
    BY <2>2, <2>3, <2>4
<1>3. QED
  BY <1>1, <1>2

(* Where something new is: behind what ends before, and before what stays  *)
(* there.                                                                  *)
LEMMA NewBetween ==
  ASSUME NEW s \in Seq(Items), NEW R, Fit(s, R), NEW n, NEW B, NEW out, Placed(s, R, n, B, out),
         NEW i \in 1 .. n, NEW k \in 1 .. Len(NewAt(R, i)), NEW p, p = B[i - 1] + k
  PROVE  /\ B[i - 1] \in Nat /\ B[i] \in Nat /\ B[i - 1] < p /\ p <= B[i]
         /\ (i <= Len(s) /\ ~Gone(R, i)) => p < B[i]
<1>1. n = Len(s) + 1 /\ n \in Nat /\ B \in [0 .. n -> Nat]
  BY DEF Placed
<1>2. i - 1 \in 0 .. n /\ i \in 0 .. n
  BY <1>1
<1>3. B[i - 1] \in Nat /\ B[i] \in Nat
  BY <1>1, <1>2
<1>4. Len(NewAt(R, i)) \in Nat
  BY NewType
<1>5. B[i - 1] + Len(NewAt(R, i)) <= B[i]
  BY DEF Placed
<1>6. i <= Len(s) /\ ~Gone(R, i) => B[i - 1] + Len(NewAt(R, i)) + 1 = B[i]
  <2>1. i <= Len(s) => i \in 1 .. Len(s)
    BY <1>1
  <2>2. QED
    BY <2>1, Kept
<1>7. QED
  BY <1>3, <1>4, <1>5, <1>6

(* A property's start tag goes with its end tag. *)
LEMMA BodyGone ==
  ASSUME NEW s \in Seq(Items), PropertiesInPlace(s), NEW d, NEW R, Cuts(s, d, R),
         NEW i \in 1 .. Len(s), NEW e \in 1 .. Len(s), Body(s, i, e)
  PROVE  Gone(R, i) <=> Gone(R, e)
<1>1. s[i].kind = "propertystart" /\ s[e].kind = "propertyend" /\ i < e
  BY DEF Body
<1>2. ASSUME NEW x \in {i, e}, Gone(R, x) PROVE Gone(R, i) /\ Gone(R, e)
  <2>1. PICK r \in R:
              \/ KeywordChange(s, r) /\ r.first = x /\ r.last = x
              \/ Relocated(s, d, r) /\ r.first = x /\ r.last = x
              \/ /\ PropertyChange(s, r) /\ r.last \in PropertyEnds(s) /\ r.first = StartOf(s, r.last)
                 /\ x \in r.first .. r.last
    BY <1>2, GoneBy
  <2>2. ~(KeywordChange(s, r) /\ r.first = x)
    <3>1. KeywordChange(s, r) => s[r.first].kind \in {"keyword", "keywordstart"}
      BY CutStarts
    <3>2. QED
      BY <1>1, <3>1
  <2>3. ~(Relocated(s, d, r) /\ r.first = x)
    <3>1. Relocated(s, d, r) => s[r.first].kind = "location"
      BY CutStarts
    <3>2. QED
      BY <1>1, <3>1
  <2>4. /\ r.last \in PropertyEnds(s) /\ r.first = StartOf(s, r.last) /\ x \in r.first .. r.last
    BY <2>1, <2>2, <2>3
  <2>12. PICK j \in PropertyEnds(s): j = r.last
    BY <2>4
  <2>5. PICK b: j = r.last /\ b = StartOf(s, j) /\ b = r.first
    BY <2>4, <2>12
  <2>6. /\ j \in 1 .. Len(s) /\ b \in 1 .. Len(s) /\ b <= j
        /\ \/ s[j].kind = "property" /\ b = j
           \/ s[j].kind = "propertyend" /\ s[b].kind = "propertystart"
    <3>1. j \in PropertyEnds(s)
      BY <2>12
    <3>2. b = StartOf(s, j)
      BY <2>5
    <3>3. /\ j \in 1 .. Len(s) /\ StartOf(s, j) \in 1 .. Len(s) /\ StartOf(s, j) <= j
          /\ \/ s[j].kind = "property" /\ StartOf(s, j) = j
             \/ s[j].kind = "propertyend" /\ s[StartOf(s, j)].kind = "propertystart"
      BY <3>1, SpanFacts
    <3>4. QED
      BY <3>2, <3>3
  <2>7. x = b \/ x = j
    <3>1. x \in StartOf(s, j) .. j
      BY <2>4, <2>5
    <3>2. s[x].kind \notin {"text", "location"}
      BY <1>1
    <3>3. QED
      BY <2>5, <2>12, <3>1, <3>2, InElement
  <2>8. s[j].kind = "propertyend" /\ s[b].kind = "propertystart"
    BY <1>1, <2>6, <2>7
  <2>9. i = b /\ e = j
    <3>1. i = b <=> e = j
      <4>1. j \in PropertyEnds(s) /\ b = StartOf(s, j) /\ s[j].kind = "propertyend"
        BY <2>5, <2>8, <2>12
      <4>2. i = StartOf(s, j) <=> e = j
        BY <4>1, OneBody
      <4>3. QED
        BY <4>1, <4>2
    <3>2. x = i => x # j
      BY <1>1, <2>8
    <3>3. x = e => x # b
      BY <1>1, <2>8
    <3>4. QED
      BY <2>7, <3>1, <3>2, <3>3
  <2>10. b \in r.first .. r.last /\ j \in r.first .. r.last
    BY <2>5, <2>6
  <2>11. QED
    BY <2>9, <2>10 DEF Gone
<1>3. QED
  BY <1>2

(* If they stay, so does what is between them, or it moves. *)
LEMMA BodyCarried ==
  ASSUME Printed, NEW s \in Seq(Items), NEW d, NEW R, Cuts(s, d, R), Fit(s, R),
         NEW n, NEW B, NEW out, Placed(s, R, n, B, out),
         NEW i \in 1 .. Len(s), NEW e \in 1 .. Len(s), Body(s, i, e), ~Gone(R, i), ~Gone(R, e)
  PROVE  B[i] \in DOMAIN out /\ B[e] \in DOMAIN out /\ Body(out, B[i], B[e])
<1>1. /\ s[i].kind = "propertystart" /\ s[e].kind = "propertyend" /\ i < e
      /\ \A k \in i + 1 .. e - 1: \/ s[k].kind = "text"
                                  \/ s[k].kind = "location" /\ s[k].id = "Property"
  BY DEF Body
<1>2. out \in Seq(Items) /\ n = Len(s) + 1
  BY DEF Placed
<1>3. /\ B[i] \in 1 .. Len(out) /\ out[B[i]] = s[i]
      /\ B[e] \in 1 .. Len(out) /\ out[B[e]] = s[e] /\ B[e - 1] < B[e] /\ B[e - 1] \in Nat
  BY Kept
<1>4. B[i] < B[e]
  <2>1. B[i] <= B[e - 1]
    BY <1>1, <1>2, EndsInOrder
  <2>2. QED
    BY <1>3, <2>1
<1>5. ASSUME NEW p \in B[i] + 1 .. B[e] - 1
      PROVE  \/ out[p].kind = "text"
             \/ out[p].kind = "location" /\ out[p].id = "Property"
  <2>1. p \in 1 .. Len(out) /\ B[i] < p /\ p < B[e]
    BY <1>3, SMTT(30)
  <2>2. CASE \E k \in 1 .. Len(s): ~Gone(R, k) /\ p = B[k] /\ out[p] = s[k]
    <3>1. PICK k \in 1 .. Len(s): ~Gone(R, k) /\ p = B[k] /\ out[p] = s[k]
      BY <2>2
    <3>2. ~(k < i)
      <4>1. ASSUME k < i PROVE FALSE
        <5>1. B[k] <= B[i - 1] /\ B[i - 1] < B[i] /\ B[i - 1] \in Nat
          <6>1. B[k] <= B[i - 1]
            BY <1>2, <4>1, EndsInOrder, SMTT(30)
          <6>2. B[i - 1] < B[i] /\ B[i - 1] \in Nat
            BY Kept
          <6>3. QED
            BY <6>1, <6>2
        <5>2. QED
          BY <1>3, <2>1, <3>1, <5>1, SMTT(30)
      <4>2. QED
        BY <4>1
    <3>3. ~(e < k)
      <4>1. ASSUME e < k PROVE FALSE
        <5>1. B[e] <= B[k - 1] /\ B[k - 1] < B[k] /\ B[k - 1] \in Nat
          <6>0. e \in 0 .. n /\ k \in 1 .. n
            BY <1>2
          <6>1. B[e] <= B[k - 1]
            BY <4>1, <6>0, EndsInOrder
          <6>2. B[k - 1] < B[k] /\ B[k - 1] \in Nat
            BY <3>1, Kept
          <6>3. QED
            BY <6>1, <6>2
        <5>2. QED
          BY <1>3, <2>1, <3>1, <5>1, SMTT(30)
      <4>2. QED
        BY <4>1
    <3>4. k # i /\ k # e
      BY <1>3, <2>1, <3>1
    <3>5. k \in i + 1 .. e - 1
      BY <3>2, <3>3, <3>4
    <3>6. QED
      BY <1>1, <3>1, <3>5
  <2>3. CASE \E r \in R: \E k \in 1 .. Len(r.new):
              /\ p = B[r.first - 1] + k /\ out[p] = r.new[k]
              /\ NewAt(R, r.first) = r.new /\ r.first \in 1 .. n
              /\ \/ KeywordChange(s, r) \/ PropertyChange(s, r)
                 \/ Insertion(s, r) \/ Relocated(s, d, r)
              /\ r.new[k].kind \in {"text", "keyword", "property", "location"}
              /\ r.new[k].kind = "location" => Relocated(s, d, r) /\ r.new[k] = Moved(s[r.first], d)
    <3>1. PICK r \in R: \E k \in 1 .. Len(r.new):
              /\ p = B[r.first - 1] + k /\ out[p] = r.new[k]
              /\ NewAt(R, r.first) = r.new /\ r.first \in 1 .. n
              /\ \/ KeywordChange(s, r) \/ PropertyChange(s, r)
                 \/ Insertion(s, r) \/ Relocated(s, d, r)
              /\ r.new[k].kind = "location" => Relocated(s, d, r) /\ r.new[k] = Moved(s[r.first], d)
      BY <2>3
    <3>2. PICK k \in 1 .. Len(r.new):
              /\ p = B[r.first - 1] + k /\ out[p] = r.new[k]
              /\ NewAt(R, r.first) = r.new /\ r.first \in 1 .. n
              /\ r.new[k].kind = "location" => Relocated(s, d, r) /\ r.new[k] = Moved(s[r.first], d)
      BY <3>1
    <3>3. PICK a \in 1 .. n: a = r.first
      BY <3>2
    <3>4. k \in 1 .. Len(NewAt(R, a)) /\ p = B[a - 1] + k
      BY <3>2, <3>3
    <3>5. B[a - 1] \in Nat /\ B[a] \in Nat /\ B[a - 1] < p /\ p <= B[a]
      BY <3>4, NewBetween
    <3>6. ~(a < i)
      <4>1. ASSUME a < i PROVE FALSE
        <5>1. B[a] <= B[i - 1] /\ B[i - 1] < B[i] /\ B[i - 1] \in Nat
          <6>1. a \in 0 .. n /\ i \in 1 .. n
            BY <1>2
          <6>2. B[a] <= B[i - 1]
            BY <4>1, <6>1, EndsInOrder
          <6>3. B[i - 1] < B[i] /\ B[i - 1] \in Nat
            BY Kept
          <6>4. QED
            BY <6>2, <6>3
        <5>2. QED
          BY <1>3, <2>1, <3>5, <5>1, SMTT(30)
      <4>2. QED
        BY <4>1
    <3>7. ~(e < a)
      <4>1. ASSUME e < a PROVE FALSE
        <5>1. e \in 0 .. n
          BY <1>2
        <5>2. B[e] <= B[a - 1]
          BY <4>1, <5>1, EndsInOrder
        <5>3. QED
          BY <1>3, <2>1, <3>5, <5>2
      <4>2. QED
        BY <4>1
    <3>8. s[a].kind \in {"keyword", "keywordstart", "property", "propertystart", "imageend", "location"}
          /\ (s[a].kind = "location" => Relocated(s, d, r))
      BY <3>1, <3>3, CutStarts
    <3>9. a # e
      BY <1>1, <3>8
    <3>10. a # i
      <4>1. ASSUME a = i PROVE FALSE
        <5>1. i <= Len(s) /\ i \in 1 .. n
          BY <1>2
        <5>2. p < B[i]
          BY <3>4, <4>1, <5>1, NewBetween
        <5>3. QED
          BY <1>3, <2>1, <5>2
      <4>2. QED
        BY <4>1
    <3>11. a \in i + 1 .. e - 1
      BY <1>2, <3>6, <3>7, <3>9, <3>10
    <3>12. s[a].kind = "location" /\ s[a].id = "Property"
      BY <1>1, <3>8, <3>11
    <3>13. Relocated(s, d, r)
      BY <3>8, <3>12
    <3>14. out[p] = Moved(s[a], d)
      <4>1. r.new[k].kind = "location"
        <5>1. r.new = <<Moved(s[a], d)>>
          BY <3>3, <3>13 DEF Relocated
        <5>2. PICK y: y = Moved(s[a], d)
          OBVIOUS
        <5>3. Len(<<y>>) = 1 /\ <<y>>[1] = y
          OBVIOUS
        <5>4. k \in 1 .. 1
          BY <5>1, <5>2, <5>3
        <5>5. k = 1
          BY <5>4
        <5>6. y.kind = "location"
          BY <5>2, MovedItem
        <5>7. QED
          BY <5>1, <5>2, <5>3, <5>5, <5>6
      <4>2. QED
        BY <3>2, <3>3, <4>1
    <3>15. QED
      BY <3>12, <3>14, MovedItem
  <2>4. QED
    BY <2>1, <2>2, <2>3, WhereFrom
<1>6. QED
  BY <1>1, <1>2, <1>3, <1>4, <1>5, SMTT(30) DEF Body

(* An update leaves property elements closed, with text and their own      *)
(* location between the tags.                                              *)
LEMMA StaysInPlace ==
  ASSUME Printed, NEW s \in Seq(Items), PropertiesInPlace(s), NEW d, NEW R, Cuts(s, d, R), Fit(s, R),
         NEW n, NEW B, NEW out, Placed(s, R, n, B, out)
  PROVE  PropertiesInPlace(out)
<1>1. out \in Seq(Items)
  BY DEF Placed
<1>2. ASSUME NEW p \in DOMAIN out, out[p].kind \in {"propertystart", "propertyend"}
      PROVE  \E k \in 1 .. Len(s): ~Gone(R, k) /\ p = B[k] /\ out[p] = s[k]
  <2>1. p \in 1 .. Len(out)
    BY <1>1
  <2>2. ASSUME NEW r, NEW k, out[p] = r.new[k], r.new[k].kind \in {"text", "keyword", "property", "location"}
        PROVE  FALSE
    BY <1>2, <2>2
  <2>3. QED
    BY <2>1, <2>2, WhereFrom
<1>3. ASSUME NEW p \in DOMAIN out, out[p].kind = "propertystart"
      PROVE  \E q \in DOMAIN out: Body(out, p, q)
  <2>1. PICK i \in 1 .. Len(s): ~Gone(R, i) /\ p = B[i] /\ out[p] = s[i]
    BY <1>2, <1>3
  <2>2. PICK e \in 1 .. Len(s): Body(s, i, e)
    BY <1>3, <2>1 DEF PropertiesInPlace
  <2>3. ~Gone(R, e)
    BY <2>1, <2>2, BodyGone
  <2>4. B[e] \in DOMAIN out /\ Body(out, B[i], B[e])
    BY <2>1, <2>2, <2>3, BodyCarried
  <2>5. QED
    BY <2>1, <2>4
<1>4. ASSUME NEW p \in DOMAIN out, out[p].kind = "propertyend"
      PROVE  \E q \in DOMAIN out: Body(out, q, p)
  <2>1. PICK e \in 1 .. Len(s): ~Gone(R, e) /\ p = B[e] /\ out[p] = s[e]
    BY <1>2, <1>4
  <2>2. PICK i \in 1 .. Len(s): Body(s, i, e)
    BY <1>4, <2>1 DEF PropertiesInPlace
  <2>3. ~Gone(R, i)
    BY <2>1, <2>2, BodyGone
  <2>4. B[i] \in DOMAIN out /\ Body(out, B[i], B[e])
    BY <2>1, <2>2, <2>3, BodyCarried
  <2>5. QED
    BY <2>1, <2>4
<1>5. QED
  BY <1>3, <1>4 DEF PropertiesInPlace

-------------------------------------------------------------------------------
(* The layout *)

(* Items of the kinds no update writes or cuts are carried over in order.  *)
LEMMA KindsCarried ==
  ASSUME Printed, NEW s \in Seq(Items), PropertiesInPlace(s), NEW d, NEW R, Cuts(s, d, R), Fit(s, R),
         NEW n, NEW B, NEW out, Placed(s, R, n, B, out),
         NEW kinds, kinds \cap {"keyword", "keywordstart", "location", "property", "propertystart",
                                "propertyend", "text"} = {}
  PROVE  /\ Cardinality(OfKind(out, kinds)) = Cardinality(OfKind(s, kinds))
         /\ \A i \in OfKind(s, kinds): ~Gone(R, i) /\ B[i] \in OfKind(out, kinds)
         /\ \A p \in OfKind(out, kinds): \E i \in OfKind(s, kinds): B[i] = p
<1>1. PICK S, T: S = OfKind(s, kinds) /\ T = OfKind(out, kinds)
  OBVIOUS
<1>2. out \in Seq(Items) /\ n = Len(s) + 1
  BY DEF Placed
<1>3. PICK a \in Nat, b \in Nat: a = Len(s) /\ b = Len(out)
  BY <1>2
<1>4. /\ \A i: i \in S <=> i \in 1 .. a /\ s[i].kind \in kinds
      /\ \A p: p \in T <=> p \in 1 .. b /\ out[p].kind \in kinds
  BY <1>1, <1>2, <1>3 DEF OfKind
<1>5. ASSUME NEW i \in S PROVE ~Gone(R, i) /\ B[i] \in T /\ i \in 1 .. Len(s)
  <2>1. i \in 1 .. Len(s) /\ s[i].kind \in kinds
    BY <1>3, <1>4
  <2>2. ~Gone(R, i)
    <3>1. Gone(R, i) => s[i].kind \in {"keyword", "keywordstart", "location", "property", "propertystart",
                           "propertyend", "text"}
      BY OthersStay
    <3>2. QED
      BY <2>1, <3>1
  <2>3. B[i] \in 1 .. Len(out) /\ out[B[i]] = s[i]
    BY <2>1, <2>2, Kept
  <2>4. QED
    BY <1>3, <1>4, <2>1, <2>2, <2>3
<1>6. ASSUME NEW i \in S, NEW j \in S, i < j PROVE B[i] < B[j]
  <2>1. i \in 1 .. Len(s) /\ j \in 1 .. Len(s) /\ ~Gone(R, j)
    BY <1>5
  <2>2. B[i] <= B[j - 1] /\ B[i] \in Nat /\ B[j] \in Nat
    BY <1>2, <1>6, <2>1, EndsInOrder
  <2>3. B[j - 1] < B[j] /\ B[j - 1] \in Nat
    BY <2>1, Kept
  <2>4. QED
    BY <2>2, <2>3
<1>7. ASSUME NEW p \in T PROVE \E i \in S: B[i] = p
  <2>1. p \in 1 .. Len(out) /\ out[p].kind \in kinds
    BY <1>3, <1>4
  <2>2. ASSUME NEW r, NEW k, out[p] = r.new[k], r.new[k].kind \in {"text", "keyword", "property", "location"}
        PROVE  FALSE
    BY <2>1, <2>2
  <2>3. PICK i \in 1 .. Len(s): p = B[i] /\ out[p] = s[i]
    BY <2>1, <2>2, WhereFrom
  <2>4. QED
    BY <1>3, <1>4, <2>1, <2>3
<1>8. Cardinality(T) = Cardinality(S)
  <2>1. PICK c, f: c = Cardinality(S) /\ f = PositionsInOrder(S)
    OBVIOUS
  <2>2. S \in SUBSET Nat /\ Lists(f, c, S)
    <3>1. S \subseteq 1 .. a
      BY <1>4
    <3>2. QED
      BY <2>1, <3>1, PositionsListed
  <2>3. T \in SUBSET Nat
    BY <1>4
  <2>6. \A i \in S: B[i] \in T
    BY <1>5
  <2>7. \A i, j \in S: i < j => B[i] < B[j]
    BY <1>6
  <2>8. \A p \in T: \E i \in S: B[i] = p
    BY <1>7
  <2>4. Lists([k \in 1 .. c |-> B[f[k]]], c, T)
    <3>1. Carries(B, S, T)
      BY <2>6, <2>7, <2>8 DEF Carries
    <3>2. QED
      BY <2>2, <2>3, <3>1, Carried
  <2>5. QED
    BY <2>1, <2>3, <2>4, OneOrder
<1>9. QED
  BY <1>1, <1>5, <1>7, <1>8

(* An image that can be updated stays one. *)
LEMMA ImageStays ==
  ASSUME Printed, NEW s \in Seq(Items), PropertiesInPlace(s), NEW C, NEW delta, NEW d, NEW R,
         Does(s, C, delta, d, R), NEW n, NEW B, NEW out, Placed(s, R, n, B, out), ImageIsSupported(s)
  PROVE  ImageIsSupported(out)
<1>1. Cuts(s, d, R) /\ Fit(s, R)
  BY DEF Does
<1>2. out \in Seq(Items)
  BY DEF Placed
<1>3. PICK kinds: kinds = {"image", "emptyimage"}
  OBVIOUS
<1>4. \A t \in Seq(Items): Len(At(t, kinds)) = Cardinality(OfKind(t, kinds))
  <2>1. ASSUME NEW t \in Seq(Items) PROVE Len(At(t, kinds)) = Cardinality(OfKind(t, kinds))
    <3>1. PICK T: T = OfKind(t, kinds)
      OBVIOUS
    <3>5. PICK a \in Nat: a = Len(t)
      OBVIOUS
    <3>2. T \subseteq 1 .. a
      BY <3>1, <3>5 DEF OfKind
    <3>3. At(t, kinds) = PositionsInOrder(T)
      BY <3>1 DEF At, OfKind
    <3>4. QED
      BY <3>1, <3>2, <3>3, PositionsListed
  <2>2. QED
    BY <2>1
<1>5. Len(At(out, kinds)) = 1
  <2>1. kinds \cap {"keyword", "keywordstart", "location", "property", "propertystart",
                    "propertyend", "text"} = {}
    BY <1>3
  <2>2. Cardinality(OfKind(out, kinds)) = Cardinality(OfKind(s, kinds))
    BY <1>1, <2>1, KindsCarried
  <2>3. Len(At(s, kinds)) = 1
    BY <1>3 DEF ImageIsSupported
  <2>4. QED
    BY <1>2, <1>4, <2>2, <2>3
<1>6. \E p \in DOMAIN out: out[p].kind = "location" /\ out[p].id = "Image"
  <2>1. PICK i \in DOMAIN s: s[i].kind = "location" /\ s[i].id = "Image"
    BY DEF ImageIsSupported
  <2>2. i \in LocationsIn(s) /\ s[i].id # "Property"
    BY <2>1 DEF LocationsIn, OfKind
  <2>3. i \in Staying(s, d, R)
    BY <1>1, <2>2, OutsideStays
  <2>4. B[i] \in LocationsIn(out) /\ SameLocation(s[i], out[B[i]], d)
    BY <2>3, LocationsGo
  <2>5. QED
    BY <2>1, <2>4 DEF LocationsIn, OfKind, SameLocation
<1>7. ASSUME NEW p \in DOMAIN out, out[p].kind = "location" PROVE out[p].fmt # "malformed"
  <2>1. p \in LocationsIn(out)
    BY <1>7 DEF LocationsIn, OfKind
  <2>2. PICK i \in Staying(s, d, R): B[i] = p
    BY <1>1, <2>1, LocationsFrom
  <2>3. SameLocation(s[i], out[p], d)
    BY <2>2, LocationsGo
  <2>4. s[i].fmt # "malformed"
    BY DEF Staying, LocationsIn, OfKind, ImageIsSupported
  <2>5. QED
    BY <2>3, <2>4 DEF SameLocation
<1>8. QED
  BY <1>3, <1>5, <1>6, <1>7 DEF ImageIsSupported

(* What the layout demands, position by position. *)
Bounded(s, data) ==
  \A i \in LocationsIn(s): /\ XmlEnd(s) <= s[i].off
                           /\ s[i].off + s[i].size <= XmlEnd(s) + Len(data)
Behind(s, i, j) == s[i].off < s[j].off \/ (s[i].off = s[j].off /\ i < j)
Separate(s) ==
  \A i, j \in LocationsIn(s): Behind(s, i, j) => s[i].off + s[i].size <= s[j].off

(* The layout is safe when each block is in bounds and each two are apart. *)
LEMMA LayoutByPosition ==
  ASSUME NEW s \in Seq(Items), NEW data
  PROVE  LayoutIsSafe(s, data) <=> Bounded(s, data) /\ Separate(s)
<1>1. PICK L, n, a: L = Locations(s) /\ n = Cardinality(LocationsIn(s)) /\ a = Attachments(s)
  OBVIOUS
<1>2. PICK S: S = LocationsIn(s)
  OBVIOUS
<1>3. /\ n \in Nat /\ Lists(L, n, S) /\ DOMAIN a = 1 .. n
      /\ \A q \in 1 .. n: L[q] \in S
      /\ \A i \in S: \E q \in 1 .. n: L[q] = i
  BY <1>1, <1>2, AttachmentsFacts
<1>4. \A q \in 1 .. n: a[q].offset = s[L[q]].off /\ a[q].size = s[L[q]].size
  BY <1>1, AttachmentsFacts
<1>5. InBounds(s, data) <=> Bounded(s, data)
  <2>1. PICK e, z: e = XmlEnd(s) /\ z = Len(data)
    OBVIOUS
  <2>2. \A b: b \in Blocks(s) <=> \E q \in 1 .. n: b = <<a[q].offset, a[q].offset + a[q].size>>
    BY <1>1, <1>3 DEF Blocks, Range
  <2>3. \A b: b \in Blocks(s) <=> \E i \in S: b = <<s[i].off, s[i].off + s[i].size>>
    BY <1>3, <1>4, <2>2
  <2>4. InBounds(s, data) <=> \A b \in Blocks(s): e <= b[1] /\ b[2] <= e + z
    BY <2>1 DEF InBounds
  <2>5. Bounded(s, data) <=> \A i \in S: e <= s[i].off /\ s[i].off + s[i].size <= e + z
    BY <1>2, <2>1 DEF Bounded
  <2>6. \A i: LET b == <<s[i].off, s[i].off + s[i].size>>
               IN  b[1] = s[i].off /\ b[2] = s[i].off + s[i].size
    OBVIOUS
  <2>7. ASSUME InBounds(s, data), NEW i \in S
        PROVE  e <= s[i].off /\ s[i].off + s[i].size <= e + z
    <3>1. PICK b: b = <<s[i].off, s[i].off + s[i].size>>
      OBVIOUS
    <3>2. e <= b[1] /\ b[2] <= e + z
      BY <2>3, <2>4, <2>7, <3>1
    <3>3. QED
      BY <2>6, <3>1, <3>2
  <2>8. ASSUME Bounded(s, data), NEW b \in Blocks(s)
        PROVE  e <= b[1] /\ b[2] <= e + z
    <3>1. PICK i \in S: b = <<s[i].off, s[i].off + s[i].size>>
      BY <2>3
    <3>2. e <= s[i].off /\ s[i].off + s[i].size <= e + z
      BY <2>5, <2>8
    <3>3. QED
      BY <2>6, <3>1, <3>2
  <2>9. QED
    BY <2>4, <2>5, <2>7, <2>8
<1>6. Apart(s) <=> Separate(s)
  <2>1. \A x, y \in 1 .. n: L[x] \in Nat /\ L[y] \in Nat /\ (x < y <=> L[x] < L[y])
    <3>1. ASSUME NEW x \in 1 .. n, NEW y \in 1 .. n
          PROVE  L[x] \in Nat /\ L[y] \in Nat /\ (x < y <=> L[x] < L[y])
      <4>1. \A i \in S: i \in Nat
        BY <1>2 DEF LocationsIn, OfKind
      <4>2. L[x] \in Nat /\ L[y] \in Nat
        BY <1>3, <4>1
      <4>3. (x < y => L[x] < L[y]) /\ (y < x => L[y] < L[x])
        BY <1>3 DEF Lists
      <4>4. x = y => L[x] = L[y]
        OBVIOUS
      <4>5. QED
        BY <1>3, <4>2, <4>3, <4>4
    <3>2. QED
      BY <3>1
  <2> DEFINE before(x, y) == \/ a[x].offset < a[y].offset
                             \/ a[x].offset = a[y].offset /\ x < y
  <2>2. Apart(s) <=> \A x, y \in 1 .. n: before(x, y) => a[x].offset + a[x].size <= a[y].offset
    BY <1>1, <1>3 DEF Apart
  <2>3. \A x, y \in 1 .. n: before(x, y) <=> Behind(s, L[x], L[y])
    BY <1>4, <2>1 DEF Behind
  <2> HIDE DEF before
  <2>4. \A x, y \in 1 .. n: (before(x, y) => a[x].offset + a[x].size <= a[y].offset)
          <=> (Behind(s, L[x], L[y]) => s[L[x]].off + s[L[x]].size <= s[L[y]].off)
    BY <1>4, <2>3
  <2>5. ASSUME Apart(s), NEW i \in S, NEW j \in S, Behind(s, i, j) PROVE s[i].off + s[i].size <= s[j].off
    <3>1. PICK x \in 1 .. n: L[x] = i
      BY <1>3
    <3>2. PICK y \in 1 .. n: L[y] = j
      BY <1>3
    <3>3. QED
      BY <2>2, <2>4, <2>5, <3>1, <3>2
  <2>6. ASSUME Separate(s), NEW x \in 1 .. n, NEW y \in 1 .. n, before(x, y)
        PROVE  a[x].offset + a[x].size <= a[y].offset
    <3>1. PICK i \in S: i = L[x]
      BY <1>3
    <3>2. PICK j \in S: j = L[y]
      BY <1>3
    <3>3. Behind(s, i, j) => s[i].off + s[i].size <= s[j].off
      BY <1>2, <2>6 DEF Separate
    <3>4. QED
      BY <2>4, <2>6, <3>1, <3>2, <3>3
  <2>7. QED
    BY <1>2, <2>2, <2>5, <2>6 DEF Separate
<1>7. QED
  BY <1>5, <1>6 DEF LayoutIsSafe

(* A layout that is safe stays safe. *)
LEMMA LayoutStays ==
  ASSUME Printed, NEW s \in Seq(Items), NEW C, NEW delta, delta = DeltaOf(s, C), NEW d, NEW R,
         Does(s, C, delta, d, R), NEW data \in Seq(STRING), LayoutIsSafe(s, data),
         NEW out, out = Splice(s, R)
  PROVE  LayoutIsSafe(out, data)
<1>1. Cuts(s, d, R) /\ Fit(s, R)
  BY DEF Does
<1>2. PICK n: n = Len(s) + 1
  OBVIOUS
<1>3. PICK B: Placed(s, R, n, B, out)
  BY <1>1, <1>2, SplicePlaced
<1>4. out \in Seq(Items)
  BY <1>3 DEF Placed
<1>5. Bounded(s, data) /\ Separate(s)
  BY LayoutByPosition
<1>6. PICK e \in Int: XmlEnd(s) = e /\ XmlEnd(out) = e + d /\ d \in Int
  BY EndMoves
<1>7. PICK z \in Nat: z = Len(data)
  OBVIOUS
<1>8. \A i \in Staying(s, d, R): /\ out[B[i]].off = s[i].off + d /\ out[B[i]].size = s[i].size
                                 /\ s[i].off \in Nat /\ s[i].size \in Nat /\ i \in LocationsIn(s)
  <2>1. ASSUME NEW i \in Staying(s, d, R)
        PROVE  /\ out[B[i]].off = s[i].off + d /\ out[B[i]].size = s[i].size
               /\ s[i].off \in Nat /\ s[i].size \in Nat /\ i \in LocationsIn(s)
    <3>1. SameLocation(s[i], out[B[i]], d)
      BY <1>3, LocationsGo
    <3>2. s[i] \in Items /\ i \in LocationsIn(s)
      BY DEF Staying, LocationsIn, OfKind
    <3>3. s[i].off \in Nat /\ s[i].size \in Nat
      BY <3>2 DEF Items
    <3>4. QED
      BY <3>1, <3>2, <3>3 DEF SameLocation
  <2>2. QED
    BY <2>1
<1>9. ASSUME NEW p \in LocationsIn(out)
      PROVE  XmlEnd(out) <= out[p].off /\ out[p].off + out[p].size <= XmlEnd(out) + Len(data)
  <2>1. PICK i \in Staying(s, d, R): B[i] = p
    BY <1>1, <1>3, LocationsFrom
  <2>2. e <= s[i].off /\ s[i].off + s[i].size <= e + z
    BY <1>5, <1>6, <1>7, <1>8 DEF Bounded
  <2>3. /\ out[p].off = s[i].off + d /\ out[p].size = s[i].size
        /\ s[i].off \in Nat /\ s[i].size \in Nat
    BY <1>8, <2>1
  <2>4. QED
    BY <1>6, <1>7, <2>2, <2>3, SMTT(30)
<1>10. ASSUME NEW p \in LocationsIn(out), NEW q \in LocationsIn(out), Behind(out, p, q)
       PROVE  out[p].off + out[p].size <= out[q].off
  <2>1. PICK i \in Staying(s, d, R): B[i] = p
    BY <1>1, <1>3, LocationsFrom
  <2>2. PICK j \in Staying(s, d, R): B[j] = q
    BY <1>1, <1>3, LocationsFrom
  <2>3. /\ out[p].off = s[i].off + d /\ out[p].size = s[i].size /\ out[q].off = s[j].off + d
        /\ s[i].off \in Nat /\ s[i].size \in Nat /\ s[j].off \in Nat
        /\ i \in LocationsIn(s) /\ j \in LocationsIn(s)
    BY <1>8, <2>1, <2>2
  <2>4. p < q => i < j
    <3>1. i \in Nat /\ j \in Nat /\ p \in Nat /\ q \in Nat
      <4>1. \A t \in Seq(Items): \A x \in LocationsIn(t): x \in Nat
        BY DEF LocationsIn, OfKind
      <4>2. QED
        BY <1>4, <2>3, <4>1
    <3>2. j < i => q < p
      BY <1>1, <1>3, <2>1, <2>2, LocationsInOrder
    <3>3. j = i => q = p
      BY <2>1, <2>2
    <3>4. QED
      BY <3>1, <3>2, <3>3
  <2>5. PICK x \in Nat, y \in Nat, w \in Nat: x = s[i].off /\ y = s[j].off /\ w = s[i].size
    BY <2>3
  <2>8. out[p].off = x + d /\ out[p].size = w /\ out[q].off = y + d
    BY <2>3, <2>5
  <2>9. out[p].off < out[q].off \/ (out[p].off = out[q].off /\ p < q)
    BY <1>10 DEF Behind
  <2>10. x < y \/ (x = y /\ p < q)
    BY <1>6, <2>8, <2>9
  <2>11. Behind(s, i, j)
    BY <2>4, <2>5, <2>10 DEF Behind
  <2>6. x + w <= y
    BY <1>5, <2>3, <2>5, <2>11 DEF Separate
  <2>7. QED
    BY <1>6, <2>6, <2>8
<1>11. Bounded(out, data) /\ Separate(out)
  BY <1>9, <1>10 DEF Bounded, Separate
<1>12. QED
  BY <1>4, <1>11, LayoutByPosition

(* What replaces one item or element is at most one of its own kind. *)
LEMMA WritesOf ==
  ASSUME Printed, NEW s, NEW d, NEW r, NEW k \in 1 .. Len(r.new)
  PROVE  /\ PropertyChange(s, r) =>
              /\ k = 1 /\ Len(r.new) = 1
              /\ \E v \in Strings: r.new = <<RenderedProperty(IdAt(s, r.last), v)>>
                                   /\ r.new[k] = RenderedProperty(IdAt(s, r.last), v)
              /\ r.new[k].kind = "property"
         /\ KeywordChange(s, r) =>
              /\ k = 1 /\ Len(r.new) = 1
              /\ \E kw \in Keyword: r.new = <<RenderedKeyword(kw)>> /\ r.new[k] = RenderedKeyword(kw)
              /\ r.new[k].kind = "keyword"
         /\ Relocated(s, d, r) =>
              /\ k = 1 /\ Len(r.new) = 1 /\ r.new[k] = Moved(s[r.first], d)
              /\ r.new[k].kind = "location"
<1>1. r.new # << >>
  <2>1. ASSUME r.new = << >> PROVE FALSE
    <3>1. Len(<< >>) = 0
      OBVIOUS
    <3>2. k \in 1 .. 0
      BY <2>1, <3>1
    <3>3. QED
      BY <3>2
  <2>2. QED
    BY <2>1
<1>2. ASSUME NEW y, r.new = <<y>> PROVE k = 1 /\ Len(r.new) = 1 /\ r.new[k] = y
  <2>1. Len(<<y>>) = 1 /\ <<y>>[1] = y
    OBVIOUS
  <2>2. k \in 1 .. 1
    BY <1>2, <2>1
  <2>3. k = 1
    BY <2>2
  <2>4. QED
    BY <1>2, <2>1, <2>3
<1>3. ASSUME PropertyChange(s, r)
      PROVE  /\ k = 1 /\ Len(r.new) = 1
             /\ \E v \in Strings: r.new = <<RenderedProperty(IdAt(s, r.last), v)>>
                                   /\ r.new[k] = RenderedProperty(IdAt(s, r.last), v)
             /\ r.new[k].kind = "property"
  <2>1. PICK v \in Strings: r.new = <<RenderedProperty(IdAt(s, r.last), v)>>
    BY <1>1, <1>3 DEF PropertyChange
  <2>2. k = 1 /\ Len(r.new) = 1 /\ r.new[k] = RenderedProperty(IdAt(s, r.last), v)
    BY <1>2, <2>1
  <2>3. QED
    BY <2>1, <2>2, RenderedItems
<1>4. ASSUME KeywordChange(s, r)
      PROVE  /\ k = 1 /\ Len(r.new) = 1
             /\ \E kw \in Keyword: r.new = <<RenderedKeyword(kw)>> /\ r.new[k] = RenderedKeyword(kw)
             /\ r.new[k].kind = "keyword"
  <2>1. PICK kw \in Keyword: r.new = <<RenderedKeyword(kw)>>
    BY <1>1, <1>4 DEF KeywordChange
  <2>2. k = 1 /\ Len(r.new) = 1 /\ r.new[k] = RenderedKeyword(kw)
    BY <1>2, <2>1
  <2>3. QED
    BY <2>1, <2>2, RenderedItems
<1>5. ASSUME Relocated(s, d, r)
      PROVE  /\ k = 1 /\ Len(r.new) = 1 /\ r.new[k] = Moved(s[r.first], d)
             /\ r.new[k].kind = "location"
  <2>1. r.new = <<Moved(s[r.first], d)>>
    BY <1>5 DEF Relocated
  <2>2. k = 1 /\ Len(r.new) = 1 /\ r.new[k] = Moved(s[r.first], d)
    BY <1>2, <2>1
  <2>3. QED
    BY <2>2, MovedItem
<1>6. QED
  BY <1>3, <1>4, <1>5

(* An update leaves keywords single tags before the end of the image.      *)
LEMMA KeywordsStay ==
  ASSUME Printed, NEW s \in Seq(Items), PropertiesInPlace(s), KeywordsInPlace(s),
         NEW d, NEW R, Cuts(s, d, R), Fit(s, R),
         NEW n, NEW B, NEW out, Placed(s, R, n, B, out)
  PROVE  KeywordsInPlace(out)
<1>1. out \in Seq(Items) /\ n = Len(s) + 1
  BY DEF Placed
<1>2. ASSUME NEW p \in DOMAIN out, out[p].kind \in {"keywordstart", "keywordend"}
      PROVE  FALSE
  <2>1. p \in 1 .. Len(out)
    BY <1>1
  <2>2. ASSUME NEW r, NEW k, out[p] = r.new[k], r.new[k].kind \in {"text", "keyword", "property", "location"}
        PROVE  FALSE
    BY <1>2, <2>2
  <2>3. PICK i \in 1 .. Len(s): out[p] = s[i]
    BY <2>1, <2>2, WhereFrom
  <2>4. QED
    BY <1>2, <2>3 DEF KeywordsInPlace
<1>3. ASSUME NEW p \in DOMAIN out, NEW q \in DOMAIN out, out[p].kind = "keyword", out[q].kind = "imageend"
      PROVE  p < q
  <2>1. p \in 1 .. Len(out)
    BY <1>1
  <2>2. PICK ends: ends = {"imageend"}
    OBVIOUS
  <2>3. q \in OfKind(out, ends)
    BY <1>3, <2>2 DEF OfKind
  <2>4. ends \cap {"keyword", "keywordstart", "location", "property", "propertystart",
                   "propertyend", "text"} = {}
    BY <2>2
  <2>5. PICK e \in OfKind(s, ends): B[e] = q
    BY <2>3, <2>4, KindsCarried
  <2>6. ~Gone(R, e) /\ e \in 1 .. Len(s) /\ s[e].kind = "imageend"
    <3>1. ~Gone(R, e)
      BY <2>4, <2>5, KindsCarried
    <3>2. QED
      BY <2>2, <2>5, <3>1 DEF OfKind
  <2>7. B[e - 1] < B[e] /\ B[e - 1] \in Nat /\ B[e] \in Nat
    BY <1>1, <2>6, Kept
  <2>8. ASSUME NEW i \in 1 .. Len(s), i < e PROVE B[i] < B[e] /\ B[i] \in Nat
    <3>1. i \in 0 .. n /\ e \in 1 .. n
      BY <1>1, <2>6
    <3>2. B[i] <= B[e - 1] /\ B[i] \in Nat
      BY <2>8, <3>1, EndsInOrder
    <3>3. QED
      BY <2>7, <3>2
  <2>9. \A i \in 1 .. Len(s): s[i].kind = "keyword" => i < e
    BY <2>6 DEF KeywordsInPlace
  <2>10. CASE \E i \in 1 .. Len(s): ~Gone(R, i) /\ p = B[i] /\ out[p] = s[i]
    BY <1>3, <2>5, <2>8, <2>9, <2>10
  <2>11. CASE \E r \in R: \E k \in 1 .. Len(r.new):
              /\ p = B[r.first - 1] + k /\ out[p] = r.new[k]
              /\ NewAt(R, r.first) = r.new /\ r.first \in 1 .. n
              /\ \/ KeywordChange(s, r) \/ PropertyChange(s, r)
                 \/ Insertion(s, r) \/ Relocated(s, d, r)
    <3>1. PICK r \in R: \E k \in 1 .. Len(r.new):
              /\ p = B[r.first - 1] + k /\ out[p] = r.new[k]
              /\ NewAt(R, r.first) = r.new /\ r.first \in 1 .. n
              /\ \/ KeywordChange(s, r) \/ PropertyChange(s, r)
                 \/ Insertion(s, r) \/ Relocated(s, d, r)
      BY <2>11
    <3>2. PICK k \in 1 .. Len(r.new):
              /\ p = B[r.first - 1] + k /\ out[p] = r.new[k]
              /\ NewAt(R, r.first) = r.new /\ r.first \in 1 .. n
      BY <3>1
    <3>3. ~PropertyChange(s, r) /\ ~Relocated(s, d, r)
      <4>1. r.new[k].kind = "keyword"
        BY <1>3, <3>2
      <4>2. QED
        BY <4>1, WritesOf, ZenonT(30)
    <3>4. PICK a \in 1 .. n: a = r.first
      BY <3>2
    <3>5. k \in 1 .. Len(NewAt(R, a)) /\ p = B[a - 1] + k
      BY <3>2, <3>4
    <3>6. B[a - 1] \in Nat /\ B[a] \in Nat /\ B[a - 1] < p /\ p <= B[a]
          /\ (a <= Len(s) /\ ~Gone(R, a) => p < B[a])
      BY <3>5, NewBetween
    <3>7. CASE KeywordChange(s, r)
      <4>1. a \in 1 .. Len(s) /\ s[a].kind = "keyword"
        <5>1. a \in 1 .. Len(s) /\ s[a].kind \in {"keyword", "keywordstart"}
          BY <3>4, <3>7, CutStarts
        <5>2. QED
          BY <5>1 DEF KeywordsInPlace
      <4>2. B[a] < B[e]
        BY <2>8, <2>9, <4>1
      <4>3. QED
        BY <2>5, <2>7, <3>6, <4>2, <2>1
    <3>8. CASE Insertion(s, r)
      <4>1. a \in OfKind(s, ends) /\ a <= e
        BY <2>2, <2>5, <3>4, <3>8 DEF Insertion
      <4>2. a \in 1 .. Len(s) /\ ~Gone(R, a)
        <5>1. ~Gone(R, a)
          BY <2>4, <4>1, KindsCarried
        <5>2. QED
          BY <4>1, <5>1 DEF OfKind
      <4>3. p < B[a]
        <5>1. a <= Len(s)
          BY <4>2
        <5>2. QED
          BY <3>6, <4>2, <5>1
      <4>4. B[a] <= B[e]
        <5>1. a = e \/ a < e
          BY <2>6, <4>1, <4>2
        <5>2. a < e => B[a] < B[e]
          BY <2>8, <4>2
        <5>3. QED
          BY <2>7, <3>6, <5>1, <5>2
      <4>5. QED
        BY <2>1, <2>5, <2>7, <3>6, <4>3, <4>4
    <3>9. QED
      BY <3>1, <3>3, <3>7, <3>8
  <2>12. QED
    BY <2>1, <2>10, <2>11, WhereFrom
<1>4. QED
  BY <1>2, <1>3 DEF KeywordsInPlace

-------------------------------------------------------------------------------
(* The invariant *)

DocumentsInPlace ==
  \A d \in Documents: Readable(d.items) /\ ImageIsSupported(d.items)
                        => PropertiesInPlace(d.items) /\ KeywordsInPlace(d.items)
ItemsInPlace == Readable(items) /\ ImageIsSupported(items)
                  => PropertiesInPlace(items) /\ KeywordsInPlace(items)
UpdateInvariant == TypeInvariant /\ ItemsInPlace /\ StaysUpdatable

(* The invariant holds of the documents the splice is made for.            *)
LEMMA InvariantInit ==
  ASSUME DocumentsInPlace, Init
  PROVE  UpdateInvariant
<1>1. PICK d \in Documents: items = d.items
  BY DEF Init
<1>2. TypeInvariant
  BY TypeInit
<1>3. ItemsInPlace
  BY <1>1 DEF DocumentsInPlace, ItemsInPlace
<1>4. StaysUpdatable
  BY DEF Init, StaysUpdatable
<1>5. QED
  BY <1>2, <1>3, <1>4 DEF UpdateInvariant

(* Every update, refused or not, keeps the invariant.                      *)
LEMMA InvariantStep ==
  ASSUME Printed, UpdateInvariant, [Next]_vars
  PROVE  UpdateInvariant'
<1>1. TypeInvariant /\ ItemsInPlace /\ StaysUpdatable
  BY DEF UpdateInvariant
<1>2. TypeInvariant'
  BY <1>1, TypeStep
<1>3. CASE Update /\ updates' # updates
  <2>1. PICK after, C, delta, d, R:
          /\ after \in Headers /\ Supported(after)
          /\ delta = DeltaOf(items, C) /\ Does(items, C, delta, d, R)
          /\ items' = Splice(items, R) /\ tail' = tail /\ items' \in Seq(Items)
    BY <1>1, <1>3, WritesASplice
  <2>2. Readable(items) /\ ImageIsSupported(items)
    BY <1>1, <1>3, Writes
  <2>3. items \in Seq(Items) /\ tail \in Seq(STRING)
    BY <1>1 DEF TypeInvariant
  <2>4. PropertiesInPlace(items) /\ KeywordsInPlace(items)
    BY <1>1, <2>2 DEF ItemsInPlace
  <2>5. Fit(items, R) /\ Cuts(items, d, R)
    BY <2>1 DEF Does
  <2>6. PICK s, out, n: s = items /\ out = items' /\ n = Len(s) + 1
    OBVIOUS
  <2>7. PICK B: Placed(s, R, n, B, out)
    BY <2>1, <2>3, <2>5, <2>6, SplicePlaced
  <2>8. PropertiesInPlace(out)
    BY <2>3, <2>4, <2>5, <2>6, <2>7, StaysInPlace
  <2>9. KeywordsInPlace(out)
    BY <2>3, <2>4, <2>5, <2>6, <2>7, KeywordsStay
  <2>10. ImageIsSupported(out)
    BY <2>1, <2>2, <2>3, <2>4, <2>6, <2>7, ImageStays
  <2>11. LayoutIsSafe(out, tail)
    <3>1. LayoutIsSafe(items, tail)
      BY <2>1 DEF Supported
    <3>2. QED
      BY <2>1, <2>3, <2>6, <3>1, LayoutStays
  <2>12. ItemsInPlace'
    BY <2>6, <2>8, <2>9 DEF ItemsInPlace
  <2>13. StaysUpdatable'
    BY <2>1, <2>6, <2>10, <2>11 DEF StaysUpdatable
  <2>14. QED
    BY <1>2, <2>12, <2>13 DEF UpdateInvariant
<1>4. CASE UNCHANGED <<items, tail, updates>>
  <2>1. ItemsInPlace' /\ StaysUpdatable'
    <3>1. Readable(items') = Readable(items) /\ ImageIsSupported(items') = ImageIsSupported(items)
          /\ PropertiesInPlace(items') = PropertiesInPlace(items)
          /\ KeywordsInPlace(items') = KeywordsInPlace(items)
          /\ LayoutIsSafe(items', tail') = LayoutIsSafe(items, tail)
      BY <1>4
    <3>2. QED
      BY <1>1, <1>4, <3>1 DEF ItemsInPlace, StaysUpdatable
  <2>2. QED
    BY <1>2, <2>1 DEF UpdateInvariant
<1>5. Update /\ updates' = updates => UNCHANGED <<items, tail, updates>>
  <2>1. ASSUME NEW after, Write(after), updates' = updates PROVE FALSE
    BY <1>1, <2>1 DEF Write, TypeInvariant
  <2>2. QED
    BY <2>1 DEF Update, Refuse
<1>6. QED
  BY <1>3, <1>4, <1>5 DEF Next, vars

(* A file the crate has updated can be updated again: one image at a known *)
(* place, its blocks within the file, behind the header and apart.         *)
THEOREM StaysUpdatableTheorem ==
  Printed /\ DocumentsInPlace => (Spec => []StaysUpdatable)
<1> SUFFICES ASSUME Printed, DocumentsInPlace PROVE Spec => []StaysUpdatable
  OBVIOUS
<1>1. Init => UpdateInvariant
  BY InvariantInit
<1>2. UpdateInvariant /\ [Next]_vars => UpdateInvariant'
  BY InvariantStep
<1>3. UpdateInvariant => StaysUpdatable
  BY DEF UpdateInvariant
<1>4. QED
  BY <1>1, <1>2, <1>3, PTL DEF Spec

(* No update loses the data: what was outside a property still leads to    *)
(* the bytes it led to, and nothing leads elsewhere.                       *)
THEOREM BlocksKeptTheorem ==
  Printed /\ DocumentsInPlace => (Spec => BlocksKept)
<1> SUFFICES ASSUME Printed, DocumentsInPlace PROVE Spec => BlocksKept
  OBVIOUS
<1> DEFINE Keeps ==
       updates' # updates =>
       /\ \A i \in Range(Locations(items)):
            items[i].id # "Property" => \E j \in Range(Locations(items')): SameBlock(i, j)
       /\ \A j \in Range(Locations(items')): \E i \in Range(Locations(items)): SameBlock(i, j)
<1>1. Init => UpdateInvariant
  BY InvariantInit
<1>2. UpdateInvariant /\ [Next]_vars => UpdateInvariant'
  BY InvariantStep
<1>3. UpdateInvariant /\ [Next]_vars => [Keeps]_vars
  <2>1. ASSUME UpdateInvariant, [Next]_vars PROVE Keeps
    <3>1. TypeInvariant
      BY <2>1 DEF UpdateInvariant
    <3>2. Readable(items) /\ ImageIsSupported(items) => PropertiesInPlace(items)
      BY <2>1 DEF UpdateInvariant, ItemsInPlace
    <3>3. QED
      BY <2>1, <3>1, <3>2, BlocksStep
  <2> HIDE DEF Keeps
  <2>2. QED
    BY <2>1
<1>4. QED
  BY <1>1, <1>2, <1>3, PTL DEF Spec, BlocksKept

-------------------------------------------------------------------------------
(* Every tag is closed again *)

Flat == {"text", "keyword", "property", "location"}

(* Some items neither open nor close an element. *)
LEMMA FlatTags ==
  /\ \A stack: \A kind \in Flat: AfterTag(stack, kind) = stack
  /\ \A stack: AfterTag(stack, "propertystart") = Append(stack, "property")
  /\ \A stack: AfterTag(stack, "propertyend")
                 = IF stack # << >> /\ Last(stack) = "property" THEN Front(stack) ELSE <<"mismatch">>
<1>1. DOMAIN Opens = {"image", "keywordstart", "propertystart"}
      /\ DOMAIN Closes = {"imageend", "keywordend", "propertyend"}
      /\ Opens["propertystart"] = "property" /\ Closes["propertyend"] = "property"
  BY DEF Opens, Closes
<1>2. ASSUME NEW kind \in Flat PROVE kind \notin DOMAIN Opens /\ kind \notin DOMAIN Closes
  BY <1>1 DEF Flat
<1>3. "propertystart" \in DOMAIN Opens /\ "propertyend" \notin DOMAIN Opens /\ "propertyend" \in DOMAIN Closes
  BY <1>1
<1>4. QED
  BY <1>1, <1>2, <1>3 DEF AfterTag

(* A row of them leaves what is open as it is. *)
FlatFrom(s, b, w) == \A k \in 1 .. w: s[b + k].kind \in Flat

(* What is open behind the row is what was open before it.                 *)
LEMMA FlatRow ==
  ASSUME NEW s, NEW n \in Nat, NEW L, OpenAlong(s, n, L), NEW b \in Nat, NEW w \in Nat,
         FlatFrom(s, b, w), NEW c \in 0 .. n, c = b + w
  PROVE  L[c] = L[b]
<1>1. PICK T: T = {k \in 0 .. w: L[b + k] # L[b]}
  OBVIOUS
<1>2. ASSUME T # {} PROVE FALSE
  <2>1. T \in SUBSET Nat
    BY <1>1
  <2>2. PICK k \in T: \A t \in T: k <= t
    BY <1>2, <2>1, FirstExists
  <2>3. k \in 0 .. w /\ L[b + k] # L[b]
    BY <1>1, <2>2
  <2>4. k # 0
    BY <2>3
  <2>5. PICK h \in 0 .. w: h = k - 1 /\ k \in 1 .. w /\ ~(k <= h)
    BY <2>3, <2>4
  <2>6. h \notin T
    BY <2>2, <2>5
  <2>7. L[b + h] = L[b]
    BY <1>1, <2>6
  <2>8. PICK i \in 1 .. n: i = b + k /\ i - 1 = b + h
    BY <2>5
  <2>9. L[i] = AfterTag(L[i - 1], s[i].kind)
    BY DEF OpenAlong
  <2>10. s[i].kind \in Flat
    BY <2>5, <2>8 DEF FlatFrom
  <2>11. L[i] = L[i - 1]
    BY <2>9, <2>10, FlatTags
  <2>12. QED
    BY <2>3, <2>7, <2>8, <2>11
<1>3. w \in 0 .. w
  OBVIOUS
<1>4. QED
  BY <1>1, <1>2, <1>3

(* So does what is new anywhere. *)
LEMMA NewFlat ==
  ASSUME Printed, NEW s \in Seq(Items), NEW d, NEW R, Cuts(s, d, R), Fit(s, R),
         NEW n, NEW B, NEW out, Placed(s, R, n, B, out), NEW i \in 1 .. n
  PROVE  FlatFrom(out, B[i - 1], Len(NewAt(R, i)))
<1>1. ASSUME NEW k \in 1 .. Len(NewAt(R, i)) PROVE out[B[i - 1] + k].kind \in Flat
  <2>1. out[B[i - 1] + k] = NewAt(R, i)[k]
    BY DEF Placed
  <2>2. \E r \in R: r.first = i
    <3>1. ASSUME \A r \in R: r.first # i PROVE FALSE
      <4>1. NewAt(R, i) = << >>
        BY <3>1, NewHere
      <4>2. Len(<< >>) = 0
        OBVIOUS
      <4>3. k \in 1 .. 0
        BY <4>1, <4>2
      <4>4. QED
        BY <4>3
    <3>2. QED
      BY <3>1
  <2>3. PICK r \in R: r.first = i
    BY <2>2
  <2>4. NewAt(R, i) = r.new
    BY <2>3, NewHere
  <2>5. KeywordChange(s, r) \/ PropertyChange(s, r) \/ Insertion(s, r) \/ Relocated(s, d, r)
    BY DEF Cuts
  <2>6. r.new[k].kind \in {"text", "keyword", "property", "location"}
    BY <2>4, <2>5, CutWrites
  <2>7. QED
    BY <2>1, <2>4, <2>6 DEF Flat
<1>2. QED
  BY <1>1 DEF FlatFrom

(* What an update cuts out is an element, or neither opens nor closes one. *)
LEMMA CutsAreWhole ==
  ASSUME NEW s \in Seq(Items), PropertiesInPlace(s), KeywordsInPlace(s),
         NEW d, NEW R, Cuts(s, d, R), NEW r \in R, r.first <= r.last,
         NEW n, n = Len(s), NEW L, OpenAlong(s, n, L)
  PROVE  r.first \in 1 .. n /\ r.last \in 1 .. n /\ L[r.last] = L[r.first - 1]
<1>1. PICK f, l: f = r.first /\ l = r.last
  OBVIOUS
<1>2. \A i \in 1 .. n: L[i] = AfterTag(L[i - 1], s[i].kind)
  BY DEF OpenAlong
<1>3. CASE KeywordChange(s, r)
  <2>1. f \in 1 .. n /\ l = f /\ s[f].kind \in {"keyword", "keywordstart"}
    BY <1>1, <1>3, CutStarts
  <2>2. s[f].kind \in Flat
    BY <2>1 DEF KeywordsInPlace, Flat
  <2>3. L[f] = L[f - 1]
    BY <1>2, <2>1, <2>2, FlatTags
  <2>4. QED
    BY <1>1, <2>1, <2>3
<1>4. CASE Relocated(s, d, r)
  <2>1. f \in 1 .. n /\ l = f /\ s[f].kind = "location"
    BY <1>1, <1>4, CutStarts
  <2>2. s[f].kind \in Flat
    BY <2>1 DEF Flat
  <2>3. L[f] = L[f - 1]
    BY <1>2, <2>1, <2>2, FlatTags
  <2>4. QED
    BY <1>1, <2>1, <2>3
<1>5. CASE PropertyChange(s, r)
  <2>1. l \in PropertyEnds(s) /\ f = StartOf(s, l)
    BY <1>1, <1>5 DEF PropertyChange
  <2>2. /\ l \in 1 .. n /\ f \in 1 .. n /\ f <= l
        /\ \/ s[l].kind = "property" /\ f = l
           \/ /\ s[l].kind = "propertyend" /\ f \in OpenProperty(s, l)
              /\ s[f].kind = "propertystart" /\ f < l
    BY <2>1, SpanFacts
  <2>3. CASE s[l].kind = "property" /\ f = l
    <3>1. s[f].kind \in Flat
      BY <2>3 DEF Flat
    <3>2. L[f] = L[f - 1]
      BY <1>2, <2>2, <3>1, FlatTags
    <3>3. QED
      BY <1>1, <2>2, <2>3, <3>2
  <2>4. CASE s[l].kind = "propertyend" /\ s[f].kind = "propertystart" /\ f < l
    <3>1. PICK x \in Seq(Labels): x = L[f - 1]
      <4>1. f - 1 \in 0 .. n
        BY <2>2
      <4>2. QED
        BY <4>1 DEF OpenAlong
    <3>2. L[f] = Append(x, "property")
      BY <1>2, <2>2, <2>4, <3>1, FlatTags
    <3>3. PICK w \in Nat: w = l - 1 - f
      BY <2>2, <2>4
    <3>4. FlatFrom(s, f, w)
      <4>1. ASSUME NEW k \in 1 .. w PROVE s[f + k].kind \in Flat
        <5>1. f + k \in StartOf(s, l) .. l /\ f + k # StartOf(s, l) /\ f + k # l
          BY <2>1, <2>2, <3>3
        <5>2. s[f + k].kind \in {"text", "location"}
          BY <2>1, <5>1, InElement
        <5>3. QED
          BY <5>2 DEF Flat
      <4>2. QED
        BY <4>1 DEF FlatFrom
    <3>5. L[l - 1] = L[f]
      <4>1. PICK c \in 0 .. n: c = l - 1
        BY <2>2
      <4>2. n \in Nat /\ f \in Nat /\ w \in Nat /\ c = f + w
        BY <2>2, <3>3, <4>1
      <4>3. L[c] = L[f]
        BY <3>4, <4>2, FlatRow
      <4>4. QED
        BY <4>1, <4>3
    <3>6. L[l] = AfterTag(L[f], "propertyend")
      BY <1>2, <2>2, <2>4, <3>5
    <3>7. L[f] # << >> /\ Last(L[f]) = "property" /\ Front(L[f]) = x
      <4>1. "property" \in Labels
        BY DEF Labels
      <4>2. PICK c \in Labels: c = "property"
        BY <4>1
      <4>3. PICK y: y = Append(x, c)
        OBVIOUS
      <4>4. y \in Seq(Labels) /\ Len(y) = Len(x) + 1 /\ y[Len(x) + 1] = c
            /\ \A k \in 1 .. Len(x): y[k] = x[k]
        BY <4>3
      <4>5. y # << >>
        BY <4>4
      <4>6. Last(y) = c
        BY <4>4 DEF Last
      <4>7. Front(y) = x
        <5>1. PICK m \in Nat: m = Len(x)
          OBVIOUS
        <5>2. Front(y) = SubSeq(y, 1, m)
          <6>1. Len(y) - 1 = m
            BY <4>4, <5>1
          <6>2. QED
            BY <6>1 DEF Front
        <5>3. PICK z: z = SubSeq(y, 1, m)
          OBVIOUS
        <5>4. z \in Seq(Labels) /\ Len(z) = m /\ \A k \in 1 .. m: z[k] = y[k]
          BY <4>4, <5>1, <5>3
        <5>5. z = x
          BY <4>4, <5>1, <5>4
        <5>6. QED
          BY <5>2, <5>3, <5>5
      <4>8. QED
        BY <3>2, <4>2, <4>3, <4>5, <4>6, <4>7
    <3>8. L[l] = x
      BY <3>6, <3>7, FlatTags
    <3>9. QED
      BY <1>1, <2>2, <3>1, <3>8
  <2>5. QED
    BY <2>2, <2>3, <2>4
<1>6. ~Insertion(s, r)
  <2>1. Insertion(s, r) => r.first \in 1 .. Len(s) /\ r.last = r.first - 1
    BY CutStarts
  <2>2. QED
    BY <2>1
<1>7. QED
  BY <1>3, <1>4, <1>5, <1>6 DEF Cuts

(* A well-formed header stays one. *)
LEMMA StaysWellFormed ==
  ASSUME Printed, NEW s \in Seq(Items), PropertiesInPlace(s), KeywordsInPlace(s), WellFormed(s),
         NEW d, NEW R, Cuts(s, d, R), Fit(s, R), NEW n, NEW B, NEW out, Placed(s, R, n, B, out)
  PROVE  WellFormed(out)
<1>1. /\ out \in Seq(Items) /\ n = Len(s) + 1 /\ B \in [0 .. n -> Nat] /\ B[0] = 0 /\ Len(out) = B[n]
      /\ \A i, j \in 0 .. n: i <= j => B[i] <= B[j]
  BY DEF Placed
<1>2. PICK a \in Nat, b \in Nat: a = Len(s) /\ b = Len(out)
  BY <1>1
<1>3. PICK L: OpenAlong(s, a, L) /\ (WellFormed(s) <=> Passes(L[a]))
  BY <1>2, WellFormedAlong
<1>4. PICK M: OpenAlong(out, b, M) /\ (WellFormed(out) <=> Passes(M[b]))
  BY <1>2, WellFormedAlong
<1>5. PICK T: T = {i \in 0 .. a: M[B[i]] = L[i]}
  OBVIOUS
<1>6. 0 \in T
  BY <1>1, <1>2, <1>3, <1>4, <1>5 DEF OpenAlong
<1>7. ASSUME NEW i \in 1 .. n
      PROVE  /\ M[B[i - 1] + Len(NewAt(R, i))] = M[B[i - 1]] /\ B[i - 1] \in Nat
             /\ Len(NewAt(R, i)) \in Nat
  <2>1. B[i - 1] \in Nat /\ B[i] \in Nat /\ B[i] <= b
    <3>1. i - 1 \in 0 .. n /\ i \in 0 .. n /\ n \in 0 .. n /\ i <= n
      BY <1>1
    <3>2. QED
      BY <1>1, <1>2, <3>1
  <2>2. Len(NewAt(R, i)) \in Nat
    BY NewType
  <2>3. B[i - 1] + Len(NewAt(R, i)) <= B[i]
    BY DEF Placed
  <2>4. FlatFrom(out, B[i - 1], Len(NewAt(R, i)))
    BY NewFlat
  <2>5. PICK c \in 0 .. b: c = B[i - 1] + Len(NewAt(R, i))
    BY <2>1, <2>2, <2>3
  <2>6. M[c] = M[B[i - 1]]
    BY <1>4, <2>1, <2>2, <2>4, <2>5, FlatRow
  <2>7. QED
    BY <2>1, <2>2, <2>5, <2>6
<1>8. ASSUME NEW r \in R, r.first <= r.last, r.first - 1 \in T PROVE r.last \in T
  <2>1. r.first \in 1 .. a /\ r.last \in 1 .. a /\ L[r.last] = L[r.first - 1]
    BY <1>2, <1>3, <1>8, CutsAreWhole
  <2>2. PICK f \in 1 .. a: f = r.first
    BY <2>1
  <2>3. PICK l \in 1 .. a: l = r.last
    BY <2>1
  <2>4. NewAt(R, f) = r.new
    BY <2>2, NewHere
  <2>5. B[l] = B[f - 1] + Len(r.new)
    <3>1. l \in r.first .. r.last
      BY <1>8, <2>2, <2>3
    <3>2. B[l] = B[r.first - 1] + Len(r.new)
      BY <1>8, <3>1, StretchEnds
    <3>3. QED
      BY <2>2, <3>2
  <2>6. f \in 1 .. n
    BY <1>1, <1>2
  <2>7. M[B[l]] = M[B[f - 1]]
    BY <1>7, <2>4, <2>5, <2>6
  <2>8. M[B[f - 1]] = L[f - 1]
    BY <1>5, <1>8, <2>2
  <2>9. l \in 0 .. a
    OBVIOUS
  <2>10. QED
    BY <1>5, <2>1, <2>2, <2>3, <2>7, <2>8, <2>9
<1>9. ASSUME NEW i \in 1 .. Len(s), i - 1 \in T, ~Gone(R, i) PROVE i \in T
  <2>1. i \in 1 .. n /\ i \in 0 .. a /\ i \in 1 .. a
    BY <1>1, <1>2
  <2>2. /\ B[i] \in 1 .. b /\ out[B[i]] = s[i]
        /\ B[i - 1] + Len(NewAt(R, i)) + 1 = B[i]
    BY <1>2, <1>9, Kept
  <2>3. /\ M[B[i - 1] + Len(NewAt(R, i))] = M[B[i - 1]] /\ B[i - 1] \in Nat
        /\ Len(NewAt(R, i)) \in Nat
    BY <1>7, <2>1
  <2>4. PICK c \in 1 .. b: c = B[i] /\ c - 1 = B[i - 1] + Len(NewAt(R, i))
    BY <2>2, <2>3
  <2>5. M[c] = AfterTag(M[c - 1], out[c].kind)
    BY <1>4 DEF OpenAlong
  <2>6. L[i] = AfterTag(L[i - 1], s[i].kind)
    BY <1>3, <2>1 DEF OpenAlong
  <2>7. M[B[i - 1]] = L[i - 1]
    BY <1>5, <1>9
  <2>8. M[B[i]] = L[i]
    BY <2>2, <2>3, <2>4, <2>5, <2>6, <2>7
  <2>9. QED
    BY <1>5, <2>1, <2>8
<1>10. Len(s) \in T
  BY <1>6, <1>8, <1>9, Walk
<1>11. B[n] = B[a] /\ M[B[a]] = L[a]
  <2>1. n \in 1 .. n /\ n - 1 = a /\ n \notin DOMAIN s /\ a \in 0 .. n
    BY <1>1, <1>2
  <2>2. NewAt(R, n) = << >>
    <3>1. ASSUME NEW r \in R, r.first = n PROVE FALSE
      <4>1. KeywordChange(s, r) \/ PropertyChange(s, r) \/ Insertion(s, r) \/ Relocated(s, d, r)
        BY DEF Cuts
      <4>2. r.first \in 1 .. Len(s)
        BY <4>1, CutStarts
      <4>3. QED
        BY <1>1, <3>1, <4>2
    <3>2. QED
      BY <3>1, NewHere
  <2>3. B[n] = B[n - 1] + Len(NewAt(R, n))
    BY <2>1 DEF Placed
  <2>4. Len(<< >>) = 0
    OBVIOUS
  <2>5. B[a] \in Nat
    BY <1>1, <2>1
  <2>6. B[n] = B[a]
    BY <2>1, <2>2, <2>3, <2>4, <2>5
  <2>7. M[B[a]] = L[a]
    BY <1>2, <1>5, <1>10
  <2>8. QED
    BY <2>6, <2>7
<1>12. M[b] = L[a]
  BY <1>1, <1>2, <1>11
<1>13. QED
  BY <1>3, <1>4, <1>12

-------------------------------------------------------------------------------
(* The keywords of the result *)

(* Matching goes forward. *)
LEMMA MatchingRises ==
  ASSUME NEW before, NEW n \in Nat, NEW after, NEW k \in Nat, NEW m, Matching(before, n, after, k, m)
  PROVE  \A p, q \in 0 .. n: p <= q => m[p] <= m[q]
<1>1. /\ m \in [0 .. n -> 0 .. k] /\ m[0] = 0
      /\ \A i \in 1 .. n: m[i] = m[i - 1] \/ m[i] = m[i - 1] + 1
  BY DEF Matching
<1>2. \A i \in 0 .. n: m[i] \in Nat
  BY <1>1
<1>3. \A p, q \in 0 .. n: p <= q => m[p] <= m[q]
  <2>1. ASSUME NEW p \in 0 .. n PROVE \A q \in 0 .. n: p <= q => m[p] <= m[q]
    <3>1. PICK T: T = {q \in 0 .. n: p <= q /\ ~(m[p] <= m[q])}
      OBVIOUS
    <3>2. ASSUME T # {} PROVE FALSE
      <4>1. T \in SUBSET Nat
        BY <3>1
      <4>2. PICK q \in T: \A t \in T: q <= t
        BY <3>2, <4>1, FirstExists
      <4>3. q \in 0 .. n /\ p <= q /\ ~(m[p] <= m[q])
        BY <3>1, <4>2
      <4>4. q # p
        BY <1>2, <4>3
      <4>5. PICK h \in 0 .. n: h = q - 1 /\ p <= h /\ q \in 1 .. n /\ ~(q <= h)
        BY <4>3, <4>4
      <4>6. h \notin T
        BY <4>2, <4>5
      <4>7. m[p] <= m[h]
        BY <3>1, <4>5, <4>6
      <4>8. m[q] = m[h] \/ m[q] = m[h] + 1
        BY <1>1, <4>5
      <4>9. m[h] \in Nat /\ m[p] \in Nat /\ m[q] \in Nat
        BY <1>2, <4>3
      <4>10. QED
        BY <4>3, <4>7, <4>8, <4>9
    <3>3. QED
      BY <3>1, <3>2
  <2>2. QED
    BY <2>1
<1>4. QED
  BY <1>3

(* Every keyword up to the last match is matched, by one keyword only, in  *)
(* order.                                                                  *)
Hits(m, q) == m[q] # m[q - 1]
MatchesAll(n, m) ==
  /\ m[n] \in Nat
  /\ \A c \in 1 .. m[n]: \E q \in 1 .. n: Hits(m, q) /\ m[q] = c
  /\ \A q \in 1 .. n: Hits(m, q) => m[q] \in 1 .. m[n]
  /\ \A p, q \in 1 .. n: Hits(m, p) /\ Hits(m, q) => (p < q <=> m[p] < m[q])

(* match_keywords matches a prefix of the new keywords to a subsequence of *)
(* the old ones.                                                           *)
LEMMA MatchedHits ==
  ASSUME NEW before, NEW n \in Nat, NEW after, NEW k \in Nat, NEW m, Matching(before, n, after, k, m)
  PROVE  MatchesAll(n, m)
<1>1. /\ m \in [0 .. n -> 0 .. k] /\ m[0] = 0
      /\ \A i \in 1 .. n: m[i] = m[i - 1] \/ m[i] = m[i - 1] + 1
  BY DEF Matching
<1>2. \A i \in 0 .. n: m[i] \in Nat
  BY <1>1
<1>3. \A p, q \in 0 .. n: p <= q => m[p] <= m[q]
  BY MatchingRises
<1>4. ASSUME NEW c \in 1 .. m[n] PROVE \E q \in 1 .. n: Hits(m, q) /\ m[q] = c
  <2>1. PICK T: T = {q \in 0 .. n: c <= m[q]}
    OBVIOUS
  <2>2. T \in SUBSET Nat /\ n \in T /\ m[n] \in Nat /\ c \in Nat
    BY <1>2, <2>1
  <2>3. PICK q \in T: \A t \in T: q <= t
    BY <2>2, FirstExists
  <2>4. q \in 0 .. n /\ c <= m[q]
    BY <2>1, <2>3
  <2>5. q # 0
    BY <1>1, <2>2, <2>4
  <2>6. PICK h \in 0 .. n: h = q - 1 /\ q \in 1 .. n /\ ~(q <= h)
    BY <2>4, <2>5
  <2>7. h \notin T
    BY <2>3, <2>6
  <2>8. ~(c <= m[h])
    BY <2>1, <2>7
  <2>9. m[q] = m[h] \/ m[q] = m[h] + 1
    BY <1>1, <2>6
  <2>10. m[h] \in Nat /\ m[q] \in Nat
    BY <1>2, <2>4
  <2>11. m[q] = c /\ m[q] # m[h]
    BY <2>2, <2>4, <2>8, <2>9, <2>10
  <2>12. QED
    BY <2>6, <2>11 DEF Hits
<1>5. ASSUME NEW q \in 1 .. n, Hits(m, q) PROVE m[q] \in 1 .. m[n] /\ m[q] = m[q - 1] + 1
  <2>1. PICK h \in 0 .. n: h = q - 1 /\ q \in 0 .. n /\ q <= n /\ n \in 0 .. n
    OBVIOUS
  <2>2. m[q] = m[h] + 1
    BY <1>1, <1>5, <2>1 DEF Hits
  <2>3. m[h] \in Nat /\ m[q] \in Nat /\ m[n] \in Nat /\ m[q] <= m[n]
    BY <1>2, <1>3, <2>1
  <2>4. QED
    BY <2>1, <2>2, <2>3
<1>6. ASSUME NEW p \in 1 .. n, NEW q \in 1 .. n, Hits(m, p), Hits(m, q), p < q
      PROVE  m[p] < m[q]
  <2>1. PICK h \in 0 .. n: h = q - 1 /\ p <= h /\ p \in 0 .. n
    BY <1>6
  <2>2. m[p] <= m[h]
    BY <1>3, <2>1
  <2>3. m[q] = m[h] + 1
    BY <1>5, <1>6, <2>1
  <2>4. m[p] \in Nat /\ m[h] \in Nat
    BY <1>2, <2>1
  <2>5. QED
    BY <2>2, <2>3, <2>4
<1>7. \A p, q \in 1 .. n: Hits(m, p) /\ Hits(m, q) => (p < q <=> m[p] < m[q])
  <2>1. ASSUME NEW p \in 1 .. n, NEW q \in 1 .. n, Hits(m, p), Hits(m, q), m[p] < m[q]
        PROVE  p < q
    <3>1. ~(q < p)
      <4>1. q < p => m[q] < m[p]
        BY <1>6, <2>1
      <4>2. m[p] \in Nat /\ m[q] \in Nat
        BY <1>2
      <4>3. QED
        BY <2>1, <4>1, <4>2
    <3>2. p # q
      <4>1. m[p] \in Nat /\ m[q] \in Nat
        BY <1>2
      <4>2. QED
        BY <2>1, <4>1
    <3>3. QED
      BY <3>1, <3>2
  <2>2. QED
    BY <1>6, <2>1
<1>8. m[n] \in Nat
  BY <1>2
<1>9. QED
  BY <1>4, <1>5, <1>7, <1>8 DEF MatchesAll

(* Each kind of region of an update is one an edit has asked for. *)
Asked(s, after, R) ==
  /\ KeywordRegions(s, after.keywords) \subseteq R
  /\ PropertyRegions(s, after.properties) \subseteq R
  /\ InsertionRegions(s, after) \subseteq R
  /\ \A r \in R: KeywordChange(s, r) => r \in KeywordRegions(s, after.keywords)
  /\ \A r \in R: PropertyChange(s, r) => r \in PropertyRegions(s, after.properties)
  /\ \A r \in R: Insertion(s, r) => /\ r.new = Additions(s, after)
                                    /\ r.first = InsertionPoint(s)[1]
                                    /\ Additions(s, after) # << >>

(* The regions of an update are those of its keywords, its properties and  *)
(* what it adds, and otherwise move locations.                             *)
LEMMA RegionsByKind ==
  ASSUME Printed, NEW s \in Seq(Items), NEW after \in Headers,
         Additions(s, after) # << >> => InsertionPoint(s) # << >>,
         NEW C, C = ContentRegions(s, after), NEW delta, NEW d, NEW R, Does(s, C, delta, d, R)
  PROVE  Asked(s, after, R)
<1>1. PICK KR, PR, IR: /\ KR = KeywordRegions(s, after.keywords)
                       /\ PR = PropertyRegions(s, after.properties)
                       /\ IR = InsertionRegions(s, after)
  OBVIOUS
<1>2. C = KR \cup PR \cup IR
  BY <1>1 DEF ContentRegions
<1>3. /\ \A r \in KR: KeywordChange(s, r)
      /\ \A r \in PR: PropertyChange(s, r)
      /\ \A r \in IR: /\ Insertion(s, r) /\ r.new = Additions(s, after)
                      /\ r = Region(InsertionPoint(s)[1], InsertionPoint(s)[1] - 1, Additions(s, after))
  BY <1>1, ContentKinds
<1>4. C \subseteq R
  BY DEF Does
<1>5. \A r \in R: r \in C \/ s[r.first].kind = "location"
  <2>1. ASSUME NEW r \in R, r \notin C PROVE s[r.first].kind = "location"
    <3>1. PICK i \in LocationsIn(s): r = Region(i, i, <<Moved(s[i], d)>>)
      BY <2>1 DEF Does
    <3>2. r.first = i
      BY <3>1, RegionFields
    <3>3. QED
      BY <3>1, <3>2 DEF LocationsIn, OfKind
  <2>2. QED
    BY <2>1
<1>6. \A r: /\ KeywordChange(s, r) => s[r.first].kind \in {"keyword", "keywordstart"}
            /\ PropertyChange(s, r) => s[r.first].kind \in {"property", "propertystart"}
            /\ Insertion(s, r) => s[r.first].kind = "imageend"
  BY CutStarts
<1>7. ASSUME NEW r \in R
      PROVE  /\ KeywordChange(s, r) => r \in KR
             /\ PropertyChange(s, r) => r \in PR
             /\ Insertion(s, r) => r \in IR
  <2>1. \/ r \in KR /\ s[r.first].kind \in {"keyword", "keywordstart"}
        \/ r \in PR /\ s[r.first].kind \in {"property", "propertystart"}
        \/ r \in IR /\ s[r.first].kind = "imageend"
        \/ s[r.first].kind = "location"
    BY <1>2, <1>3, <1>5, <1>6
  <2>2. PICK c: c = s[r.first].kind
    OBVIOUS
  <2>3. QED
    BY <1>6, <2>1, <2>2
<1>8. \A r \in IR: r.first = InsertionPoint(s)[1] /\ Additions(s, after) # << >>
  <2>1. \A r \in IR: r.first = InsertionPoint(s)[1]
    BY <1>3, RegionFields
  <2>2. ASSUME NEW r \in IR PROVE Additions(s, after) # << >>
    BY <1>1 DEF InsertionRegions
  <2>3. QED
    BY <2>1, <2>2
<1>9. QED
  BY <1>1, <1>2, <1>3, <1>4, <1>7, <1>8 DEF Asked

(* Two lists, all of the first before all of the second, are one list.     *)
Rises(g, k, S) == g \in [1 .. k -> S] /\ \A i, j \in 1 .. k: i < j => g[i] < g[j]
Runs(g, k, h, l, S) ==
  /\ Rises(g, k, S) /\ Rises(h, l, S)
  /\ \A i \in 1 .. k: \A j \in 1 .. l: g[i] < h[j]
  /\ \A p \in S: (\E i \in 1 .. k: g[i] = p) \/ (\E j \in 1 .. l: h[j] = p)
Joined(f, n, g, k, h, l) ==
  /\ \A i \in 1 .. k: f[i] = g[i]
  /\ \A j \in 1 .. l: \A i \in 1 .. n: i = k + j => f[i] = h[j]

(* So the list of all is the one followed by the other.                    *)
LEMMA TwoRuns ==
  ASSUME NEW S \in SUBSET Nat, NEW k \in Nat, NEW l \in Nat, NEW g, NEW h, Runs(g, k, h, l, S),
         NEW n, n = k + l
  PROVE  \E f: Lists(f, n, S) /\ Joined(f, n, g, k, h, l)
<1>1. PICK f: f = [i \in 1 .. n |-> IF i <= k THEN g[i] ELSE h[i - k]]
  OBVIOUS
<1>2. ASSUME NEW i \in 1 .. n
      PROVE  \/ i \in 1 .. k /\ f[i] = g[i]
             \/ \E j \in 1 .. l: i = k + j /\ f[i] = h[j]
  <2>1. CASE i <= k
    BY <1>1, <2>1
  <2>2. CASE ~(i <= k)
    <3>1. PICK j \in 1 .. l: j = i - k /\ i = k + j
      BY <2>2
    <3>2. f[i] = h[j]
      BY <1>1, <2>2, <3>1
    <3>3. QED
      BY <3>1, <3>2
  <2>3. QED
    BY <2>1, <2>2
<1>3. /\ \A i \in 1 .. k: g[i] \in S /\ \A j \in 1 .. k: i < j => g[i] < g[j]
      /\ \A i \in 1 .. l: h[i] \in S /\ \A j \in 1 .. l: i < j => h[i] < h[j]
      /\ \A i \in 1 .. k: \A j \in 1 .. l: g[i] < h[j]
      /\ \A p \in S: (\E i \in 1 .. k: g[i] = p) \/ (\E j \in 1 .. l: h[j] = p)
  BY DEF Runs, Rises
<1>4. n \in Nat /\ f \in [1 .. n -> S]
  <2>1. \A i \in 1 .. n: f[i] \in S
    BY <1>2, <1>3
  <2>2. QED
    BY <1>1, <2>1
<1>5. \A i \in 1 .. k: i \in 1 .. n /\ f[i] = g[i]
  BY <1>1
<1>6. ASSUME NEW j \in 1 .. l, NEW i \in 1 .. n, i = k + j PROVE f[i] = h[j]
  <2>1. ~(i <= k) /\ i - k = j
    BY <1>6
  <2>2. QED
    BY <1>1, <2>1
<1>7. ASSUME NEW i \in 1 .. n, NEW j \in 1 .. n, i < j PROVE f[i] < f[j]
  <2>1. CASE i \in 1 .. k /\ f[i] = g[i]
    <3>1. CASE j \in 1 .. k /\ f[j] = g[j]
      BY <1>3, <1>7, <2>1, <3>1
    <3>2. CASE \E y \in 1 .. l: j = k + y /\ f[j] = h[y]
      BY <1>3, <2>1, <3>2
    <3>3. QED
      BY <1>2, <3>1, <3>2
  <2>2. CASE \E x \in 1 .. l: i = k + x /\ f[i] = h[x]
    <3>1. PICK x \in 1 .. l: i = k + x /\ f[i] = h[x]
      BY <2>2
    <3>2. ~(j \in 1 .. k)
      BY <1>7, <3>1
    <3>3. PICK y \in 1 .. l: j = k + y /\ f[j] = h[y]
      BY <1>2, <3>2
    <3>4. x < y
      BY <1>7, <3>1, <3>3
    <3>5. QED
      BY <1>3, <3>1, <3>3, <3>4
  <2>3. QED
    BY <1>2, <2>1, <2>2
<1>8. ASSUME NEW p \in S PROVE \E i \in 1 .. n: f[i] = p
  <2>1. CASE \E i \in 1 .. k: g[i] = p
    BY <1>5, <2>1
  <2>2. CASE \E j \in 1 .. l: h[j] = p
    <3>1. PICK j \in 1 .. l: h[j] = p
      BY <2>2
    <3>2. PICK i \in 1 .. n: i = k + j
      OBVIOUS
    <3>3. QED
      BY <1>6, <3>1, <3>2
  <2>3. QED
    BY <1>3, <2>1, <2>2
<1>9. Lists(f, n, S)
  BY <1>4, <1>7, <1>8 DEF Lists
<1>10. QED
  BY <1>5, <1>6, <1>9 DEF Joined

(* An update of a document in place. *)
Rewrites(s, after, d, R, n, B, out) ==
  /\ s \in Seq(Items) /\ after \in Headers
  /\ PropertiesInPlace(s) /\ KeywordsInPlace(s)
  /\ Cuts(s, d, R) /\ Fit(s, R) /\ Asked(s, after, R) /\ Placed(s, R, n, B, out)
  /\ Additions(s, after) # << >> => InsertionPoint(s) # << >>

(* A keyword goes by a change of its own. *)
LEMMA KeywordGone ==
  ASSUME NEW s \in Seq(Items), PropertiesInPlace(s), NEW d, NEW R, Cuts(s, d, R),
         NEW i \in KeywordsIn(s), Gone(R, i)
  PROVE  \E r \in R: KeywordChange(s, r) /\ r.first = i /\ r.last = i
<1>1. i \in 1 .. Len(s) /\ s[i].kind \in {"keyword", "keywordstart"}
  BY DEF KeywordsIn, OfKind
<1>2. PICK r \in R:
         \/ KeywordChange(s, r) /\ r.first = i /\ r.last = i
         \/ Relocated(s, d, r) /\ r.first = i /\ r.last = i
         \/ /\ PropertyChange(s, r) /\ r.last \in PropertyEnds(s) /\ r.first = StartOf(s, r.last)
            /\ i \in r.first .. r.last
  BY GoneBy
<1>3. ~(Relocated(s, d, r) /\ r.first = i)
  <2>1. Relocated(s, d, r) => s[r.first].kind = "location"
    BY CutStarts
  <2>2. QED
    BY <1>1, <2>1
<1>4. ASSUME r.last \in PropertyEnds(s), r.first = StartOf(s, r.last), i \in r.first .. r.last
      PROVE  FALSE
  <2>1. PICK j \in PropertyEnds(s): j = r.last
    BY <1>4
  <2>2. i \in StartOf(s, j) .. j
    BY <1>4, <2>1
  <2>3. \/ s[j].kind = "property" /\ StartOf(s, j) = j
        \/ s[j].kind = "propertyend" /\ s[StartOf(s, j)].kind = "propertystart"
    BY SpanFacts
  <2>4. i = StartOf(s, j) \/ i = j \/ s[i].kind = "text" \/ s[i].kind = "location"
    BY <2>2, InElement
  <2>5. s[i].kind \notin {"property", "propertystart", "propertyend", "text", "location"}
    BY <1>1
  <2>6. QED
    BY <2>3, <2>4, <2>5
<1>5. QED
  BY <1>2, <1>3, <1>4

(* What stands for a keyword: its name, and its value or what rendering    *)
(* made of it.                                                             *)
Says(y, kw) ==
  /\ y.kind = "keyword" /\ y.id = kw.name
  /\ y.val \in {kw.val, KeywordReadBack(kw.name, kw.val)}
Stands(B, out, i, kw) ==
  /\ B[i - 1] \in Nat /\ B[i - 1] < B[i] /\ B[i] \in 1 .. Len(out) /\ Says(out[B[i]], kw)
(* The keywords K of a document, at L, as they match those of `after`.     *)
Matches(s, after, K, n, L, m) ==
  /\ K = Keywords(s) /\ L = KeywordSpans(s) /\ n = Cardinality(KeywordsIn(s))
  /\ m = Matched(K, after.keywords)

(* One that matches an equal one stays. *)
LEMMA KeywordKept ==
  ASSUME NEW s, NEW after, NEW d, NEW R, NEW n, NEW B, NEW out, Rewrites(s, after, d, R, n, B, out),
         NEW K, NEW c, NEW L, NEW m, Matches(s, after, K, c, L, m), NEW q \in 1 .. c, Hits(m, q),
         after.keywords[m[q]] = K[q]
  PROVE  ~Gone(R, L[q])
<1>1. /\ s \in Seq(Items) /\ PropertiesInPlace(s) /\ Cuts(s, d, R) /\ Asked(s, after, R)
  BY DEF Rewrites
<1>2. PICK i: i = L[q]
  OBVIOUS
<1>3. i \in KeywordsIn(s) /\ c \in Nat /\ Lists(L, c, KeywordsIn(s))
  <2>1. /\ L = KeywordSpans(s) /\ c = Cardinality(KeywordsIn(s)) /\ K = Keywords(s)
    BY DEF Matches
  <2>2. QED
    BY <1>1, <1>2, <2>1, KeywordsFacts
<1>6. PICK KR: KR = KeywordRegions(s, after.keywords)
  OBVIOUS
<1>7. \A r \in R: KeywordChange(s, r) => r \in KR
  BY <1>1, <1>6 DEF Asked
<1>8. \A r \in KR: \E p \in 1 .. c:
              \/ m[p] = m[p - 1] /\ r = Region(L[p], L[p], << >>)
              \/ /\ m[p] # m[p - 1] /\ after.keywords[m[p]] # K[p]
                 /\ r = Region(L[p], L[p], <<RenderedKeyword(after.keywords[m[p]])>>)
  BY <1>1, <1>6, KeywordRegionsFacts DEF Matches
<1>9. ASSUME Gone(R, i) PROVE FALSE
  <2>1. PICK r \in R: KeywordChange(s, r) /\ r.first = i
    BY <1>1, <1>3, <1>9, KeywordGone
  <2>2. r \in KR
    BY <1>7, <2>1
  <2>3. PICK p \in 1 .. c:
              \/ m[p] = m[p - 1] /\ r = Region(L[p], L[p], << >>)
              \/ /\ m[p] # m[p - 1] /\ after.keywords[m[p]] # K[p]
                 /\ r = Region(L[p], L[p], <<RenderedKeyword(after.keywords[m[p]])>>)
    BY <1>8, <2>2
  <2>4. L[p] = L[q]
    BY <1>2, <2>1, <2>3, RegionFields
  <2>5. p = q
    <3>1. L[p] \in Nat /\ (p < q => L[p] < L[q]) /\ (q < p => L[q] < L[p])
      <4>1. KeywordsIn(s) \subseteq Nat
        BY <1>1 DEF KeywordsIn, OfKind
      <4>2. L[p] \in KeywordsIn(s)
        BY <1>3 DEF Lists
      <4>3. QED
        BY <1>3, <4>1, <4>2 DEF Lists
    <3>2. QED
      BY <2>4, <3>1
  <2>6. QED
    BY <2>3, <2>5 DEF Hits
<1>10. QED
  BY <1>2, <1>9

(* One that matches is where it was. *)
LEMMA KeywordStands ==
  ASSUME Printed, NEW s, NEW after, NEW d, NEW R, NEW n, NEW B, NEW out, Rewrites(s, after, d, R, n, B, out),
         NEW K, NEW c, NEW L, NEW m, Matches(s, after, K, c, L, m), NEW q \in 1 .. c, Hits(m, q)
  PROVE  Stands(B, out, L[q], after.keywords[m[q]])
<1>1. /\ s \in Seq(Items) /\ PropertiesInPlace(s) /\ KeywordsInPlace(s)
      /\ Cuts(s, d, R) /\ Fit(s, R) /\ Asked(s, after, R) /\ Placed(s, R, n, B, out)
  BY DEF Rewrites
<1>2. PICK i: i = L[q]
  OBVIOUS
<1>3. i \in KeywordsIn(s) /\ i \in 1 .. Len(s) /\ K[q] = KeywordAt(s, i) /\ c \in Nat /\ Lists(L, c, KeywordsIn(s))
  <2>1. /\ L = KeywordSpans(s) /\ c = Cardinality(KeywordsIn(s)) /\ K = Keywords(s)
    BY DEF Matches
  <2>2. QED
    BY <1>1, <1>2, <2>1, KeywordsFacts
<1>4. s[i].kind = "keyword"
  <2>1. s[i].kind \in {"keyword", "keywordstart"}
    BY <1>3 DEF KeywordsIn, OfKind
  <2>2. QED
    BY <1>1, <1>3, <2>1 DEF KeywordsInPlace
<1>5. PICK kw: kw = after.keywords[m[q]]
  OBVIOUS
<1>6. PICK KR: KR = KeywordRegions(s, after.keywords)
  OBVIOUS
<1>7. KR \subseteq R
  BY <1>1, <1>6 DEF Asked
<1>8. \A p \in 1 .. c: m[p] # m[p - 1] /\ after.keywords[m[p]] # K[p]
                               => Region(L[p], L[p], <<RenderedKeyword(after.keywords[m[p]])>>) \in KR
  BY <1>1, <1>6, KeywordRegionsFacts DEF Matches
<1>9. CASE kw = K[q]
  <2>1. ~Gone(R, i)
    BY <1>2, <1>5, <1>9, KeywordKept
  <2>2. B[i] \in 1 .. Len(out) /\ out[B[i]] = s[i] /\ B[i - 1] \in Nat /\ B[i - 1] < B[i]
    BY <1>1, <1>3, <2>1, Kept
  <2>3. Says(s[i], kw)
    BY <1>3, <1>4, <1>9 DEF Says, KeywordAt
  <2>4. QED
    BY <1>2, <1>5, <2>2, <2>3 DEF Stands
<1>10. CASE kw # K[q]
  <2>1. PICK y: y = RenderedKeyword(kw)
    OBVIOUS
  <2>2. PICK r: r = Region(i, i, <<y>>)
    OBVIOUS
  <2>3. r \in R
    BY <1>2, <1>5, <1>7, <1>8, <1>10, <2>1, <2>2 DEF Hits
  <2>4. r.first = i /\ r.last = i /\ r.new = <<y>>
    BY <2>2, RegionFields
  <2>5. r.first <= r.last /\ i \in r.first .. r.last
    BY <1>3, <2>4
  <2>6. \A k \in r.first .. r.last:
            /\ B[k] = B[r.first - 1] + 1 /\ B[k] \in 1 .. Len(out) /\ out[B[k]] = y
            /\ B[r.first - 1] \in Nat
    BY <1>1, <2>3, <2>4, <2>5, Replaced
  <2>7. B[i] = B[i - 1] + 1 /\ B[i] \in 1 .. Len(out) /\ out[B[i]] = y /\ B[i - 1] \in Nat
    BY <2>4, <2>5, <2>6
  <2>8. Says(y, kw)
    <3>1. y.kind = "keyword" /\ y.id = kw.name /\ y.val = KeywordReadBack(kw.name, kw.val)
      BY <2>1, RenderedItems
    <3>2. QED
      BY <3>1 DEF Says
  <2>9. B[i - 1] < B[i]
    BY <2>7
  <2>10. QED
    BY <1>2, <1>5, <2>7, <2>8, <2>9 DEF Stands
<1>11. QED
  BY <1>9, <1>10

(* One that does not is cut out. *)
LEMMA KeywordCut ==
  ASSUME NEW s, NEW after, NEW d, NEW R, NEW n, NEW B, NEW out, Rewrites(s, after, d, R, n, B, out),
         NEW K, NEW c, NEW L, NEW m, Matches(s, after, K, c, L, m), NEW q \in 1 .. c, ~Hits(m, q)
  PROVE  Gone(R, L[q])
<1>1. s \in Seq(Items) /\ Asked(s, after, R)
  BY DEF Rewrites
<1>2. /\ L = KeywordSpans(s) /\ c = Cardinality(KeywordsIn(s)) /\ K = Keywords(s)
      /\ m = Matched(K, after.keywords)
  BY DEF Matches
<1>3. L[q] \in 1 .. Len(s)
  BY <1>1, <1>2, KeywordsFacts
<1>4. PICK r: r = Region(L[q], L[q], << >>)
  OBVIOUS
<1>5. r \in KeywordRegions(s, after.keywords)
  <2>1. m[q] = m[q - 1]
    BY DEF Hits
  <2>2. QED
    BY <1>1, <1>2, <1>4, <2>1, KeywordRegionsFacts
<1>6. r \in R /\ r.first = L[q] /\ r.last = L[q]
  BY <1>1, <1>4, <1>5, RegionFields DEF Asked
<1>7. L[q] \in r.first .. r.last
  BY <1>3, <1>6
<1>8. QED
  BY <1>6, <1>7 DEF Gone

(* What is added is in a row before the end of the image. *)
Inserts(s, n, B, out, e, A) ==
  /\ e \in 1 .. Len(s) /\ s[e].kind = "imageend"
  /\ B[e - 1] \in Nat
  /\ \A k \in 1 .. Len(A): B[e - 1] + k \in 1 .. Len(out) /\ out[B[e - 1] + k] = A[k]

(* Everything that is added lands there.                                   *)
LEMMA InsertsAll ==
  ASSUME Printed, NEW s, NEW after, NEW d, NEW R, NEW n, NEW B, NEW out,
         Rewrites(s, after, d, R, n, B, out),
         NEW A, A = Additions(s, after), A # << >>, NEW e, e = InsertionPoint(s)[1]
  PROVE  Inserts(s, n, B, out, e, A)
<1>1. /\ s \in Seq(Items) /\ after \in Headers /\ Fit(s, R) /\ Asked(s, after, R)
      /\ Placed(s, R, n, B, out) /\ InsertionPoint(s) # << >>
  BY DEF Rewrites
<1>2. PICK r: r = Region(e, e - 1, A)
  OBVIOUS
<1>3. r \in InsertionRegions(s, after)
  BY <1>2 DEF InsertionRegions
<1>4. r \in R
  BY <1>1, <1>3 DEF Asked
<1>5. Insertion(s, r)
  BY <1>1, <1>3, ContentKinds
<1>6. r.first = e /\ r.new = A
  BY <1>2, RegionFields
<1>7. e \in 1 .. Len(s) /\ s[e].kind = "imageend"
  BY <1>1, <1>5, <1>6, CutStarts
<1>8. NewAt(R, e) = A
  BY <1>1, <1>4, <1>6, NewHere
<1>9. e \in 1 .. n /\ e - 1 \in 0 .. n /\ e \in 0 .. n /\ B \in [0 .. n -> Nat] /\ Len(out) = B[n]
      /\ n \in 0 .. n /\ e <= n
  <2>1. n = Len(s) + 1 /\ B \in [0 .. n -> Nat] /\ Len(out) = B[n]
    BY <1>1 DEF Placed
  <2>2. QED
    BY <1>1, <1>7, <2>1
<1>10. /\ \A k \in 1 .. Len(A): out[B[e - 1] + k] = A[k]
       /\ B[e - 1] + Len(A) <= B[e] /\ B[e] <= B[n]
  <2>1. PICK N: N = NewAt(R, e)
    OBVIOUS
  <2>2. \A k \in 1 .. Len(N): out[B[e - 1] + k] = N[k]
    BY <1>1, <1>9, <2>1 DEF Placed
  <2>3. B[e - 1] + Len(N) <= B[e]
    BY <1>1, <1>9, <2>1 DEF Placed
  <2>4. B[e] <= B[n]
    BY <1>1, <1>9 DEF Placed
  <2>5. N = A
    BY <1>8, <2>1
  <2>6. QED
    BY <2>2, <2>3, <2>4, <2>5
<1>11. B[e - 1] \in Nat /\ B[e] \in Nat /\ B[n] \in Nat
  BY <1>9
<1>12. Len(A) \in Nat
  BY <1>1, <1>8, NewType
<1>13. \A k \in 1 .. Len(A): B[e - 1] + k \in 1 .. Len(out)
  BY <1>9, <1>10, <1>11, <1>12
<1>14. QED
  BY <1>7, <1>10, <1>11, <1>13 DEF Inserts

(* An added item is an indent, a keyword or a property. *)
AddedAt(A, after, M, nk, np, ids, k) ==
  \/ A[k] = Indent
  \/ \E x \in 1 .. nk: k = 2 * x /\ A[k] = RenderedKeyword(after.keywords[M + x])
  \/ \E y \in 1 .. np: /\ k = 2 * nk + 2 * y
                       /\ A[k] = RenderedProperty(ids[y], after.properties[ids[y]])

(* Which it is follows from its position.                                  *)
LEMMA AddedByPosition ==
  ASSUME NEW s, NEW after, NEW A, NEW M, NEW nk, NEW np, NEW ids, Added(s, after, A, M, nk, np, ids),
         NEW k \in 1 .. Len(A)
  PROVE  AddedAt(A, after, M, nk, np, ids, k)
<1>1. nk \in Nat /\ np \in Nat /\ Len(A) = 2 * nk + 2 * np
  BY DEF Added
<1>2. \/ \E x \in 1 .. nk: k = 2 * x - 1
      \/ \E x \in 1 .. nk: k = 2 * x
      \/ \E y \in 1 .. np: k = 2 * nk + 2 * y - 1
      \/ \E y \in 1 .. np: k = 2 * nk + 2 * y
  <2>1. PICK h \in Nat: k = 2 * h \/ k = 2 * h + 1
    <3>1. PICK h: h = k \div 2
      OBVIOUS
    <3>2. h \in Nat /\ (k = 2 * h \/ k = 2 * h + 1)
      BY <1>1, <3>1
    <3>3. QED
      BY <3>2
  <2>2. CASE k = 2 * h
    <3>1. CASE h <= nk
      <4>1. h \in 1 .. nk
        BY <1>1, <2>2, <3>1
      <4>2. QED
        BY <2>2, <4>1
    <3>2. CASE ~(h <= nk)
      <4>1. PICK y \in 1 .. np: y = h - nk
        BY <1>1, <2>2, <3>2
      <4>2. k = 2 * nk + 2 * y
        BY <1>1, <2>2, <4>1
      <4>3. QED
        BY <4>2
    <3>3. QED
      BY <3>1, <3>2
  <2>3. CASE k = 2 * h + 1
    <3>1. CASE h < nk
      <4>1. PICK x \in 1 .. nk: x = h + 1
        BY <1>1, <3>1
      <4>2. k = 2 * x - 1
        BY <2>3, <4>1
      <4>3. QED
        BY <4>2
    <3>2. CASE ~(h < nk)
      <4>1. PICK y \in 1 .. np: y = h - nk + 1
        BY <1>1, <2>3, <3>2
      <4>2. k = 2 * nk + 2 * y - 1
        BY <1>1, <2>3, <4>1
      <4>3. QED
        BY <4>2
    <3>3. QED
      BY <3>1, <3>2
  <2>4. QED
    BY <2>1, <2>2, <2>3
<1>3. /\ \A x \in 1 .. nk: /\ A[2 * x - 1] = Indent
                           /\ A[2 * x] = RenderedKeyword(after.keywords[M + x])
      /\ \A y \in 1 .. np: /\ A[2 * nk + 2 * y - 1] = Indent
                           /\ A[2 * nk + 2 * y]
                                = RenderedProperty(ids[y], after.properties[ids[y]])
  BY DEF Added
<1>4. CASE \E x \in 1 .. nk: k = 2 * x - 1
  <2>1. A[k] = Indent
    BY <1>3, <1>4
  <2>2. QED
    BY <2>1 DEF AddedAt
<1>5. CASE \E x \in 1 .. nk: k = 2 * x
  <2>1. PICK x \in 1 .. nk: k = 2 * x
    BY <1>5
  <2>2. A[k] = RenderedKeyword(after.keywords[M + x])
    BY <1>3, <2>1
  <2>3. QED
    BY <2>1, <2>2 DEF AddedAt
<1>6. CASE \E y \in 1 .. np: k = 2 * nk + 2 * y - 1
  <2>1. A[k] = Indent
    BY <1>3, <1>6
  <2>2. QED
    BY <2>1 DEF AddedAt
<1>7. CASE \E y \in 1 .. np: k = 2 * nk + 2 * y
  <2>1. PICK y \in 1 .. np: k = 2 * nk + 2 * y
    BY <1>7
  <2>2. A[k] = RenderedProperty(ids[y], after.properties[ids[y]])
    BY <1>3, <2>1
  <2>3. QED
    BY <2>1, <2>2 DEF AddedAt
<1>8. QED
  BY <1>2, <1>4, <1>5, <1>6, <1>7

(* A keyword of the result is one that matched, or one that was added. *)
Origin(m, c, L, B, e, nk, p) ==
  \/ \E q \in 1 .. c: Hits(m, q) /\ p = B[L[q]]
  \/ \E x \in 1 .. nk: p = B[e - 1] + 2 * x

(* There is no third way for one to get into the header.                   *)
LEMMA KeywordOrigin ==
  ASSUME Printed, NEW s, NEW after, NEW d, NEW R, NEW n, NEW B, NEW out,
         Rewrites(s, after, d, R, n, B, out),
         NEW K, NEW c, NEW L, NEW m, Matches(s, after, K, c, L, m),
         NEW A, A = Additions(s, after), NEW e, e = InsertionPoint(s)[1],
         NEW M, NEW nk, NEW np, NEW ids, Added(s, after, A, M, nk, np, ids),
         NEW p \in KeywordsIn(out)
  PROVE  Origin(m, c, L, B, e, nk, p)
<1>1. /\ s \in Seq(Items) /\ PropertiesInPlace(s) /\ KeywordsInPlace(s)
      /\ Cuts(s, d, R) /\ Fit(s, R) /\ Asked(s, after, R) /\ Placed(s, R, n, B, out)
      /\ out \in Seq(Items)
  BY DEF Rewrites, Placed
<1>2. /\ L = KeywordSpans(s) /\ c = Cardinality(KeywordsIn(s)) /\ K = Keywords(s)
      /\ m = Matched(K, after.keywords)
  BY DEF Matches
<1>3. \A i \in KeywordsIn(s): \E q \in 1 .. c: L[q] = i
  BY <1>1, <1>2, KeywordsFacts
<1>4. p \in 1 .. Len(out) /\ out[p].kind \in {"keyword", "keywordstart"}
  BY <1>1 DEF KeywordsIn, OfKind
<1>5. CASE \E i \in 1 .. Len(s): ~Gone(R, i) /\ p = B[i] /\ out[p] = s[i]
  <2>1. PICK i \in 1 .. Len(s): ~Gone(R, i) /\ p = B[i] /\ out[p] = s[i]
    BY <1>5
  <2>2. i \in KeywordsIn(s)
    BY <1>1, <1>4, <2>1 DEF KeywordsIn, OfKind
  <2>3. PICK q \in 1 .. c: L[q] = i
    BY <1>3, <2>2
  <2>4. Hits(m, q)
    BY <2>1, <2>3, KeywordCut
  <2>5. QED
    BY <2>1, <2>3, <2>4 DEF Origin
<1>6. CASE \E r \in R: \E k \in 1 .. Len(r.new):
              /\ p = B[r.first - 1] + k /\ out[p] = r.new[k]
              /\ NewAt(R, r.first) = r.new /\ r.first \in 1 .. n
              /\ \/ KeywordChange(s, r) \/ PropertyChange(s, r)
                 \/ Insertion(s, r) \/ Relocated(s, d, r)
              /\ r.new[k].kind \in {"text", "keyword", "property", "location"}
              /\ r.new[k].kind = "location" => Relocated(s, d, r) /\ r.new[k] = Moved(s[r.first], d)
  <2>1. PICK r \in R: \E k \in 1 .. Len(r.new):
              /\ p = B[r.first - 1] + k /\ out[p] = r.new[k]
              /\ NewAt(R, r.first) = r.new /\ r.first \in 1 .. n
              /\ \/ KeywordChange(s, r) \/ PropertyChange(s, r)
                 \/ Insertion(s, r) \/ Relocated(s, d, r)
    BY <1>6
  <2>2. PICK k \in 1 .. Len(r.new): p = B[r.first - 1] + k /\ out[p] = r.new[k]
    BY <2>1
  <2>3. KeywordChange(s, r) \/ Insertion(s, r)
    <3>1. r.new[k].kind \notin {"property", "location"}
      BY <1>4, <2>2
    <3>2. QED
      BY <2>1, <3>1, WritesOf
  <2>4. CASE KeywordChange(s, r)
    <3>1. r \in KeywordRegions(s, after.keywords)
      BY <1>1, <2>4 DEF Asked
    <3>2. PICK q \in 1 .. c:
              \/ m[q] = m[q - 1] /\ r = Region(L[q], L[q], << >>)
              \/ /\ m[q] # m[q - 1] /\ after.keywords[m[q]] # K[q]
                 /\ r = Region(L[q], L[q], <<RenderedKeyword(after.keywords[m[q]])>>)
      <4>1. PICK KR: KR = KeywordRegions(s, after.keywords)
        OBVIOUS
      <4>2. \A t \in KR: \E q \in 1 .. c:
              \/ m[q] = m[q - 1] /\ t = Region(L[q], L[q], << >>)
              \/ /\ m[q] # m[q - 1] /\ after.keywords[m[q]] # K[q]
                 /\ t = Region(L[q], L[q], <<RenderedKeyword(after.keywords[m[q]])>>)
        <5>1. s \in Seq(Items)
          BY <1>1
        <5>2. QED
          BY <1>2, <4>1, <5>1, KeywordRegionsFacts, SMTT(30)
      <4>3. QED
        BY <3>1, <4>1, <4>2
    <3>3. Len(r.new) = 1 /\ k = 1
      BY <2>4, WritesOf
    <3>4. m[q] # m[q - 1]
      <4>1. Len(<< >>) = 0
        OBVIOUS
      <4>2. ASSUME m[q] = m[q - 1] PROVE FALSE
        <5>1. r = Region(L[q], L[q], << >>)
          BY <3>2, <4>2
        <5>2. r.new = << >>
          BY <5>1, RegionFields
        <5>3. QED
          BY <3>3, <4>1, <5>2
      <4>3. QED
        BY <4>2
    <3>5. r.first = L[q] /\ r.last = L[q] /\ r.new = <<RenderedKeyword(after.keywords[m[q]])>>
      BY <3>2, <3>4, RegionFields
    <3>6. L[q] \in 1 .. Len(s)
      BY <1>1, <1>2, KeywordsFacts
    <3>7. PICK y: y = RenderedKeyword(after.keywords[m[q]])
      OBVIOUS
    <3>8. r.first <= r.last /\ L[q] \in r.first .. r.last /\ r.new = <<y>>
      BY <3>5, <3>6, <3>7
    <3>9. B[L[q]] = B[r.first - 1] + 1
      BY <1>1, <3>8, Replaced
    <3>10. p = B[L[q]]
      BY <2>2, <3>3, <3>9
    <3>11. QED
      BY <3>4, <3>10 DEF Origin, Hits
  <2>5. CASE Insertion(s, r)
    <3>1. r.new = A /\ r.first = e
      BY <1>1, <2>5 DEF Asked
    <3>2. AddedAt(A, after, M, nk, np, ids, k)
      BY <3>1, AddedByPosition
    <3>3. A[k].kind \in {"keyword", "keywordstart"}
      BY <1>4, <2>2, <3>1
    <3>4. A[k] # Indent
      BY <3>3, IndentItem
    <3>5. \A y: A[k] # RenderedProperty(ids[y], after.properties[ids[y]])
      BY <3>3, RenderedItems
    <3>6. PICK x \in 1 .. nk: k = 2 * x
      BY <3>2, <3>4, <3>5 DEF AddedAt
    <3>7. p = B[e - 1] + 2 * x
      BY <2>2, <3>1, <3>6
    <3>8. QED
      BY <3>7 DEF Origin
  <2>6. QED
    BY <2>3, <2>4, <2>5
<1>7. \/ \E i \in 1 .. Len(s): ~Gone(R, i) /\ p = B[i] /\ out[p] = s[i]
      \/ \E r \in R: \E k \in 1 .. Len(r.new):
              /\ p = B[r.first - 1] + k /\ out[p] = r.new[k]
              /\ NewAt(R, r.first) = r.new /\ r.first \in 1 .. n
              /\ \/ KeywordChange(s, r) \/ PropertyChange(s, r)
                 \/ Insertion(s, r) \/ Relocated(s, d, r)
              /\ r.new[k].kind \in {"text", "keyword", "property", "location"}
              /\ r.new[k].kind = "location" => Relocated(s, d, r) /\ r.new[k] = Moved(s[r.first], d)
  <2>1. /\ s \in Seq(Items) /\ Cuts(s, d, R) /\ Fit(s, R) /\ Placed(s, R, n, B, out)
        /\ p \in 1 .. Len(out)
    BY <1>1, <1>4
  <2>2. QED
    BY <2>1, WhereFrom
<1>8. QED
  BY <1>5, <1>6, <1>7

(* What matched stands in the order it has in `after`. *)
MatchedRun(m, c, L, B, M, g) ==
  \A x \in 1 .. M: \E q \in 1 .. c: Hits(m, q) /\ m[q] = x /\ g[x] = B[L[q]]

(* The matched keywords of the result say what `after` says, in its order. *)
LEMMA MatchedRises ==
  ASSUME Printed, NEW s, NEW after, NEW d, NEW R, NEW n, NEW B, NEW out, Rewrites(s, after, d, R, n, B, out),
         NEW K, NEW c, NEW L, NEW m, Matches(s, after, K, c, L, m), MatchesAll(c, m),
         NEW M, M = m[c], NEW kw, kw = after.keywords
  PROVE  \E g: /\ Rises(g, M, KeywordsIn(out)) /\ MatchedRun(m, c, L, B, M, g)
               /\ \A x \in 1 .. M: Says(out[g[x]], kw[x])
<1>1. /\ s \in Seq(Items) /\ Placed(s, R, n, B, out) /\ n = Len(s) + 1 /\ out \in Seq(Items)
      /\ B \in [0 .. n -> Nat]
  BY DEF Rewrites, Placed
<1>2. /\ c \in Nat /\ Lists(L, c, KeywordsIn(s))
      /\ \A q \in 1 .. c: L[q] \in 1 .. Len(s)
  <2>1. L = KeywordSpans(s) /\ c = Cardinality(KeywordsIn(s))
    BY DEF Matches
  <2>2. QED
    BY <1>1, <2>1, KeywordsFacts
<1>3. PICK g: g = [x \in 1 .. M |-> B[L[CHOOSE q \in 1 .. c: Hits(m, q) /\ m[q] = x]]]
  OBVIOUS
<1>4. MatchedRun(m, c, L, B, M, g)
  <2>1. ASSUME NEW x \in 1 .. M PROVE \E q \in 1 .. c: Hits(m, q) /\ m[q] = x /\ g[x] = B[L[q]]
    <3>1. \E q \in 1 .. c: Hits(m, q) /\ m[q] = x
      BY DEF MatchesAll
    <3>2. PICK q: q = CHOOSE y \in 1 .. c: Hits(m, y) /\ m[y] = x
      OBVIOUS
    <3>3. q \in 1 .. c /\ Hits(m, q) /\ m[q] = x
      BY <3>1, <3>2
    <3>4. QED
      BY <1>3, <3>2, <3>3
  <2>2. QED
    BY <2>1 DEF MatchedRun
<1>5. ASSUME NEW q \in 1 .. c, Hits(m, q)
      PROVE  /\ B[L[q] - 1] \in Nat /\ B[L[q] - 1] < B[L[q]] /\ B[L[q]] \in 1 .. Len(out)
             /\ Says(out[B[L[q]]], kw[m[q]])
  <2>1. Stands(B, out, L[q], kw[m[q]])
    BY <1>5, KeywordStands
  <2>2. QED
    BY <2>1 DEF Stands
<1>6. ASSUME NEW x \in 1 .. M PROVE g[x] \in KeywordsIn(out) /\ Says(out[g[x]], kw[x])
  <2>1. PICK q \in 1 .. c: Hits(m, q) /\ m[q] = x /\ g[x] = B[L[q]]
    BY <1>4 DEF MatchedRun
  <2>2. g[x] \in 1 .. Len(out) /\ Says(out[g[x]], kw[x])
    BY <1>5, <2>1
  <2>3. g[x] \in KeywordsIn(out)
    BY <1>1, <2>2 DEF Says, KeywordsIn, OfKind
  <2>4. QED
    BY <2>2, <2>3
<1>7. ASSUME NEW x \in 1 .. M, NEW y \in 1 .. M, x < y PROVE g[x] < g[y]
  <2>1. PICK p \in 1 .. c: Hits(m, p) /\ m[p] = x /\ g[x] = B[L[p]]
    BY <1>4 DEF MatchedRun
  <2>2. PICK q \in 1 .. c: Hits(m, q) /\ m[q] = y /\ g[y] = B[L[q]]
    BY <1>4 DEF MatchedRun
  <2>3. p < q
    BY <1>7, <2>1, <2>2 DEF MatchesAll
  <2>4. L[p] < L[q]
    BY <1>2, <2>3 DEF Lists
  <2>5. PICK i \in 1 .. Len(s), j \in 1 .. Len(s): i = L[p] /\ j = L[q] /\ i < j
    BY <1>2, <2>4
  <2>6. i \in 0 .. n /\ j \in 1 .. n
    BY <1>1
  <2>7. B[i] <= B[j - 1] /\ B[i] \in Nat /\ B[j - 1] \in Nat /\ B[j] \in Nat
    BY <1>1, <2>5, <2>6, EndsInOrder
  <2>8. B[j - 1] < B[j]
    BY <1>5, <2>2, <2>5
  <2>9. B[i] < B[j]
    BY <2>7, <2>8
  <2>10. QED
    BY <2>1, <2>2, <2>5, <2>9
<1>8. g \in [1 .. M -> KeywordsIn(out)]
  BY <1>3, <1>6
<1>9. QED
  BY <1>4, <1>6, <1>7, <1>8 DEF Rises

(* What is added stands in its order, behind what matched. *)
LEMMA AddedRises ==
  ASSUME Printed, NEW s, NEW after, NEW d, NEW R, NEW n, NEW B, NEW out,
         Rewrites(s, after, d, R, n, B, out),
         NEW K, NEW c, NEW L, NEW m, Matches(s, after, K, c, L, m),
         NEW A, A = Additions(s, after), NEW e, e = InsertionPoint(s)[1],
         NEW M, NEW nk, NEW np, NEW ids, Added(s, after, A, M, nk, np, ids), nk # 0,
         NEW kw, kw = after.keywords
  PROVE  /\ Rises([y \in 1 .. nk |-> B[e - 1] + 2 * y], nk, KeywordsIn(out))
         /\ \A y \in 1 .. nk: Says(out[B[e - 1] + 2 * y], kw[M + y])
         /\ \A q \in 1 .. c: B[L[q]] <= B[e - 1] /\ B[L[q]] \in Nat
         /\ B[e - 1] \in Nat
<1>1. /\ s \in Seq(Items) /\ Placed(s, R, n, B, out) /\ n = Len(s) + 1 /\ out \in Seq(Items)
      /\ KeywordsInPlace(s)
  BY DEF Rewrites, Placed
<1>2. nk \in Nat /\ np \in Nat /\ Len(A) = 2 * nk + 2 * np
      /\ \A k \in 1 .. nk: A[2 * k] = RenderedKeyword(kw[M + k])
  BY DEF Added
<1>3. A # << >>
  <2>1. Len(<< >>) = 0
    OBVIOUS
  <2>2. QED
    BY <1>2, <2>1
<1>4. Inserts(s, n, B, out, e, A)
  BY <1>3, InsertsAll
<1>5. /\ e \in 1 .. Len(s) /\ s[e].kind = "imageend" /\ B[e - 1] \in Nat
      /\ \A k \in 1 .. Len(A): B[e - 1] + k \in 1 .. Len(out) /\ out[B[e - 1] + k] = A[k]
  BY <1>4 DEF Inserts
<1>6. PICK b \in Nat: b = B[e - 1]
  BY <1>5
<1>7. ASSUME NEW y \in 1 .. nk
      PROVE  b + 2 * y \in KeywordsIn(out) /\ Says(out[b + 2 * y], kw[M + y])
  <2>1. PICK k \in 1 .. Len(A): k = 2 * y
    BY <1>2
  <2>2. b + k \in 1 .. Len(out) /\ out[b + k] = RenderedKeyword(kw[M + y])
    BY <1>2, <1>5, <1>6, <2>1
  <2>3. Says(out[b + k], kw[M + y])
    BY <2>2, RenderedItems DEF Says
  <2>4. b + k \in KeywordsIn(out)
    BY <1>1, <2>2, <2>3 DEF Says, KeywordsIn, OfKind
  <2>5. QED
    BY <2>1, <2>3, <2>4
<1>8. ASSUME NEW q \in 1 .. c PROVE B[L[q]] <= b /\ B[L[q]] \in Nat
  <2>1. L[q] \in KeywordsIn(s) /\ L[q] \in 1 .. Len(s)
    <3>1. L = KeywordSpans(s) /\ c = Cardinality(KeywordsIn(s))
      BY DEF Matches
    <3>2. QED
      BY <1>1, <3>1, KeywordsFacts
  <2>2. s[L[q]].kind = "keyword"
    BY <1>1, <2>1 DEF KeywordsInPlace, KeywordsIn, OfKind
  <2>3. L[q] < e
    BY <1>1, <1>5, <2>1, <2>2 DEF KeywordsInPlace
  <2>4. PICK i \in 0 .. n: i = L[q] /\ i < e /\ e \in 1 .. n
    BY <1>1, <1>5, <2>1, <2>3
  <2>5. B[i] <= B[e - 1] /\ B[i] \in Nat
    BY <1>1, <2>4, EndsInOrder
  <2>6. QED
    BY <1>6, <2>4, <2>5
<1>9. PICK h: h = [y \in 1 .. nk |-> b + 2 * y]
  OBVIOUS
<1>10. Rises(h, nk, KeywordsIn(out))
  <2>1. h \in [1 .. nk -> KeywordsIn(out)]
    BY <1>7, <1>9
  <2>2. \A i, j \in 1 .. nk: i < j => h[i] < h[j]
    BY <1>2, <1>9
  <2>3. QED
    BY <2>1, <2>2 DEF Rises
<1>11. QED
  BY <1>5, <1>6, <1>7, <1>8, <1>9, <1>10

(* Keywords, and properties, that are others up to what rendering does.    *)
KeywordsAre(N, kw) ==
  /\ DOMAIN N = DOMAIN kw
  /\ \A i \in DOMAIN kw: /\ N[i].name = kw[i].name
                         /\ N[i].val \in {kw[i].val, KeywordReadBack(kw[i].name, kw[i].val)}
PropertiesAre(Q, pr) ==
  /\ DOMAIN Q = DOMAIN pr
  /\ \A id \in DOMAIN pr: Q[id] \in {pr[id], PropertyReadBack(pr[id])}

(* What is read back are the keywords the closure left. *)
LEMMA KeywordsReadBack ==
  ASSUME Printed, NEW s, NEW after, NEW d, NEW R, NEW n, NEW B, NEW out,
         Rewrites(s, after, d, R, n, B, out)
  PROVE  KeywordsAre(Keywords(out), after.keywords)
<1>1. /\ s \in Seq(Items) /\ Placed(s, R, n, B, out) /\ out \in Seq(Items) /\ after \in Headers
  BY DEF Rewrites, Placed
<1>2. PICK kw \in Seq(Keyword), k \in Nat: kw = after.keywords /\ k = Len(kw)
  BY <1>1 DEF Headers
<1>3. PICK K, c, L, m: Matches(s, after, K, c, L, m)
  BY DEF Matches
<1>4. K = Keywords(s) /\ c = Cardinality(KeywordsIn(s)) /\ L = KeywordSpans(s) /\ m = Matched(K, kw)
  BY <1>2, <1>3 DEF Matches
<1>5. c \in Nat /\ Len(K) = c
  BY <1>1, <1>4, KeywordsFacts
<1>6. MatchesAll(c, m)
  <2>1. Matching(K, c, kw, k, m)
    BY <1>2, <1>4, <1>5, MatchedFacts
  <2>2. QED
    BY <1>2, <1>5, <2>1, MatchedHits
<1>7. PICK M \in Nat: M = m[c]
  BY <1>6 DEF MatchesAll
<1>8. PICK A: A = Additions(s, after)
  OBVIOUS
<1>9. PICK nk, np, ids: Added(s, after, A, M, nk, np, ids)
  <2>1. M = Matched(Keywords(s), after.keywords)[Len(Keywords(s))]
    BY <1>2, <1>4, <1>5, <1>7
  <2>2. QED
    BY <1>1, <1>8, <2>1, AdditionsFacts
<1>10. nk \in Nat /\ k = M + nk
  BY <1>2, <1>9 DEF Added
<1>11. PICK e: e = InsertionPoint(s)[1]
  OBVIOUS
<1>12. PICK S: S = KeywordsIn(out)
  OBVIOUS
<1>13. S \in SUBSET Nat
  BY <1>1, <1>12 DEF KeywordsIn, OfKind
<1>14. PICK g: /\ Rises(g, M, S) /\ MatchedRun(m, c, L, B, M, g)
               /\ \A x \in 1 .. M: Says(out[g[x]], kw[x])
  BY <1>2, <1>3, <1>6, <1>7, <1>12, MatchedRises
<1>15. PICK h: h = [y \in 1 .. nk |-> B[e - 1] + 2 * y]
  OBVIOUS
<1>16. /\ Rises(h, nk, S)
       /\ \A y \in 1 .. nk: Says(out[h[y]], kw[M + y])
       /\ \A x \in 1 .. M: \A y \in 1 .. nk: g[x] < h[y]
  <2>1. CASE nk = 0
    <3>1. \A y \in 1 .. nk: FALSE
      BY <2>1
    <3>2. h \in [1 .. nk -> S]
      BY <1>15, <3>1
    <3>3. QED
      BY <3>1, <3>2 DEF Rises
  <2>2. CASE nk # 0
    <3>1. /\ Rises(h, nk, S)
          /\ \A y \in 1 .. nk: Says(out[B[e - 1] + 2 * y], kw[M + y])
          /\ \A q \in 1 .. c: B[L[q]] <= B[e - 1] /\ B[L[q]] \in Nat
          /\ B[e - 1] \in Nat
      BY <1>2, <1>3, <1>8, <1>9, <1>11, <1>12, <1>15, <2>2, AddedRises
    <3>2. \A y \in 1 .. nk: Says(out[h[y]], kw[M + y])
      BY <1>15, <3>1
    <3>3. ASSUME NEW x \in 1 .. M, NEW y \in 1 .. nk PROVE g[x] < h[y]
      <4>1. PICK q \in 1 .. c: g[x] = B[L[q]]
        BY <1>14 DEF MatchedRun
      <4>2. PICK b \in Nat: b = B[e - 1] /\ h[y] = b + 2 * y
        BY <1>15, <3>1
      <4>3. g[x] <= b /\ g[x] \in Nat
        BY <3>1, <4>1, <4>2
      <4>4. QED
        BY <1>10, <4>2, <4>3
    <3>4. QED
      BY <3>1, <3>2, <3>3
  <2>3. QED
    BY <2>1, <2>2
<1>17. ASSUME NEW p \in S PROVE (\E x \in 1 .. M: g[x] = p) \/ (\E y \in 1 .. nk: h[y] = p)
  <2>1. Origin(m, c, L, B, e, nk, p)
    BY <1>3, <1>8, <1>9, <1>11, <1>12, KeywordOrigin
  <2>2. CASE \E q \in 1 .. c: Hits(m, q) /\ p = B[L[q]]
    <3>1. PICK q \in 1 .. c: Hits(m, q) /\ p = B[L[q]]
      BY <2>2
    <3>2. PICK x \in 1 .. M: x = m[q]
      BY <1>6, <1>7, <3>1 DEF MatchesAll
    <3>3. PICK r \in 1 .. c: Hits(m, r) /\ m[r] = x /\ g[x] = B[L[r]]
      BY <1>14 DEF MatchedRun
    <3>4. r = q
      <4>1. /\ r < q <=> m[r] < m[q]
            /\ q < r <=> m[q] < m[r]
        BY <1>6, <3>1, <3>3 DEF MatchesAll
      <4>2. ~(r < q) /\ ~(q < r)
        BY <3>2, <3>3, <4>1
      <4>3. QED
        BY <4>2
    <3>5. QED
      BY <3>1, <3>3, <3>4
  <2>3. CASE \E y \in 1 .. nk: p = B[e - 1] + 2 * y
    BY <1>15, <2>3
  <2>4. QED
    BY <2>1, <2>2, <2>3 DEF Origin
<1>18. Runs(g, M, h, nk, S)
  BY <1>14, <1>16, <1>17 DEF Runs
<1>19. PICK f: Lists(f, k, S) /\ Joined(f, k, g, M, h, nk)
  BY <1>2, <1>7, <1>10, <1>13, <1>18, TwoRuns
<1>20. ASSUME NEW i \in 1 .. k PROVE Says(out[f[i]], kw[i])
  <2>1. CASE i <= M
    <3>1. i \in 1 .. M
      BY <2>1
    <3>2. QED
      BY <1>14, <1>19, <3>1 DEF Joined
  <2>2. CASE ~(i <= M)
    <3>1. PICK j \in 1 .. nk: i = M + j
      <4>1. i - M \in 1 .. nk /\ i = M + (i - M)
        BY <1>10, <2>2
      <4>2. QED
        BY <4>1
    <3>2. f[i] = h[j] /\ Says(out[h[j]], kw[i])
      BY <1>16, <1>19, <3>1 DEF Joined
    <3>3. QED
      BY <3>2
  <2>3. QED
    BY <2>1, <2>2
<1>21. Cardinality(S) = k /\ f = PositionsInOrder(S)
  BY <1>13, <1>19, OneOrder
<1>22. f = KeywordSpans(out)
  <2>1. KeywordSpans(out) = PositionsInOrder(KeywordsIn(out))
    BY DEF KeywordSpans, At, KeywordsIn, OfKind
  <2>2. QED
    BY <1>12, <1>21, <2>1
<1>23. PICK N: N = Keywords(out)
  OBVIOUS
<1>24. N \in Seq(Keyword) /\ Len(N) = k /\ \A q \in 1 .. k: N[q] = KeywordAt(out, f[q])
  <2>1. out \in Seq(Items) /\ k = Cardinality(KeywordsIn(out))
    BY <1>1, <1>12, <1>21
  <2>2. QED
    BY <1>22, <1>23, <2>1, KeywordsFacts
<1>25. ASSUME NEW q \in 1 .. k
       PROVE  N[q].name = kw[q].name /\ N[q].val \in {kw[q].val, KeywordReadBack(kw[q].name, kw[q].val)}
  <2>1. Says(out[f[q]], kw[q])
    BY <1>20
  <2>2. N[q].name = out[f[q]].id /\ N[q].val = out[f[q]].val
    BY <1>24 DEF KeywordAt
  <2>3. QED
    BY <2>1, <2>2 DEF Says
<1>26. DOMAIN N = 1 .. k /\ DOMAIN kw = 1 .. k
  BY <1>2, <1>24
<1>27. KeywordsAre(N, kw)
  BY <1>25, <1>26 DEF KeywordsAre
<1>28. QED
  BY <1>2, <1>23, <1>27

-------------------------------------------------------------------------------
(* The properties of the result *)

(* A property that is one tag, or a start tag and its end tag. *)
LEMMA TagIsElement ==
  ASSUME NEW t \in Seq(Items), NEW q \in 1 .. Len(t), t[q].kind = "property"
  PROVE  q \in PropertyEnds(t) /\ StartOf(t, q) = q
<1>1. q \in PropertyEnds(t)
  BY DEF PropertyEnds
<1>2. SpanTo(t, q) = <<q, q>>
  BY DEF SpanTo
<1>3. QED
  BY <1>1, <1>2 DEF StartOf

(* A start tag and the end tag that closes it are one element.             *)
LEMMA BodyIsElement ==
  ASSUME NEW t \in Seq(Items), NEW p \in 1 .. Len(t), NEW q \in 1 .. Len(t), Body(t, p, q)
  PROVE  q \in PropertyEnds(t) /\ StartOf(t, q) = p
<1>1. /\ p < q /\ t[p].kind = "propertystart" /\ t[q].kind = "propertyend"
      /\ \A k \in p + 1 .. q - 1: t[k].kind = "text" \/ t[k].kind = "location"
  BY DEF Body
<1>2. p \in OpenProperty(t, q)
  <2>1. p \in 1 .. q - 1
    BY <1>1
  <2>2. \A k \in p + 1 .. q - 1: t[k].kind \notin {"propertystart", "propertyend"}
    <3>1. ASSUME NEW k \in p + 1 .. q - 1 PROVE t[k].kind \notin {"propertystart", "propertyend"}
      <4>1. t[k].kind = "text" \/ t[k].kind = "location"
        BY <1>1
      <4>2. QED
        BY <4>1
    <3>2. QED
      BY <3>1
  <2>3. QED
    BY <1>1, <2>1, <2>2 DEF OpenProperty
<1>3. q \in PropertyEnds(t)
  BY <1>1, <1>2 DEF PropertyEnds
<1>4. StartOf(t, q) \in OpenProperty(t, q)
  <2>1. \/ t[q].kind = "property"
        \/ StartOf(t, q) \in OpenProperty(t, q)
    BY <1>3, SpanFacts
  <2>2. QED
    BY <1>1, <2>1
<1>5. StartOf(t, q) = p
  <2>1. q \in Nat
    OBVIOUS
  <2>2. QED
    BY <1>2, <1>4, <2>1, OneOpen
<1>6. QED
  BY <1>3, <1>5

(* The start tag of an element in place. *)
LEMMA ElementBody ==
  ASSUME NEW s \in Seq(Items), PropertiesInPlace(s), NEW j \in 1 .. Len(s), s[j].kind = "propertyend"
  PROVE  /\ j \in PropertyEnds(s) /\ StartOf(s, j) \in 1 .. Len(s) /\ Body(s, StartOf(s, j), j)
<1>1. PICK i \in 1 .. Len(s): Body(s, i, j)
  BY DEF PropertiesInPlace
<1>2. j \in PropertyEnds(s) /\ StartOf(s, j) = i
  BY <1>1, BodyIsElement
<1>3. QED
  BY <1>1, <1>2

(* An element ends before the next one starts. *)
LEMMA ElementsApart ==
  ASSUME NEW s \in Seq(Items), PropertiesInPlace(s), NEW j \in PropertyEnds(s),
         NEW k \in PropertyEnds(s), j < k
  PROVE  j < StartOf(s, k)
<1>1. PICK i: i = StartOf(s, k)
  OBVIOUS
<1>2. /\ k \in 1 .. Len(s) /\ i \in 1 .. Len(s) /\ i <= k
      /\ \/ s[k].kind = "property" /\ i = k
         \/ s[k].kind = "propertyend" /\ s[i].kind = "propertystart"
  BY <1>1, SpanFacts
<1>3. j \in 1 .. Len(s) /\ s[j].kind \in {"property", "propertyend"}
  BY DEF PropertyEnds
<1>4. ASSUME i <= j PROVE FALSE
  <2>1. j \in StartOf(s, k) .. k
    BY <1>1, <1>2, <1>3, <1>4
  <2>2. \/ j = i
        \/ j = k
        \/ s[j].kind = "text"
        \/ s[j].kind = "location"
    BY <1>1, <2>1, InElement
  <2>3. j = i
    BY <1>3, <2>2
  <2>4. QED
    BY <1>2, <1>3, <2>3
<1>5. QED
  BY <1>1, <1>2, <1>3, <1>4

(* The end of an element goes with the element. *)
LEMMA EndGone ==
  ASSUME NEW s \in Seq(Items), PropertiesInPlace(s), NEW d, NEW R, Cuts(s, d, R),
         NEW j \in PropertyEnds(s), Gone(R, j)
  PROVE  \E r \in R: PropertyChange(s, r) /\ r.last = j /\ r.first = StartOf(s, j)
<1>1. j \in 1 .. Len(s) /\ s[j].kind \in {"property", "propertyend"}
  BY DEF PropertyEnds
<1>2. PICK r \in R:
         \/ KeywordChange(s, r) /\ r.first = j /\ r.last = j
         \/ Relocated(s, d, r) /\ r.first = j /\ r.last = j
         \/ /\ PropertyChange(s, r) /\ r.last \in PropertyEnds(s) /\ r.first = StartOf(s, r.last)
            /\ j \in r.first .. r.last
  BY GoneBy
<1>3. ~(KeywordChange(s, r) /\ r.first = j)
  <2>1. KeywordChange(s, r) => s[r.first].kind \in {"keyword", "keywordstart"}
    BY CutStarts
  <2>2. QED
    BY <1>1, <2>1
<1>4. ~(Relocated(s, d, r) /\ r.first = j)
  <2>1. Relocated(s, d, r) => s[r.first].kind = "location"
    BY CutStarts
  <2>2. QED
    BY <1>1, <2>1
<1>5. PropertyChange(s, r) /\ r.last \in PropertyEnds(s) /\ r.first = StartOf(s, r.last)
      /\ j \in r.first .. r.last
  BY <1>2, <1>3, <1>4
<1>6. PICK k \in PropertyEnds(s): k = r.last
  BY <1>5
<1>7. k \in 1 .. Len(s) /\ StartOf(s, k) \in 1 .. Len(s)
  BY SpanFacts
<1>8. ~(j < k)
  <2>1. j < k => j < StartOf(s, k)
    BY ElementsApart
  <2>2. StartOf(s, k) <= j
    BY <1>1, <1>5, <1>6, <1>7
  <2>3. QED
    BY <1>1, <1>7, <2>1, <2>2
<1>9. j = k
  BY <1>1, <1>5, <1>6, <1>7, <1>8
<1>10. QED
  BY <1>5, <1>6, <1>9

(* Where the element of a property ends, with its value. *)
EndsAt(s, B, out, j, v) ==
  /\ B[StartOf(s, j) - 1] \in Nat /\ B[StartOf(s, j) - 1] < B[j]
  /\ B[j] \in PropertyEnds(out) /\ IdAt(out, B[j]) = IdAt(s, j) /\ ValAt(out, B[j]) = v

(* A property that is not removed is where it was, with the value it was   *)
(* given.                                                                  *)
LEMMA PropertyKept ==
  ASSUME Printed, NEW s, NEW after, NEW d, NEW R, NEW n, NEW B, NEW out,
         Rewrites(s, after, d, R, n, B, out), NEW j \in PropertyEnds(s), ~Gone(R, j)
  PROVE  /\ EndsAt(s, B, out, j, ValAt(s, j))
         /\ ~Gone(R, StartOf(s, j)) /\ StartOf(out, B[j]) = B[StartOf(s, j)]
<1>1. /\ s \in Seq(Items) /\ PropertiesInPlace(s)
      /\ Cuts(s, d, R) /\ Fit(s, R) /\ Placed(s, R, n, B, out) /\ out \in Seq(Items)
      /\ n = Len(s) + 1
  BY DEF Rewrites, Placed
<1>2. PICK i: i = StartOf(s, j)
  OBVIOUS
<1>3. /\ j \in 1 .. Len(s) /\ i \in 1 .. Len(s)
      /\ \/ s[j].kind = "property" /\ i = j
         \/ s[j].kind = "propertyend" /\ i < j
  BY <1>1, <1>2, SpanFacts
<1>4. B[j] \in 1 .. Len(out) /\ out[B[j]] = s[j] /\ B[j - 1] \in Nat /\ B[j - 1] < B[j]
  BY <1>1, <1>3, Kept
<1>5. CASE s[j].kind = "property" /\ i = j
  <2>1. B[j] \in PropertyEnds(out) /\ StartOf(out, B[j]) = B[j]
    BY <1>1, <1>4, <1>5, TagIsElement
  <2>2. IdAt(out, B[j]) = IdAt(s, j) /\ ValAt(out, B[j]) = ValAt(s, j)
    BY <1>2, <1>4, <1>5, <2>1 DEF IdAt, ValAt
  <2>3. QED
    BY <1>2, <1>4, <1>5, <2>1, <2>2 DEF EndsAt
<1>6. CASE s[j].kind = "propertyend" /\ i < j
  <2>1. Body(s, i, j)
    BY <1>1, <1>2, <1>3, <1>6, ElementBody
  <2>2. ~Gone(R, i)
    BY <1>1, <1>3, <2>1, BodyGone
  <2>3. B[i] \in DOMAIN out /\ B[j] \in DOMAIN out /\ Body(out, B[i], B[j])
    BY <1>1, <1>3, <2>1, <2>2, BodyCarried
  <2>4. B[i] \in 1 .. Len(out) /\ B[j] \in 1 .. Len(out)
    BY <1>1, <2>3
  <2>5. B[j] \in PropertyEnds(out) /\ StartOf(out, B[j]) = B[i]
    BY <1>1, <2>3, <2>4, BodyIsElement
  <2>6. out[B[i]] = s[i] /\ B[i - 1] \in Nat /\ B[i - 1] < B[i]
    BY <1>1, <1>3, <2>2, Kept
  <2>7. IdAt(out, B[j]) = IdAt(s, j) /\ ValAt(out, B[j]) = ValAt(s, j)
    BY <1>2, <2>5, <2>6 DEF IdAt, ValAt
  <2>8. B[i - 1] < B[j]
    <3>1. i \in 0 .. n /\ j \in 1 .. n
      BY <1>1, <1>3
    <3>2. B[i] <= B[j - 1] /\ B[i] \in Nat /\ B[j] \in Nat
      BY <1>1, <1>6, <3>1, EndsInOrder
    <3>3. QED
      BY <1>4, <2>6, <3>2
  <2>9. QED
    BY <1>2, <2>2, <2>5, <2>6, <2>7, <2>8 DEF EndsAt
<1>7. QED
  BY <1>3, <1>5, <1>6

(* Where an element is rendered again, one tag stands for it. *)
LEMMA PropertyRendered ==
  ASSUME Printed, NEW s, NEW after, NEW d, NEW R, NEW n, NEW B, NEW out,
         Rewrites(s, after, d, R, n, B, out), NEW j \in PropertyEnds(s), NEW v,
         NEW r \in R, r = Region(StartOf(s, j), j, <<RenderedProperty(IdAt(s, j), v)>>)
  PROVE  EndsAt(s, B, out, j, PropertyReadBack(v))
<1>1. /\ s \in Seq(Items) /\ Fit(s, R) /\ Placed(s, R, n, B, out) /\ out \in Seq(Items)
  BY DEF Rewrites, Placed
<1>2. PICK i, y: i = StartOf(s, j) /\ y = RenderedProperty(IdAt(s, j), v)
  OBVIOUS
<1>3. i \in 1 .. Len(s) /\ j \in 1 .. Len(s) /\ i <= j
  BY <1>1, <1>2, SpanFacts
<1>4. r.first = i /\ r.last = j /\ r.new = <<y>>
  BY <1>2, RegionFields
<1>5. r.first <= r.last /\ j \in r.first .. r.last
  BY <1>3, <1>4
<1>6. B[j] = B[i - 1] + 1 /\ B[j] \in 1 .. Len(out) /\ out[B[j]] = y /\ B[i - 1] \in Nat
  BY <1>1, <1>4, <1>5, Replaced
<1>7. y.kind = "property" /\ y.id = IdAt(s, j) /\ y.val = PropertyReadBack(v)
  BY <1>2, RenderedItems
<1>8. B[j] \in PropertyEnds(out) /\ StartOf(out, B[j]) = B[j]
  BY <1>1, <1>6, <1>7, TagIsElement
<1>9. IdAt(out, B[j]) = IdAt(s, j) /\ ValAt(out, B[j]) = PropertyReadBack(v)
  BY <1>6, <1>7, <1>8 DEF IdAt, ValAt
<1>10. B[i - 1] < B[j]
  BY <1>6
<1>11. QED
  BY <1>2, <1>6, <1>8, <1>9, <1>10 DEF EndsAt

(* An element of the document stays as it is, says the new value, or is    *)
(* gone, as the closure asked of its id.                                   *)
LEMMA PropertyStands ==
  ASSUME Printed, NEW s, NEW after, NEW d, NEW R, NEW n, NEW B, NEW out,
         Rewrites(s, after, d, R, n, B, out), NEW P, P = Properties(s), NEW pr, pr = after.properties,
         NEW j \in PropertyEnds(s), NEW id, id = IdAt(s, j)
  PROVE  /\ id \in DOMAIN pr /\ pr[id] = P[id] => ~Gone(R, j) /\ EndsAt(s, B, out, j, ValAt(s, j))
         /\ id \in DOMAIN pr /\ pr[id] # P[id] => EndsAt(s, B, out, j, PropertyReadBack(pr[id]))
         /\ id \notin DOMAIN pr => Gone(R, j) /\ \A r \in R: r.last = j /\ PropertyChange(s, r) => r.new = << >>
<1>1. /\ s \in Seq(Items) /\ PropertiesInPlace(s) /\ Cuts(s, d, R) /\ Asked(s, after, R)
  BY DEF Rewrites
<1>2. PICK PR: PR = PropertyRegions(s, pr)
  OBVIOUS
<1>3. PR \subseteq R /\ \A r \in R: PropertyChange(s, r) => r \in PR
  BY <1>1, <1>2 DEF Asked
<1>4. /\ \A r \in PR: \E k \in PropertyEnds(s):
              \/ IdAt(s, k) \notin DOMAIN pr /\ r = Region(StartOf(s, k), k, << >>)
              \/ /\ IdAt(s, k) \in DOMAIN pr /\ pr[IdAt(s, k)] # P[IdAt(s, k)]
                 /\ r = Region(StartOf(s, k), k,
                               <<RenderedProperty(IdAt(s, k), pr[IdAt(s, k)])>>)
      /\ \A k \in PropertyEnds(s): IdAt(s, k) \notin DOMAIN pr
              => Region(StartOf(s, k), k, << >>) \in PR
      /\ \A k \in PropertyEnds(s): IdAt(s, k) \in DOMAIN pr /\ pr[IdAt(s, k)] # P[IdAt(s, k)]
              => Region(StartOf(s, k), k,
                        <<RenderedProperty(IdAt(s, k), pr[IdAt(s, k)])>>) \in PR
  BY <1>1, <1>2, PropertyRegionsFacts
<1>5. ASSUME NEW r \in R, r.last = j, PropertyChange(s, r)
      PROVE  \/ id \notin DOMAIN pr /\ r.new = << >>
             \/ id \in DOMAIN pr /\ pr[id] # P[id]
  <2>1. r \in PR
    BY <1>3, <1>5
  <2>2. PICK k \in PropertyEnds(s):
              \/ IdAt(s, k) \notin DOMAIN pr /\ r = Region(StartOf(s, k), k, << >>)
              \/ /\ IdAt(s, k) \in DOMAIN pr /\ pr[IdAt(s, k)] # P[IdAt(s, k)]
                 /\ r = Region(StartOf(s, k), k,
                               <<RenderedProperty(IdAt(s, k), pr[IdAt(s, k)])>>)
    BY <1>4, <2>1
  <2>3. k = j
    BY <1>5, <2>2, RegionFields
  <2>4. QED
    BY <2>2, <2>3, RegionFields
<1>6. ASSUME id \in DOMAIN pr, pr[id] = P[id]
      PROVE  ~Gone(R, j) /\ EndsAt(s, B, out, j, ValAt(s, j))
  <2>1. ~Gone(R, j)
    <3>1. ASSUME Gone(R, j) PROVE FALSE
      <4>1. PICK r \in R: PropertyChange(s, r) /\ r.last = j
        BY <1>1, <3>1, EndGone
      <4>2. QED
        BY <1>5, <1>6, <4>1
    <3>2. QED
      BY <3>1
  <2>2. QED
    BY <2>1, PropertyKept
<1>7. ASSUME id \in DOMAIN pr, pr[id] # P[id] PROVE EndsAt(s, B, out, j, PropertyReadBack(pr[id]))
  <2>1. PICK r \in R: r = Region(StartOf(s, j), j, <<RenderedProperty(IdAt(s, j), pr[id])>>)
    BY <1>3, <1>4, <1>7
  <2>2. QED
    BY <2>1, PropertyRendered
<1>8. ASSUME id \notin DOMAIN pr
      PROVE  Gone(R, j) /\ \A r \in R: r.last = j /\ PropertyChange(s, r) => r.new = << >>
  <2>1. PICK r \in R: r = Region(StartOf(s, j), j, << >>)
    BY <1>3, <1>4, <1>8
  <2>2. r.first = StartOf(s, j) /\ r.last = j
    BY <2>1, RegionFields
  <2>3. j \in 1 .. Len(s) /\ StartOf(s, j) \in 1 .. Len(s) /\ StartOf(s, j) <= j
    BY <1>1, SpanFacts
  <2>4. j \in r.first .. r.last
    BY <2>2, <2>3
  <2>5. Gone(R, j)
    BY <2>4 DEF Gone
  <2>6. QED
    BY <1>5, <1>8, <2>5
<1>9. QED
  BY <1>6, <1>7, <1>8

(* Elements that stay end in the order they had. *)
LEMMA EndsRise ==
  ASSUME NEW s, NEW after, NEW d, NEW R, NEW n, NEW B, NEW out,
         Rewrites(s, after, d, R, n, B, out), NEW j \in PropertyEnds(s), NEW k \in PropertyEnds(s), j < k,
         NEW v, EndsAt(s, B, out, k, v)
  PROVE  B[j] < B[k] /\ B[j] \in Nat /\ B[k] \in Nat
<1>1. /\ s \in Seq(Items) /\ PropertiesInPlace(s) /\ Placed(s, R, n, B, out) /\ n = Len(s) + 1
  BY DEF Rewrites, Placed
<1>2. PICK i: i = StartOf(s, k)
  OBVIOUS
<1>3. i \in 1 .. Len(s) /\ j \in 1 .. Len(s) /\ k \in 1 .. Len(s)
  BY <1>1, <1>2, SpanFacts
<1>4. j < i
  BY <1>1, <1>2, ElementsApart
<1>5. j \in 0 .. n /\ i \in 1 .. n /\ k \in 0 .. n
  BY <1>1, <1>3
<1>6. B[j] <= B[i - 1] /\ B[j] \in Nat
  BY <1>1, <1>4, <1>5, EndsInOrder
<1>7. B[i - 1] \in Nat /\ B[i - 1] < B[k]
  BY <1>2 DEF EndsAt
<1>8. B[k] \in Nat
  BY <1>1, <1>5 DEF Placed
<1>9. QED
  BY <1>6, <1>7, <1>8

(* A property of the result was there and is asked for, or is new.         *)
NewProperty(out, pr, np, ids, p) ==
  \E y \in 1 .. np: IdAt(out, p) = ids[y] /\ ValAt(out, p) = PropertyReadBack(pr[ids[y]])

(* There is no other element in the result.                                *)
LEMMA EndOrigin ==
  ASSUME Printed, NEW s, NEW after, NEW d, NEW R, NEW n, NEW B, NEW out,
         Rewrites(s, after, d, R, n, B, out), NEW pr, pr = after.properties,
         NEW A, A = Additions(s, after),
         NEW M, NEW nk, NEW np, NEW ids, Added(s, after, A, M, nk, np, ids),
         NEW p \in PropertyEnds(out)
  PROVE  \/ \E j \in PropertyEnds(s): IdAt(s, j) \in DOMAIN pr /\ p = B[j]
         \/ NewProperty(out, pr, np, ids, p)
<1>1. /\ s \in Seq(Items) /\ PropertiesInPlace(s)
      /\ Cuts(s, d, R) /\ Fit(s, R) /\ Asked(s, after, R) /\ Placed(s, R, n, B, out)
      /\ out \in Seq(Items)
  BY DEF Rewrites, Placed
<1>2. p \in 1 .. Len(out) /\ out[p].kind \in {"property", "propertyend"}
  BY <1>1 DEF PropertyEnds
<1>3. CASE \E i \in 1 .. Len(s): ~Gone(R, i) /\ p = B[i] /\ out[p] = s[i]
  <2>1. PICK i \in 1 .. Len(s): ~Gone(R, i) /\ p = B[i] /\ out[p] = s[i]
    BY <1>3
  <2>2. i \in PropertyEnds(s)
    <3>1. CASE s[i].kind = "property"
      BY <1>1, <3>1, TagIsElement
    <3>2. CASE s[i].kind = "propertyend"
      BY <1>1, <3>2, ElementBody
    <3>3. QED
      BY <1>2, <2>1, <3>1, <3>2
  <2>3. IdAt(s, i) \in DOMAIN pr
    BY <2>1, <2>2, PropertyStands
  <2>4. QED
    BY <2>1, <2>2, <2>3
<1>4. CASE \E r \in R: \E k \in 1 .. Len(r.new):
              /\ p = B[r.first - 1] + k /\ out[p] = r.new[k]
              /\ NewAt(R, r.first) = r.new /\ r.first \in 1 .. n
              /\ \/ KeywordChange(s, r) \/ PropertyChange(s, r)
                 \/ Insertion(s, r) \/ Relocated(s, d, r)
              /\ r.new[k].kind \in {"text", "keyword", "property", "location"}
              /\ r.new[k].kind = "location" => Relocated(s, d, r) /\ r.new[k] = Moved(s[r.first], d)
  <2>1. PICK r \in R: \E k \in 1 .. Len(r.new):
              /\ p = B[r.first - 1] + k /\ out[p] = r.new[k]
              /\ NewAt(R, r.first) = r.new /\ r.first \in 1 .. n
              /\ \/ KeywordChange(s, r) \/ PropertyChange(s, r)
                 \/ Insertion(s, r) \/ Relocated(s, d, r)
              /\ r.new[k].kind \in {"text", "keyword", "property", "location"}
    BY <1>4
  <2>2. PICK k \in 1 .. Len(r.new):
              /\ p = B[r.first - 1] + k /\ out[p] = r.new[k]
              /\ r.new[k].kind \in {"text", "keyword", "property", "location"}
    BY <2>1
  <2>3. out[p].kind = "property"
    BY <1>2, <2>2
  <2>4. PropertyChange(s, r) \/ Insertion(s, r)
    <3>1. r.new[k].kind \notin {"keyword", "location"}
      BY <2>2, <2>3
    <3>2. QED
      BY <2>1, <3>1, WritesOf, ZenonT(30)
  <2>5. CASE PropertyChange(s, r)
    <3>1. PICK j \in PropertyEnds(s): r.first = StartOf(s, j) /\ r.last = j
      BY <2>5 DEF PropertyChange
    <3>2. Len(r.new) = 1 /\ k = 1
      BY <2>5, WritesOf
    <3>3. IdAt(s, j) \in DOMAIN pr
      <4>1. ASSUME IdAt(s, j) \notin DOMAIN pr PROVE FALSE
        <5>1. r.new = << >>
          BY <2>5, <3>1, <4>1, PropertyStands
        <5>2. Len(<< >>) = 0
          OBVIOUS
        <5>3. QED
          BY <3>2, <5>1, <5>2
      <4>2. QED
        BY <4>1
    <3>4. r.first <= r.last /\ j \in r.first .. r.last
      <4>1. StartOf(s, j) \in 1 .. Len(s) /\ j \in 1 .. Len(s) /\ StartOf(s, j) <= j
        BY <1>1, SpanFacts
      <4>2. QED
        BY <3>1, <4>1
    <3>5. B[j] = B[r.first - 1] + Len(r.new)
      BY <1>1, <3>4, StretchEnds
    <3>6. p = B[j]
      BY <2>2, <3>2, <3>5
    <3>7. QED
      BY <3>3, <3>6
  <2>6. CASE Insertion(s, r)
    <3>1. r.new = A
      BY <1>1, <2>6 DEF Asked
    <3>2. AddedAt(A, after, M, nk, np, ids, k)
      BY <3>1, AddedByPosition
    <3>3. A[k].kind = "property"
      BY <2>2, <2>3, <3>1
    <3>4. A[k] # Indent
      BY <3>3, IndentItem
    <3>5. \A kw: A[k] # RenderedKeyword(kw)
      BY <3>3, RenderedItems
    <3>6. PICK y \in 1 .. np: A[k] = RenderedProperty(ids[y], pr[ids[y]])
      BY <3>2, <3>4, <3>5 DEF AddedAt
    <3>7. out[p].id = ids[y] /\ out[p].val = PropertyReadBack(pr[ids[y]])
      BY <2>2, <3>1, <3>6, RenderedItems
    <3>8. StartOf(out, p) = p
      BY <1>1, <1>2, <2>3, TagIsElement
    <3>9. QED
      BY <3>7, <3>8 DEF NewProperty, IdAt, ValAt
  <2>7. QED
    BY <2>4, <2>5, <2>6
<1>5. \/ \E i \in 1 .. Len(s): ~Gone(R, i) /\ p = B[i] /\ out[p] = s[i]
      \/ \E r \in R: \E k \in 1 .. Len(r.new):
              /\ p = B[r.first - 1] + k /\ out[p] = r.new[k]
              /\ NewAt(R, r.first) = r.new /\ r.first \in 1 .. n
              /\ \/ KeywordChange(s, r) \/ PropertyChange(s, r)
                 \/ Insertion(s, r) \/ Relocated(s, d, r)
              /\ r.new[k].kind \in {"text", "keyword", "property", "location"}
              /\ r.new[k].kind = "location" => Relocated(s, d, r) /\ r.new[k] = Moved(s[r.first], d)
  <2>1. /\ s \in Seq(Items) /\ Cuts(s, d, R) /\ Fit(s, R) /\ Placed(s, R, n, B, out)
        /\ p \in 1 .. Len(out)
    BY <1>1, <1>2
  <2>2. QED
    BY <2>1, WhereFrom
<1>6. QED
  BY <1>3, <1>4, <1>5

(* Every new property is there. *)
LEMMA AddedEnds ==
  ASSUME Printed, NEW s, NEW after, NEW d, NEW R, NEW n, NEW B, NEW out,
         Rewrites(s, after, d, R, n, B, out),
         NEW A, A = Additions(s, after),
         NEW M, NEW nk, NEW np, NEW ids, Added(s, after, A, M, nk, np, ids), NEW y \in 1 .. np
  PROVE  \E p \in PropertyEnds(out): IdAt(out, p) = ids[y]
<1>1. out \in Seq(Items)
  BY DEF Rewrites, Placed
<1>2. PICK e: e = InsertionPoint(s)[1]
  OBVIOUS
<1>3. PICK k \in 1 .. Len(A): A[k] = RenderedProperty(ids[y], after.properties[ids[y]])
  <2>1. nk \in Nat /\ np \in Nat /\ Len(A) = 2 * nk + 2 * np
        /\ A[2 * nk + 2 * y] = RenderedProperty(ids[y], after.properties[ids[y]])
    BY DEF Added
  <2>2. 2 * nk + 2 * y \in 1 .. Len(A)
    BY <2>1
  <2>3. QED
    BY <2>1, <2>2
<1>4. A # << >>
  <2>1. Len(<< >>) = 0
    OBVIOUS
  <2>2. A = << >> => k \in 1 .. 0
    BY <2>1
  <2>3. QED
    BY <2>2
<1>5. Inserts(s, n, B, out, e, A)
  BY <1>2, <1>4, InsertsAll
<1>6. PICK p \in 1 .. Len(out): out[p] = A[k]
  BY <1>5 DEF Inserts
<1>7. out[p].kind = "property" /\ out[p].id = ids[y]
  BY <1>3, <1>6, ItemFields DEF RenderedProperty
<1>8. p \in PropertyEnds(out) /\ StartOf(out, p) = p
  BY <1>1, <1>7, TagIsElement
<1>9. QED
  BY <1>7, <1>8 DEF IdAt

(* What is read back are the properties the closure left. *)
LEMMA PropertiesReadBack ==
  ASSUME Printed, NEW s, NEW after, NEW d, NEW R, NEW n, NEW B, NEW out,
         Rewrites(s, after, d, R, n, B, out)
  PROVE  PropertiesAre(Properties(out), after.properties)
<1>1. /\ s \in Seq(Items) /\ Placed(s, R, n, B, out) /\ out \in Seq(Items) /\ after \in Headers
  BY DEF Rewrites, Placed
<1>2. PICK pr, P, Q: pr = after.properties /\ P = Properties(s) /\ Q = Properties(out)
  OBVIOUS
<1>4. PICK A: A = Additions(s, after)
  OBVIOUS
<1>5. PICK M, nk, np, ids: Added(s, after, A, M, nk, np, ids)
  BY <1>1, <1>4, AdditionsFacts
<1>6. /\ \A y \in 1 .. np: ids[y] \in DOMAIN pr /\ ids[y] \notin DOMAIN P
      /\ \A id: id \in DOMAIN pr /\ id \notin DOMAIN P => \E y \in 1 .. np: ids[y] = id
  BY <1>2, <1>5 DEF Added
<1>7. /\ \A id: id \in DOMAIN P <=> \E j \in PropertyEnds(s): IdAt(s, j) = id
      /\ \A j \in PropertyEnds(s):
              (\A k \in PropertyEnds(s): IdAt(s, k) = IdAt(s, j) => k <= j)
                => P[IdAt(s, j)] = ValAt(s, j)
  BY <1>1, <1>2, PropertiesFacts
<1>8. /\ \A id: id \in DOMAIN Q <=> \E j \in PropertyEnds(out): IdAt(out, j) = id
      /\ \A j \in PropertyEnds(out):
              (\A k \in PropertyEnds(out): IdAt(out, k) = IdAt(out, j) => k <= j)
                => Q[IdAt(out, j)] = ValAt(out, j)
  BY <1>1, <1>2, PropertiesFacts
<1>9. ASSUME NEW j \in PropertyEnds(s), IdAt(s, j) \in DOMAIN pr
      PROVE  \E v: /\ EndsAt(s, B, out, j, v)
                   /\ \/ v = ValAt(s, j) /\ pr[IdAt(s, j)] = P[IdAt(s, j)]
                      \/ v = PropertyReadBack(pr[IdAt(s, j)])
  BY <1>2, <1>9, PropertyStands
<1>10. ASSUME NEW p \in PropertyEnds(out)
       PROVE  \/ \E j \in PropertyEnds(s): IdAt(s, j) \in DOMAIN pr /\ p = B[j]
              \/ NewProperty(out, pr, np, ids, p)
  BY <1>2, <1>4, <1>5, EndOrigin
<1>11. \A id: id \in DOMAIN Q <=> id \in DOMAIN pr
  <2>1. ASSUME NEW id \in DOMAIN Q PROVE id \in DOMAIN pr
    <3>1. PICK p \in PropertyEnds(out): IdAt(out, p) = id
      BY <1>8
    <3>2. CASE \E j \in PropertyEnds(s): IdAt(s, j) \in DOMAIN pr /\ p = B[j]
      <4>1. PICK j \in PropertyEnds(s): IdAt(s, j) \in DOMAIN pr /\ p = B[j]
        BY <3>2
      <4>2. PICK v: EndsAt(s, B, out, j, v)
        BY <1>9, <4>1
      <4>3. QED
        BY <3>1, <4>1, <4>2 DEF EndsAt
    <3>3. CASE NewProperty(out, pr, np, ids, p)
      BY <1>6, <3>1, <3>3 DEF NewProperty
    <3>4. QED
      BY <1>10, <3>2, <3>3
  <2>2. ASSUME NEW id \in DOMAIN pr PROVE id \in DOMAIN Q
    <3>1. CASE id \in DOMAIN P
      <4>1. PICK j \in PropertyEnds(s): IdAt(s, j) = id
        BY <1>7, <3>1
      <4>2. PICK v: EndsAt(s, B, out, j, v)
        BY <1>9, <4>1
      <4>3. B[j] \in PropertyEnds(out) /\ IdAt(out, B[j]) = id
        BY <4>1, <4>2 DEF EndsAt
      <4>4. QED
        BY <1>8, <4>3
    <3>2. CASE id \notin DOMAIN P
      <4>1. PICK y \in 1 .. np: ids[y] = id
        BY <1>6, <3>2
      <4>2. PICK p \in PropertyEnds(out): IdAt(out, p) = id
        BY <1>4, <1>5, <4>1, AddedEnds
      <4>3. QED
        BY <1>8, <4>2
    <3>3. QED
      BY <3>1, <3>2
  <2>3. QED
    BY <2>1, <2>2
<1>12. ASSUME NEW id \in DOMAIN pr PROVE Q[id] \in {pr[id], PropertyReadBack(pr[id])}
  <2>1. PICK T: T = {q \in PropertyEnds(out): IdAt(out, q) = id}
    OBVIOUS
  <2>2. PICK l \in Nat: l = Len(out)
    BY <1>1
  <2>3. PropertyEnds(out) \subseteq 1 .. l
    BY <1>1, <2>2 DEF PropertyEnds
  <2>4. T \in SUBSET Nat /\ \A t \in T: t <= l
    BY <2>1, <2>3
  <2>5. T # {}
    <3>1. \E q \in PropertyEnds(out): IdAt(out, q) = id
      BY <1>8, <1>11
    <3>2. QED
      BY <2>1, <3>1
  <2>6. PICK p \in T: \A t \in T: t <= p
    BY <2>2, <2>4, <2>5, LastExists
  <2>7. p \in PropertyEnds(out) /\ IdAt(out, p) = id
    BY <2>1, <2>6
  <2>8. Q[id] = ValAt(out, p)
    <3>1. \A k \in PropertyEnds(out): IdAt(out, k) = IdAt(out, p) => k <= p
      BY <2>1, <2>6, <2>7
    <3>2. QED
      BY <1>8, <2>7, <3>1
  <2>9. CASE \E j \in PropertyEnds(s): IdAt(s, j) \in DOMAIN pr /\ p = B[j]
    <3>1. PICK j \in PropertyEnds(s): IdAt(s, j) \in DOMAIN pr /\ p = B[j]
      BY <2>9
    <3>2. PICK v: /\ EndsAt(s, B, out, j, v)
                  /\ \/ v = ValAt(s, j) /\ pr[IdAt(s, j)] = P[IdAt(s, j)]
                     \/ v = PropertyReadBack(pr[IdAt(s, j)])
      BY <1>9, <3>1
    <3>3. IdAt(s, j) = id /\ ValAt(out, p) = v
      BY <2>7, <3>1, <3>2 DEF EndsAt
    <3>4. ASSUME NEW k \in PropertyEnds(s), IdAt(s, k) = id PROVE k <= j
      <4>1. PICK w: EndsAt(s, B, out, k, w)
        BY <1>9, <3>4
      <4>2. B[k] \in T
        BY <2>1, <3>4, <4>1 DEF EndsAt
      <4>3. B[k] <= B[j]
        BY <2>6, <3>1, <4>2
      <4>4. ~(j < k)
        <5>1. j < k => B[j] < B[k] /\ B[j] \in Nat /\ B[k] \in Nat
          BY <4>1, EndsRise
        <5>2. QED
          BY <4>3, <5>1
      <4>5. j \in 1 .. Len(s) /\ k \in 1 .. Len(s)
        BY <1>1, SpanFacts
      <4>6. QED
        BY <4>4, <4>5
    <3>5. P[id] = ValAt(s, j)
      BY <1>7, <3>3, <3>4
    <3>6. QED
      BY <2>8, <3>2, <3>3, <3>5
  <2>10. CASE NewProperty(out, pr, np, ids, p)
    BY <2>7, <2>8, <2>10 DEF NewProperty
  <2>11. QED
    BY <1>10, <2>7, <2>9, <2>10
<1>13. DOMAIN Q = DOMAIN pr
  BY <1>11
<1>14. PropertiesAre(Q, pr)
  BY <1>12, <1>13 DEF PropertiesAre
<1>15. QED
  BY <1>2, <1>14

(* What an update of a document in place writes. *)
LEMMA UpdateInPlace ==
  ASSUME Printed, UpdateInvariant, Update, updates' # updates
  PROVE  \E s, after, d, R, n, B, out:
           /\ s = items /\ after = goal' /\ out = items' /\ updates' = updates + 1
           /\ Rewrites(s, after, d, R, n, B, out) /\ WellFormed(s)
<1>1. TypeInvariant /\ ItemsInPlace
  BY DEF UpdateInvariant
<1>2. PICK after, C, delta, d, R:
        /\ after \in Headers /\ Supported(after) /\ R = Regions(after)
        /\ C = ContentRegions(items, after)
        /\ delta = DeltaOf(items, C) /\ Does(items, C, delta, d, R)
        /\ items' = Splice(items, R) /\ goal' = after /\ updates' = updates + 1
  BY <1>1, WritesASplice
<1>3. Readable(items) /\ ImageIsSupported(items)
  BY <1>1, Writes
<1>4. PICK s \in Seq(Items): s = items
  BY <1>1 DEF TypeInvariant
<1>5. PropertiesInPlace(s) /\ KeywordsInPlace(s) /\ WellFormed(s)
  BY <1>1, <1>3, <1>4 DEF ItemsInPlace, Readable
<1>6. Fit(s, R) /\ Cuts(s, d, R)
  BY <1>2, <1>4 DEF Does
<1>7. PICK n, out: n = Len(s) + 1 /\ out = items'
  OBVIOUS
<1>8. PICK B: Placed(s, R, n, B, out)
  BY <1>2, <1>4, <1>6, <1>7, SplicePlaced
<1>9. Additions(s, after) # << >> => InsertionPoint(s) # << >>
  BY <1>2, <1>4 DEF Supported, NeedsChildren
<1>10. Asked(s, after, R)
  BY <1>2, <1>4, <1>9, RegionsByKind
<1>11. Rewrites(s, after, d, R, n, B, out)
  BY <1>2, <1>5, <1>6, <1>8, <1>9, <1>10 DEF Rewrites
<1>12. QED
  BY <1>2, <1>4, <1>5, <1>7, <1>11

(* A header that is another up to rendering, with values that rendering    *)
(* leaves alone, is that other.                                            *)
LEMMA StorableIsSame ==
  ASSUME NEW h \in Headers, NEW g \in Headers, ReadsBack(h, g), IsStorable(g)
  PROVE  h = g
<1>1. PICK N \in Seq(Keyword), kw \in Seq(Keyword): N = h.keywords /\ kw = g.keywords
  BY DEF Headers
<1>2. PICK Q, pr: /\ Q = h.properties /\ pr = g.properties
                  /\ Q = [id \in DOMAIN Q |-> Q[id]] /\ pr = [id \in DOMAIN pr |-> pr[id]]
  BY DEF Headers
<1>3. DOMAIN N = DOMAIN kw
  BY <1>1 DEF ReadsBack
<1>4. ASSUME NEW i \in DOMAIN kw PROVE N[i] = kw[i]
  <2>1. N[i].name = kw[i].name /\ N[i].val \in {kw[i].val, KeywordReadBack(kw[i].name, kw[i].val)}
    BY <1>1 DEF ReadsBack
  <2>2. KeywordReadBack(kw[i].name, kw[i].val) = kw[i].val
    BY <1>1 DEF IsStorable
  <2>3. N[i] \in Keyword /\ kw[i] \in Keyword
    BY <1>1, <1>3
  <2>4. QED
    BY <2>1, <2>2, <2>3 DEF Keyword
<1>5. N = kw
  BY <1>1, <1>3, <1>4
<1>6. DOMAIN Q = DOMAIN pr
  BY <1>2 DEF ReadsBack
<1>7. ASSUME NEW id \in DOMAIN pr PROVE Q[id] = pr[id]
  BY <1>2 DEF ReadsBack, IsStorable
<1>8. Q = pr
  BY <1>2, <1>6, <1>7
<1>9. /\ h = [keywords |-> h.keywords, properties |-> h.properties]
      /\ g = [keywords |-> g.keywords, properties |-> g.properties]
  BY DEF Headers
<1>10. QED
  BY <1>1, <1>2, <1>5, <1>8, <1>9

(* Reading back the result of an update gives the header it was asked for, *)
(* as far as rendering does.                                               *)
LEMMA RoundTripStep ==
  ASSUME Printed, UpdateInvariant, RoundTrip, [Next]_vars
  PROVE  RoundTrip'
<1>1. CASE Update /\ updates' # updates
  <2>1. PICK s, after, d, R, n, B, out:
           /\ s = items /\ after = goal' /\ out = items'
           /\ Rewrites(s, after, d, R, n, B, out) /\ WellFormed(s)
    BY <1>1, UpdateInPlace
  <2>2. /\ s \in Seq(Items) /\ PropertiesInPlace(s) /\ KeywordsInPlace(s) /\ after \in Headers
        /\ Cuts(s, d, R) /\ Fit(s, R) /\ Placed(s, R, n, B, out)
    BY <2>1 DEF Rewrites
  <2>3. WellFormed(out)
    BY <2>1, <2>2, StaysWellFormed
  <2>4. KeywordsAre(Keywords(out), after.keywords)
    BY <2>1, KeywordsReadBack
  <2>5. PropertiesAre(Properties(out), after.properties)
    BY <2>1, PropertiesReadBack
  <2>6. Header(out).keywords = Keywords(out) /\ Header(out).properties = Properties(out)
    BY DEF Header
  <2>7. ReadsBack(Header(out), after)
    BY <2>4, <2>5, <2>6 DEF KeywordsAre, PropertiesAre, ReadsBack
  <2>8. QED
    BY <2>1, <2>3, <2>7 DEF RoundTrip
<1>2. CASE UNCHANGED <<items, updates, goal>>
  <2>1. WellFormed(items') = WellFormed(items) /\ Header(items') = Header(items)
    BY <1>2
  <2>2. QED
    BY <1>2, <2>1 DEF RoundTrip
<1>3. Update /\ updates' = updates => UNCHANGED <<items, updates, goal>>
  <2>1. updates \in Nat
    BY DEF UpdateInvariant, TypeInvariant
  <2>2. ASSUME NEW after, Write(after), updates' = updates PROVE FALSE
    BY <2>1, <2>2 DEF Write
  <2>3. QED
    BY <2>2 DEF Update, Refuse
<1>4. QED
  BY <1>1, <1>2, <1>3 DEF Next, vars

(* What the crate has written it reads back with the names, order,         *)
(* duplicates and ids of the header the closure left, and with its values  *)
(* or what rendering made of them (update_file).                           *)
THEOREM RoundTripTheorem ==
  Printed /\ DocumentsInPlace => (Spec => []RoundTrip)
<1> SUFFICES ASSUME Printed, DocumentsInPlace PROVE Spec => []RoundTrip
  OBVIOUS
<1>1. Init => UpdateInvariant /\ RoundTrip
  <2>1. Init => RoundTrip
    BY DEF Init, RoundTrip
  <2>2. QED
    BY <2>1, InvariantInit
<1>2. UpdateInvariant /\ RoundTrip /\ [Next]_vars => UpdateInvariant' /\ RoundTrip'
  BY InvariantStep, RoundTripStep
<1>3. QED
  BY <1>1, <1>2, PTL DEF Spec

(* What a closure leaves is a header like any other. *)
GoalInvariant == UpdateInvariant /\ RoundTrip /\ goal \in Headers

(* It stays one. *)
LEMMA GoalStep ==
  ASSUME Printed, GoalInvariant, [Next]_vars
  PROVE  GoalInvariant'
<1>1. TypeInvariant /\ UpdateInvariant /\ RoundTrip
  BY DEF GoalInvariant, UpdateInvariant
<1>2. UpdateInvariant' /\ RoundTrip'
  BY <1>1, InvariantStep, RoundTripStep
<1>3. goal' \in Headers
  <2>1. CASE Update /\ updates' # updates
    BY <1>1, <2>1, WritesASplice
  <2>2. CASE Update /\ updates' = updates
    <3>1. ASSUME NEW after, Write(after) PROVE FALSE
      BY <1>1, <2>2, <3>1 DEF Write, TypeInvariant
    <3>2. goal' = goal
      BY <2>2, <3>1 DEF Update, Refuse
    <3>3. QED
      BY <3>2 DEF GoalInvariant
  <2>3. CASE UNCHANGED vars
    BY <2>3 DEF vars, GoalInvariant
  <2>4. QED
    BY <2>1, <2>2, <2>3 DEF Next
<1>4. QED
  BY <1>2, <1>3 DEF GoalInvariant

(* A header of values that elements can hold is read back exactly as the   *)
(* closure left it.                                                        *)
THEOREM StorableRoundTripTheorem ==
  Printed /\ DocumentsInPlace => (Spec => []StorableRoundTrip)
<1> SUFFICES ASSUME Printed, DocumentsInPlace PROVE Spec => []StorableRoundTrip
  OBVIOUS
<1>1. Init => GoalInvariant
  <2>1. Init => RoundTrip
    BY DEF Init, RoundTrip
  <2>2. Init => goal \in Headers
    BY TypeInit, HeaderTyped DEF Init, TypeInvariant
  <2>3. QED
    BY <2>1, <2>2, InvariantInit DEF GoalInvariant
<1>2. GoalInvariant /\ [Next]_vars => GoalInvariant'
  BY GoalStep
<1>3. GoalInvariant => StorableRoundTrip
  <2>1. GoalInvariant => Header(items) \in Headers
    BY HeaderTyped DEF GoalInvariant, UpdateInvariant, TypeInvariant
  <2>2. QED
    BY <2>1, StorableIsSame DEF GoalInvariant, RoundTrip, StorableRoundTrip
<1>4. QED
  BY <1>1, <1>2, <1>3, PTL DEF Spec

-------------------------------------------------------------------------------
(* What nobody asked to change *)

(* What lies in other elements, position by position. *)
LEMMA InsideOthersFacts ==
  ASSUME NEW s \in Seq(Items), NEW ids, NEW i
  PROVE  i \in InsideOthers(s, ids)
           <=> \E j \in PropertyEnds(s): IdAt(s, j) \notin ids /\ i \in StartOf(s, j) .. j
<1>1. PICK E, l: E = PropertyEnds(s) /\ l = Len(s)
  OBVIOUS
<1>2. l \in Nat /\ E \subseteq 1 .. l
  BY <1>1 DEF PropertyEnds
<1>3. PICK f, c: f = PositionsInOrder(E) /\ c = Cardinality(E)
  OBVIOUS
<1>4. DOMAIN f = 1 .. c /\ (\A k \in 1 .. c: f[k] \in E) /\ \A j \in E: \E k \in 1 .. c: f[k] = j
  BY <1>2, <1>3, PositionsListed, ZenonT(30)
<1>5. PICK S: S = PropertySpans(s)
  OBVIOUS
<1>6. S = [k \in 1 .. c |-> SpanTo(s, f[k])]
  BY <1>1, <1>3, <1>4, <1>5 DEF PropertySpans
<1>7. \A j \in E: SpanTo(s, j)[1] = StartOf(s, j) /\ SpanTo(s, j)[2] = j
  <2>1. \A j \in E: SpanTo(s, j)[2] = j
    BY <1>1, SpanFacts
  <2>2. QED
    BY <2>1 DEF StartOf
<1>8. \A q: q \in Range(S) <=> \E j \in E: q = SpanTo(s, j)
  <2>1. ASSUME NEW q \in Range(S) PROVE \E j \in E: q = SpanTo(s, j)
    BY <1>4, <1>6 DEF Range
  <2>2. ASSUME NEW j \in E PROVE SpanTo(s, j) \in Range(S)
    BY <1>4, <1>6 DEF Range
  <2>3. QED
    BY <2>1, <2>2
<1>9. i \in InsideOthers(s, ids)
        <=> \E q \in Range(S): s[q[1]].id \notin ids /\ i \in q[1] .. q[2]
  BY <1>5 DEF InsideOthers
<1>10. ASSUME NEW q \in Range(S), s[q[1]].id \notin ids, i \in q[1] .. q[2]
       PROVE  \E j \in E: IdAt(s, j) \notin ids /\ i \in StartOf(s, j) .. j
  <2>1. PICK j \in E: q = SpanTo(s, j)
    BY <1>8
  <2>2. QED
    BY <1>7, <1>10, <2>1 DEF IdAt
<1>11. ASSUME NEW j \in E, IdAt(s, j) \notin ids, i \in StartOf(s, j) .. j
       PROVE  \E q \in Range(S): s[q[1]].id \notin ids /\ i \in q[1] .. q[2]
  BY <1>7, <1>8, <1>11 DEF IdAt
<1>12. QED
  BY <1>1, <1>9, <1>10, <1>11

(* Items that stay, stay in order. *)
LEMMA KeptRise ==
  ASSUME NEW s \in Seq(Items), NEW R, Fit(s, R), NEW n, NEW B, NEW out, Placed(s, R, n, B, out),
         NEW i \in 1 .. Len(s), NEW k \in 1 .. Len(s), ~Gone(R, i), ~Gone(R, k)
  PROVE  i < k <=> B[i] < B[k]
<1>1. ASSUME NEW x \in 1 .. Len(s), NEW y \in 1 .. Len(s), ~Gone(R, x), ~Gone(R, y), x < y
      PROVE  B[x] < B[y]
  <2>1. n = Len(s) + 1
    BY DEF Placed
  <2>2. x \in 0 .. n /\ y \in 1 .. n
    BY <2>1
  <2>3. B[x] <= B[y - 1] /\ B[x] \in Nat
    BY <1>1, <2>2, EndsInOrder
  <2>4. B[y - 1] \in Nat /\ B[y - 1] < B[y] /\ B[y] \in 1 .. Len(out)
    BY <1>1, Kept
  <2>5. B[y] \in Int
    BY <2>4
  <2>6. QED
    BY <2>3, <2>4, <2>5
<1>2. B[i] \in Int /\ B[k] \in Int
  <2>1. B[i] \in 1 .. Len(out) /\ B[k] \in 1 .. Len(out)
    BY Kept
  <2>2. QED
    BY <2>1
<1>3. i < k => B[i] < B[k]
  BY <1>1
<1>4. k < i => B[k] < B[i]
  BY <1>1
<1>5. i = k => B[i] = B[k]
  OBVIOUS
<1>6. i < k \/ k < i \/ i = k
  OBVIOUS
<1>7. QED
  BY <1>2, <1>3, <1>4, <1>5, <1>6

(* An element of the result is one that stayed, or a tag of its own. *)
LEMMA EndStayed ==
  ASSUME Printed, NEW s, NEW after, NEW d, NEW R, NEW n, NEW B, NEW out,
         Rewrites(s, after, d, R, n, B, out), NEW p \in PropertyEnds(out)
  PROVE  \/ \E j \in PropertyEnds(s): ~Gone(R, j) /\ p = B[j]
         \/ out[p].kind = "property"
<1>1. /\ s \in Seq(Items) /\ PropertiesInPlace(s)
      /\ Cuts(s, d, R) /\ Fit(s, R) /\ Placed(s, R, n, B, out) /\ out \in Seq(Items)
  BY DEF Rewrites, Placed
<1>2. p \in 1 .. Len(out) /\ out[p].kind \in {"property", "propertyend"}
  BY <1>1 DEF PropertyEnds
<1>3. CASE out[p].kind = "propertyend"
  <2>1. PICK i \in 1 .. Len(s): ~Gone(R, i) /\ p = B[i] /\ out[p] = s[i]
    <3>1. ASSUME NEW r, NEW k, out[p] = r.new[k], r.new[k].kind \in {"text", "keyword", "property", "location"}
          PROVE FALSE
      BY <1>3, <3>1
    <3>2. /\ s \in Seq(Items) /\ Cuts(s, d, R) /\ Fit(s, R) /\ Placed(s, R, n, B, out)
          /\ p \in 1 .. Len(out)
      BY <1>1, <1>2
    <3>3. \/ \E i \in 1 .. Len(s): ~Gone(R, i) /\ p = B[i] /\ out[p] = s[i]
          \/ \E r \in R: \E k \in 1 .. Len(r.new):
               out[p] = r.new[k] /\ r.new[k].kind \in {"text", "keyword", "property", "location"}
      BY <3>2, WhereFrom
    <3>4. QED
      BY <3>1, <3>3
  <2>2. i \in PropertyEnds(s)
    BY <1>1, <1>3, <2>1, ElementBody
  <2>3. QED
    BY <2>1, <2>2
<1>4. QED
  BY <1>2, <1>3

(* The ids an update leaves alone. *)
SameIds(P, pr) == {id \in DOMAIN P \cap DOMAIN pr: pr[id] = P[id]}

(* What an element of another property holds is what it held. *)
LEMMA InsideStays ==
  ASSUME Printed, NEW s, NEW after, NEW d, NEW R, NEW n, NEW B, NEW out,
         Rewrites(s, after, d, R, n, B, out), NEW ids,
         NEW i \in 1 .. Len(s), ~Gone(R, i), s[i].kind # "property"
  PROVE  B[i] \in InsideOthers(out, ids) <=> i \in InsideOthers(s, ids)
<1>1. /\ s \in Seq(Items) /\ PropertiesInPlace(s)
      /\ Cuts(s, d, R) /\ Fit(s, R) /\ Placed(s, R, n, B, out) /\ out \in Seq(Items)
  BY DEF Rewrites, Placed
<1>2. B[i] \in 1 .. Len(out) /\ out[B[i]] = s[i]
  BY <1>1, Kept
<1>3. ASSUME NEW j \in PropertyEnds(s), ~Gone(R, j)
      PROVE  /\ B[j] \in PropertyEnds(out) /\ IdAt(out, B[j]) = IdAt(s, j)
             /\ i \in StartOf(s, j) .. j <=> B[i] \in StartOf(out, B[j]) .. B[j]
  <2>1. /\ EndsAt(s, B, out, j, ValAt(s, j))
        /\ ~Gone(R, StartOf(s, j)) /\ StartOf(out, B[j]) = B[StartOf(s, j)]
    BY <1>3, PropertyKept
  <2>2. PICK a \in 1 .. Len(s): a = StartOf(s, j)
    BY <1>1, SpanFacts
  <2>3. j \in 1 .. Len(s)
    BY <1>1, SpanFacts
  <2>4. (i < a <=> B[i] < B[a]) /\ (j < i <=> B[j] < B[i])
    BY <1>1, <1>3, <2>1, <2>2, <2>3, KeptRise
  <2>5. B[a] \in 1 .. Len(out) /\ B[j] \in 1 .. Len(out)
    BY <1>1, <1>3, <2>1, <2>2, <2>3, Kept
  <2>6. i \in a .. j <=> B[i] \in B[a] .. B[j]
    BY <1>2, <2>3, <2>4, <2>5
  <2>7. QED
    BY <2>1, <2>2, <2>6 DEF EndsAt
<1>4. ASSUME i \in InsideOthers(s, ids) PROVE B[i] \in InsideOthers(out, ids)
  <2>1. PICK j \in PropertyEnds(s): IdAt(s, j) \notin ids /\ i \in StartOf(s, j) .. j
    BY <1>1, <1>4, InsideOthersFacts
  <2>2. ~Gone(R, j)
    <3>1. ASSUME Gone(R, j) PROVE FALSE
      <4>1. PICK r \in R: r.last = j /\ r.first = StartOf(s, j)
        BY <1>1, <3>1, EndGone
      <4>2. QED
        BY <2>1, <4>1 DEF Gone
    <3>2. QED
      BY <3>1
  <2>3. /\ B[j] \in PropertyEnds(out) /\ IdAt(out, B[j]) \notin ids
        /\ B[i] \in StartOf(out, B[j]) .. B[j]
    BY <1>3, <2>1, <2>2
  <2>4. QED
    BY <1>1, <2>3, InsideOthersFacts
<1>5. ASSUME B[i] \in InsideOthers(out, ids) PROVE i \in InsideOthers(s, ids)
  <2>1. PICK p \in PropertyEnds(out): IdAt(out, p) \notin ids /\ B[i] \in StartOf(out, p) .. p
    BY <1>1, <1>5, InsideOthersFacts
  <2>2. out[p].kind # "property"
    <3>1. ASSUME out[p].kind = "property" PROVE FALSE
      <4>1. p \in 1 .. Len(out)
        BY <1>1 DEF PropertyEnds
      <4>2. StartOf(out, p) = p
        BY <1>1, <3>1, <4>1, TagIsElement
      <4>3. B[i] = p
        BY <1>2, <2>1, <4>1, <4>2
      <4>4. QED
        BY <1>2, <3>1, <4>3
    <3>2. QED
      BY <3>1
  <2>3. PICK j \in PropertyEnds(s): ~Gone(R, j) /\ p = B[j]
    BY <2>2, EndStayed
  <2>4. IdAt(s, j) \notin ids /\ i \in StartOf(s, j) .. j
    BY <1>3, <2>1, <2>3
  <2>5. QED
    BY <1>1, <2>4, InsideOthersFacts
<1>6. QED
  BY <1>4, <1>5

(* The tags the crate reads, and the positions of all it does not.         *)
Modeled == {"keyword", "keywordstart", "property", "propertystart", "propertyend", "location"}
UnmodeledAt(s, ids) ==
  {i \in DOMAIN s: s[i].kind \notin Modeled /\ s[i] # Indent} \ InsideOthers(s, ids)

(* What the crate does not model stays, in order, whatever was asked for.  *)
LEMMA UnmodeledStays ==
  ASSUME Printed, NEW s, NEW after, NEW d, NEW R, NEW n, NEW B, NEW out,
         Rewrites(s, after, d, R, n, B, out),
         NEW ids, ids = SameIds(Properties(s), after.properties)
  PROVE  Unmodeled(out, ids) = Unmodeled(s, ids)
<1>1. /\ s \in Seq(Items) /\ PropertiesInPlace(s) /\ Asked(s, after, R) /\ after \in Headers
      /\ Cuts(s, d, R) /\ Fit(s, R) /\ Placed(s, R, n, B, out) /\ out \in Seq(Items)
  BY DEF Rewrites, Placed
<1>2. PICK S, T: S = UnmodeledAt(s, ids) /\ T = UnmodeledAt(out, ids)
  OBVIOUS
<1>3. PICK l \in Nat, o \in Nat: l = Len(s) /\ o = Len(out)
  BY <1>1
<1>4. S \subseteq 1 .. l /\ T \subseteq 1 .. o
  BY <1>1, <1>2, <1>3 DEF UnmodeledAt
<1>5. ASSUME NEW i \in S PROVE i \in 1 .. l /\ ~Gone(R, i) /\ s[i].kind # "property"
  <2>1. i \in 1 .. l /\ s[i].kind \notin Modeled /\ i \notin InsideOthers(s, ids)
    BY <1>2, <1>4 DEF UnmodeledAt
  <2>2. ASSUME Gone(R, i) PROVE FALSE
    <3>1. PICK r \in R:
         \/ KeywordChange(s, r) /\ r.first = i /\ r.last = i
         \/ Relocated(s, d, r) /\ r.first = i /\ r.last = i
         \/ /\ PropertyChange(s, r) /\ r.last \in PropertyEnds(s) /\ r.first = StartOf(s, r.last)
            /\ i \in r.first .. r.last
      BY <1>1, <2>2, GoneBy
    <3>2. s[i].kind \notin {"keyword", "keywordstart", "location"}
      BY <2>1 DEF Modeled
    <3>3. ~(KeywordChange(s, r) /\ r.first = i) /\ ~(Relocated(s, d, r) /\ r.first = i)
      <4>1. KeywordChange(s, r) => s[r.first].kind \in {"keyword", "keywordstart"}
        BY <1>1, CutStarts
      <4>2. Relocated(s, d, r) => s[r.first].kind = "location"
        BY <1>1, CutStarts
      <4>3. QED
        BY <3>2, <4>1, <4>2
    <3>4. PICK j \in PropertyEnds(s): j = r.last /\ i \in StartOf(s, j) .. j /\ PropertyChange(s, r)
      BY <3>1, <3>3
    <3>5. IdAt(s, j) \notin ids
      <4>1. PICK PR, pr, P: PR = PropertyRegions(s, pr) /\ pr = after.properties /\ P = Properties(s)
        OBVIOUS
      <4>2. r \in PR
        BY <1>1, <3>4, <4>1 DEF Asked
      <4>3. \A q \in PR: \E k \in PropertyEnds(s):
              \/ IdAt(s, k) \notin DOMAIN pr /\ q = Region(StartOf(s, k), k, << >>)
              \/ /\ IdAt(s, k) \in DOMAIN pr /\ pr[IdAt(s, k)] # P[IdAt(s, k)]
                 /\ q = Region(StartOf(s, k), k,
                               <<RenderedProperty(IdAt(s, k), pr[IdAt(s, k)])>>)
        BY <1>1, <4>1, PropertyRegionsFacts
      <4>4. PICK k \in PropertyEnds(s):
              \/ IdAt(s, k) \notin DOMAIN pr /\ r = Region(StartOf(s, k), k, << >>)
              \/ /\ IdAt(s, k) \in DOMAIN pr /\ pr[IdAt(s, k)] # P[IdAt(s, k)]
                 /\ r = Region(StartOf(s, k), k,
                               <<RenderedProperty(IdAt(s, k), pr[IdAt(s, k)])>>)
        BY <4>2, <4>3
      <4>5. k = j
        BY <3>4, <4>4, RegionFields
      <4>6. QED
        BY <4>1, <4>4, <4>5 DEF SameIds
    <3>6. i \in InsideOthers(s, ids)
      BY <1>1, <3>4, <3>5, InsideOthersFacts
    <3>7. QED
      BY <2>1, <3>6
  <2>3. QED
    BY <2>1, <2>2 DEF Modeled
<1>6. ASSUME NEW i \in S PROVE B[i] \in T /\ out[B[i]] = s[i]
  <2>1. i \in 1 .. Len(s) /\ ~Gone(R, i) /\ s[i].kind # "property"
    BY <1>3, <1>5
  <2>2. B[i] \in 1 .. Len(out) /\ out[B[i]] = s[i]
    BY <1>1, <2>1, Kept
  <2>3. B[i] \notin InsideOthers(out, ids)
    <3>1. i \notin InsideOthers(s, ids)
      BY <1>2 DEF UnmodeledAt
    <3>2. QED
      BY <2>1, <3>1, InsideStays
  <2>4. s[i].kind \notin Modeled /\ s[i] # Indent
    BY <1>2 DEF UnmodeledAt
  <2>5. QED
    BY <1>1, <1>2, <2>2, <2>3, <2>4 DEF UnmodeledAt
<1>7. ASSUME NEW p \in T PROVE \E i \in S: B[i] = p
  <2>1. p \in 1 .. Len(out) /\ out[p].kind \notin Modeled /\ out[p] # Indent /\ p \notin InsideOthers(out, ids)
    BY <1>2, <1>3, <1>4 DEF UnmodeledAt
  <2>2. out[p].kind \notin {"keyword", "property", "location"}
    BY <2>1 DEF Modeled
  <2>3. ASSUME NEW r \in R, NEW k \in 1 .. Len(r.new), out[p] = r.new[k],
               \/ KeywordChange(s, r) \/ PropertyChange(s, r)
               \/ Insertion(s, r) \/ Relocated(s, d, r)
        PROVE  FALSE
    <3>1. Insertion(s, r)
      <4>1. r.new[k].kind \notin {"keyword", "property", "location"}
        BY <2>2, <2>3
      <4>2. QED
        BY <2>3, <4>1, WritesOf, ZenonT(30)
    <3>2. PICK A: A = Additions(s, after)
      OBVIOUS
    <3>3. r.new = A
      BY <1>1, <3>1, <3>2 DEF Asked
    <3>4. PICK M, nk, np, ids2: Added(s, after, A, M, nk, np, ids2)
      BY <1>1, <3>2, AdditionsFacts
    <3>5. k \in 1 .. Len(A) /\ out[p] = A[k]
      BY <2>3, <3>3
    <3>6. AddedAt(A, after, M, nk, np, ids2, k)
      BY <3>4, <3>5, AddedByPosition
    <3>7. \/ A[k] = Indent \/ \E kw: A[k] = RenderedKeyword(kw)
          \/ \E id, v: A[k] = RenderedProperty(id, v)
      BY <3>6 DEF AddedAt
    <3>8. \A kw: RenderedKeyword(kw).kind = "keyword"
      BY RenderedItems
    <3>9. \A id, v: RenderedProperty(id, v).kind = "property"
      BY RenderedItems
    <3>10. QED
      BY <2>1, <2>2, <3>5, <3>7, <3>8, <3>9
  <2>4. PICK i \in 1 .. Len(s): ~Gone(R, i) /\ p = B[i] /\ out[p] = s[i]
    BY <1>1, <2>1, <2>3, WhereFrom
  <2>5. i \notin InsideOthers(s, ids)
    BY <2>1, <2>2, <2>4, InsideStays
  <2>6. i \in S
    BY <1>1, <1>2, <2>1, <2>4, <2>5 DEF UnmodeledAt
  <2>7. QED
    BY <2>4, <2>6
<1>8. Carries(B, S, T)
  <2>1. \A i, k \in S: i < k => B[i] < B[k]
    <3>1. ASSUME NEW i \in S, NEW k \in S PROVE i < k => B[i] < B[k]
      <4>1. i \in 1 .. Len(s) /\ ~Gone(R, i) /\ k \in 1 .. Len(s) /\ ~Gone(R, k)
        BY <1>3, <1>5
      <4>2. QED
        BY <1>1, <4>1, KeptRise
    <3>2. QED
      BY <3>1
  <2>2. QED
    BY <1>6, <1>7, <2>1 DEF Carries
<1>9. PICK f, c: f = PositionsInOrder(S) /\ c = Cardinality(S)
  OBVIOUS
<1>10. S \in SUBSET Nat /\ T \in SUBSET Nat /\ Lists(f, c, S) /\ DOMAIN f = 1 .. c
       /\ \A k \in 1 .. c: f[k] \in S
  <2>1. S \in SUBSET Nat /\ Lists(f, c, S) /\ DOMAIN f = 1 .. c /\ \A k \in 1 .. c: f[k] \in S
    BY <1>3, <1>4, <1>9, PositionsListed
  <2>2. T \in SUBSET Nat
    BY <1>3, <1>4
  <2>3. QED
    BY <2>1, <2>2
<1>11. PICK g: g = [k \in 1 .. c |-> B[f[k]]]
  OBVIOUS
<1>12. Lists(g, c, T)
  BY <1>8, <1>10, <1>11, Carried
<1>13. g = PositionsInOrder(T)
  BY <1>10, <1>12, OneOrder
<1>14. Unmodeled(s, ids) = [k \in DOMAIN f |-> s[f[k]]]
  BY <1>2, <1>9 DEF Unmodeled, UnmodeledAt, Modeled
<1>15. Unmodeled(out, ids) = [k \in DOMAIN g |-> out[g[k]]]
  BY <1>2, <1>13 DEF Unmodeled, UnmodeledAt, Modeled
<1>16. \A k \in 1 .. c: out[g[k]] = s[f[k]]
  BY <1>6, <1>10, <1>11
<1>17. DOMAIN g = 1 .. c
  BY <1>11
<1>18. QED
  BY <1>10, <1>14, <1>15, <1>16, <1>17

(* Tags of a property no one asked to change are the tags it had. *)
LEMMA PropertyTagsStay ==
  ASSUME Printed, NEW s, NEW after, NEW d, NEW R, NEW n, NEW B, NEW out,
         Rewrites(s, after, d, R, n, B, out), NEW id \in SameIds(Properties(s), after.properties)
  PROVE  PropertyTags(out, id) = PropertyTags(s, id)
<1>1. /\ s \in Seq(Items) /\ PropertiesInPlace(s) /\ Asked(s, after, R) /\ after \in Headers
      /\ Cuts(s, d, R) /\ Fit(s, R) /\ Placed(s, R, n, B, out) /\ out \in Seq(Items)
  BY DEF Rewrites, Placed
<1>2. PICK P, pr: P = Properties(s) /\ pr = after.properties
  OBVIOUS
<1>3. id \in DOMAIN P /\ id \in DOMAIN pr /\ pr[id] = P[id]
  BY <1>2 DEF SameIds
<1>4. PICK tags: tags = {"property", "propertystart"}
  OBVIOUS
<1>5. \A t \in Seq(Items): \A y:
        y \in PropertyTags(t, id)
          <=> \E p \in 1 .. Len(t): t[p].kind \in tags /\ t[p].id = id /\ y = t[p]
  BY <1>4 DEF PropertyTags, ElementsOf
<1>6. ASSUME NEW j \in PropertyEnds(s), IdAt(s, j) = id PROVE ~Gone(R, j)
  BY <1>2, <1>3, <1>6, PropertyStands
<1>7. ASSUME NEW i \in 1 .. Len(s), s[i].kind \in tags, s[i].id = id
      PROVE  B[i] \in 1 .. Len(out) /\ out[B[i]] = s[i]
  <2>1. \E j \in PropertyEnds(s): StartOf(s, j) = i
    <3>1. CASE s[i].kind = "property"
      BY <1>1, <3>1, TagIsElement
    <3>2. CASE s[i].kind = "propertystart"
      <4>1. PICK j \in 1 .. Len(s): Body(s, i, j)
        BY <1>1, <3>2 DEF PropertiesInPlace
      <4>2. QED
        BY <1>1, <4>1, BodyIsElement
    <3>3. QED
      BY <1>4, <1>7, <3>1, <3>2
  <2>2. PICK j \in PropertyEnds(s): StartOf(s, j) = i
    BY <2>1
  <2>3. ~Gone(R, j)
    BY <1>6, <1>7, <2>2 DEF IdAt
  <2>4. ~Gone(R, i)
    BY <2>2, <2>3, PropertyKept
  <2>5. QED
    BY <1>1, <2>4, Kept
<1>8. ASSUME NEW p \in 1 .. Len(out), out[p].kind \in tags, out[p].id = id
      PROVE  \E i \in 1 .. Len(s): out[p] = s[i]
  <2>1. ASSUME NEW r \in R, NEW k \in 1 .. Len(r.new), out[p] = r.new[k],
               \/ KeywordChange(s, r) \/ PropertyChange(s, r)
               \/ Insertion(s, r) \/ Relocated(s, d, r)
        PROVE  FALSE
    <3>1. PropertyChange(s, r) \/ Insertion(s, r)
      <4>1. r.new[k].kind \notin {"keyword", "location"}
        BY <1>4, <1>8, <2>1
      <4>2. QED
        BY <2>1, <4>1, WritesOf, ZenonT(30)
    <3>2. CASE PropertyChange(s, r)
      <4>1. PICK j \in PropertyEnds(s): r.first = StartOf(s, j) /\ r.last = j
        BY <3>2 DEF PropertyChange
      <4>2. PICK v: r.new[k] = RenderedProperty(IdAt(s, r.last), v)
        BY <3>2, WritesOf
      <4>3. IdAt(s, j) = id
        BY <1>8, <2>1, <4>1, <4>2, RenderedItems
      <4>4. Gone(R, j)
        <5>1. j \in 1 .. Len(s) /\ StartOf(s, j) \in 1 .. Len(s) /\ StartOf(s, j) <= j
          BY <1>1, SpanFacts
        <5>2. j \in r.first .. r.last
          BY <4>1, <5>1
        <5>3. QED
          BY <5>2 DEF Gone
      <4>5. QED
        BY <1>6, <4>3, <4>4
    <3>3. CASE Insertion(s, r)
      <4>1. PICK A: A = Additions(s, after)
        OBVIOUS
      <4>2. r.new = A
        BY <1>1, <3>3, <4>1 DEF Asked
      <4>3. PICK M, nk, np, ids: Added(s, after, A, M, nk, np, ids)
        BY <1>1, <4>1, AdditionsFacts
      <4>4. k \in 1 .. Len(A) /\ out[p] = A[k]
        BY <2>1, <4>2
      <4>5. AddedAt(A, after, M, nk, np, ids, k)
        BY <4>3, <4>4, AddedByPosition
      <4>6. A[k] # Indent
        BY <1>4, <1>8, <4>4, IndentItem
      <4>7. \A kw: A[k] # RenderedKeyword(kw)
        <5>1. \A kw: RenderedKeyword(kw).kind = "keyword"
          BY RenderedItems
        <5>2. QED
          BY <1>4, <1>8, <4>4, <5>1
      <4>8. PICK y \in 1 .. np: A[k] = RenderedProperty(ids[y], pr[ids[y]])
        BY <1>2, <4>5, <4>6, <4>7 DEF AddedAt
      <4>9. ids[y] = id
        BY <1>8, <4>4, <4>8, RenderedItems
      <4>10. ids[y] \notin DOMAIN P
        BY <1>2, <4>3 DEF Added
      <4>11. QED
        BY <1>3, <4>9, <4>10
    <3>4. QED
      BY <3>1, <3>2, <3>3
  <2>2. QED
    BY <1>1, <2>1, WhereFrom
<1>9. \A y: y \in PropertyTags(s, id) => y \in PropertyTags(out, id)
  <2>1. ASSUME NEW y \in PropertyTags(s, id) PROVE y \in PropertyTags(out, id)
    <3>1. PICK i \in 1 .. Len(s): s[i].kind \in tags /\ s[i].id = id /\ y = s[i]
      BY <1>1, <1>5
    <3>2. B[i] \in 1 .. Len(out) /\ out[B[i]] = s[i]
      BY <1>7, <3>1
    <3>3. QED
      BY <1>1, <1>5, <3>1, <3>2
  <2>2. QED
    BY <2>1
<1>10. \A y: y \in PropertyTags(out, id) => y \in PropertyTags(s, id)
  <2>1. ASSUME NEW y \in PropertyTags(out, id) PROVE y \in PropertyTags(s, id)
    <3>1. PICK p \in 1 .. Len(out): out[p].kind \in tags /\ out[p].id = id /\ y = out[p]
      BY <1>1, <1>5
    <3>2. PICK i \in 1 .. Len(s): out[p] = s[i]
      BY <1>8, <3>1
    <3>3. QED
      BY <1>1, <1>5, <3>1, <3>2
  <2>2. QED
    BY <2>1
<1>11. QED
  BY <1>9, <1>10

-------------------------------------------------------------------------------
(* Matching takes the first place a name fits, so it gets as far as any    *)
(* other way to match.                                                     *)

(* The names of the first x keywords, in order, are those of keywords at e. *)
NamesAt(before, e, after, c, i) ==
  /\ \A x \in 1 .. c: e[x] \in Nat /\ 1 <= e[x] /\ e[x] < i /\ before[e[x]].name = after[x].name
  /\ \A x, y \in 1 .. c: x < y => e[x] < e[y]

(* Such a subsequence before keyword i means c keywords are matched by     *)
(* then.                                                                   *)
LEMMA MatchesAsFar ==
  ASSUME NEW before, NEW n \in Nat, NEW after, NEW k \in Nat, NEW m, Matching(before, n, after, k, m),
         NEW i \in 1 .. n, NEW c \in Nat, c < k, NEW e, NamesAt(before, e, after, c, i)
  PROVE  c <= m[i - 1]
<1>1. /\ m \in [0 .. n -> 0 .. k] /\ m[0] = 0
      /\ \A x \in 1 .. n: m[x] = m[x - 1] \/ m[x] = m[x - 1] + 1
      /\ \A x \in 1 .. n:
         m[x - 1] < k /\ after[m[x - 1] + 1].name = before[x].name => m[x] = m[x - 1] + 1
  BY DEF Matching
<1>2. \A x \in 0 .. n: m[x] \in Nat
  BY <1>1
<1>3. \A p, q \in 0 .. n: p <= q => m[p] <= m[q]
  BY MatchingRises
<1>4. /\ \A x \in 1 .. c: e[x] \in Nat /\ 1 <= e[x] /\ e[x] < i /\ before[e[x]].name = after[x].name
      /\ \A x, y \in 1 .. c: x < y => e[x] < e[y]
  BY DEF NamesAt
<1>5. PICK T: T = {x \in 1 .. c: ~(x <= m[e[x]])}
  OBVIOUS
<1>6. ASSUME T # {} PROVE FALSE
  <2>1. T \in SUBSET Nat
    BY <1>5
  <2>2. PICK x \in T: \A t \in T: x <= t
    BY <1>6, <2>1, FirstExists
  <2>3. x \in 1 .. c /\ ~(x <= m[e[x]])
    BY <1>5, <2>2
  <2>4. PICK p \in 1 .. n: p = e[x] /\ before[p].name = after[x].name
    BY <1>4, <2>3
  <2>5. PICK h \in 0 .. n: h = p - 1
    BY <2>4
  <2>6. x - 1 <= m[h]
    <3>1. CASE x = 1
      <4>1. m[h] \in Nat
        BY <1>2
      <4>2. QED
        BY <3>1, <4>1
    <3>2. CASE x # 1
      <4>1. PICK w \in 1 .. c: w = x - 1 /\ w < x /\ ~(x <= w)
        BY <2>3, <3>2
      <4>2. w \notin T
        BY <2>2, <4>1
      <4>3. w <= m[e[w]]
        BY <1>5, <4>2
      <4>4. e[w] < e[x] /\ e[w] \in Nat
        BY <1>4, <2>3, <4>1
      <4>5. PICK q \in 0 .. n: q = e[w] /\ q <= h
        BY <2>4, <2>5, <4>4
      <4>6. m[q] <= m[h] /\ m[q] \in Nat /\ m[h] \in Nat
        BY <1>2, <1>3, <4>5
      <4>7. QED
        BY <4>1, <4>3, <4>5, <4>6
    <3>3. QED
      BY <3>1, <3>2
  <2>7. m[h] \in Nat /\ m[p] \in Nat /\ (m[p] = m[h] \/ m[p] = m[h] + 1) /\ ~(x <= m[p])
    <3>1. p \in 0 .. n
      OBVIOUS
    <3>2. QED
      BY <1>1, <1>2, <2>3, <2>4, <2>5, <3>1
  <2>8. m[h] = x - 1
    BY <2>3, <2>6, <2>7
  <2>9. m[h] < k /\ m[h] + 1 = x
    BY <2>3, <2>8
  <2>10. m[p] = m[h] + 1
    BY <1>1, <2>4, <2>5, <2>9
  <2>11. QED
    BY <2>7, <2>9, <2>10
<1>7. CASE c = 0
  <2>1. i - 1 \in 0 .. n
    OBVIOUS
  <2>2. m[i - 1] \in Nat
    BY <1>2, <2>1
  <2>3. QED
    BY <1>7, <2>2
<1>8. CASE c # 0
  <2>1. c \in 1 .. c
    BY <1>8
  <2>2. c <= m[e[c]]
    BY <1>5, <1>6, <2>1
  <2>3. e[c] \in Nat /\ e[c] < i
    BY <1>4, <2>1
  <2>4. PICK q \in 0 .. n, h \in 0 .. n: q = e[c] /\ h = i - 1 /\ q <= h
    <3>1. e[c] \in 0 .. n /\ i - 1 \in 0 .. n /\ e[c] <= i - 1
      BY <2>3
    <3>2. QED
      BY <3>1
  <2>5. m[q] <= m[h] /\ m[q] \in Nat /\ m[h] \in Nat
    BY <1>2, <1>3, <2>4
  <2>6. QED
    BY <2>2, <2>4, <2>5
<1>9. QED
  BY <1>7, <1>8

(* A keyword that was not removed and appended again is preceded by        *)
(* keywords that preceded it.                                              *)
LEMMA StayedNames ==
  ASSUME NEW before, NEW i \in Nat, NEW after, NEW j \in Nat, j # 0,
         Stayed(before, i, after, j), NEW c, c = j - 1
  PROVE  \E e: NamesAt(before, e, after, c, i)
<1>1. PICK K \in SUBSET (1 .. i - 1): NamesOf(before, K) = NamesOf(after, 1 .. j - 1)
  BY DEF Stayed
<1>2. c \in Nat /\ 1 .. j - 1 = 1 .. c
  OBVIOUS
<1>3. PICK I: I = 1 .. c
  OBVIOUS
<1>4. PositionsInOrder(I) = [x \in 1 .. c |-> x]
  <2>1. PICK f: f = [x \in 1 .. c |-> x]
    OBVIOUS
  <2>2. Lists(f, c, I)
    <3>1. f \in [1 .. c -> I] /\ \A x \in 1 .. c: f[x] = x
      BY <1>3, <2>1
    <3>2. \A x \in I: \E y \in 1 .. c: f[y] = x
      BY <1>3, <3>1
    <3>3. QED
      BY <1>2, <3>1, <3>2 DEF Lists
  <2>3. I \in SUBSET Nat
    BY <1>3
  <2>4. QED
    BY <2>1, <2>2, <2>3, OneOrder
<1>5. PICK e, z: e = PositionsInOrder(K) /\ z = Cardinality(K)
  OBVIOUS
<1>6. /\ z \in Nat /\ DOMAIN e = 1 .. z /\ Lists(e, z, K) /\ \A x \in 1 .. z: e[x] \in K
  <2>1. PICK l \in Nat: K \subseteq 1 .. l
    <3>1. K \subseteq 1 .. i
      BY <1>1
    <3>2. QED
      BY <3>1
  <2>2. QED
    BY <1>5, <2>1, PositionsListed
<1>7. PICK u, v: u = NamesOf(before, K) /\ v = NamesOf(after, I)
  OBVIOUS
<1>8. u = v
  BY <1>1, <1>2, <1>3, <1>7
<1>9. u = [x \in 1 .. z |-> before[e[x]].name]
  BY <1>5, <1>6, <1>7 DEF NamesOf
<1>10. v = [x \in 1 .. c |-> after[x].name]
  <2>1. PICK f: f = PositionsInOrder(I)
    OBVIOUS
  <2>2. DOMAIN f = 1 .. c /\ \A x \in 1 .. c: f[x] = x
    BY <1>4, <2>1
  <2>3. v = [x \in DOMAIN f |-> after[f[x]].name]
    BY <1>7, <2>1 DEF NamesOf
  <2>4. QED
    BY <2>2, <2>3
<1>11. 1 .. z = 1 .. c
  <2>1. DOMAIN u = 1 .. z /\ DOMAIN v = 1 .. c
    BY <1>9, <1>10
  <2>2. QED
    BY <1>8, <2>1
<1>12. z = c
  BY <1>2, <1>6, <1>11
<1>13. \A x \in 1 .. c: before[e[x]].name = after[x].name
  BY <1>8, <1>9, <1>10, <1>12
<1>14. \A x \in 1 .. c: e[x] \in 1 .. i - 1
  BY <1>1, <1>6, <1>12
<1>15. \A x, y \in 1 .. c: x < y => e[x] < e[y]
  BY <1>6, <1>12 DEF Lists
<1>16. \A x \in 1 .. c: e[x] \in Nat /\ 1 <= e[x] /\ e[x] < i
  <2>1. \A y \in 1 .. i - 1: y \in Nat /\ 1 <= y /\ y < i
    OBVIOUS
  <2>2. QED
    BY <1>14, <2>1
<1>17. QED
  BY <1>13, <1>14, <1>15, <1>16 DEF NamesAt

(* So it is matched with itself. *)
LEMMA StayedHits ==
  ASSUME NEW before, NEW n \in Nat, NEW after, NEW k \in Nat, NEW m, Matching(before, n, after, k, m),
         DOMAIN before = 1 .. n, DOMAIN after = 1 .. k,
         NEW i \in 1 .. n, NEW j \in 1 .. k, NEW name,
         Named(before, name) = {i}, Named(after, name) = {j}, Stayed(before, i, after, j)
  PROVE  Hits(m, i) /\ m[i] = j
<1>1. /\ m \in [0 .. n -> 0 .. k]
      /\ \A x \in 1 .. n: m[x] = m[x - 1] \/ m[x] = m[x - 1] + 1
      /\ \A x \in 1 .. n:
         m[x - 1] < k /\ after[m[x - 1] + 1].name = before[x].name => m[x] = m[x - 1] + 1
  BY DEF Matching
<1>2. before[i].name = name /\ after[j].name = name
  BY DEF Named
<1>3. PICK c \in Nat: c = j - 1 /\ c < k /\ c + 1 = j
  <2>1. j - 1 \in Nat /\ j - 1 < k /\ (j - 1) + 1 = j
    OBVIOUS
  <2>2. QED
    BY <2>1
<1>4. PICK h \in 0 .. n: h = i - 1
  OBVIOUS
<1>5. c <= m[h]
  <2>1. i \in Nat /\ j \in Nat /\ j # 0
    OBVIOUS
  <2>2. PICK e: NamesAt(before, e, after, c, i)
    BY <1>3, <2>1, StayedNames
  <2>3. QED
    BY <1>3, <1>4, <2>2, MatchesAsFar
<1>6. m[h] \in Nat /\ m[i] \in Nat /\ m[n] \in Nat /\ m[h] <= m[n]
  <2>1. \A p, q \in 0 .. n: p <= q => m[p] <= m[q]
    BY MatchingRises
  <2>2. n \in 0 .. n /\ i \in 0 .. n /\ h <= n
    OBVIOUS
  <2>3. QED
    BY <1>1, <2>1, <2>2
<1>7. CASE c = m[h]
  <2>1. m[i] = m[h] + 1
    BY <1>1, <1>2, <1>3, <1>4, <1>7
  <2>2. m[i] = j /\ m[i] # m[h]
    BY <1>3, <1>6, <1>7, <2>1
  <2>3. QED
    BY <1>4, <2>2 DEF Hits
<1>8. CASE c # m[h]
  <2>1. j \in 1 .. m[n]
    BY <1>3, <1>5, <1>6, <1>8
  <2>2. PICK q \in 1 .. n: Hits(m, q) /\ m[q] = j
    <3>1. MatchesAll(n, m)
      BY MatchedHits
    <3>2. QED
      BY <2>1, <3>1 DEF MatchesAll
  <2>3. m[q] = m[q - 1] \/ after[m[q]].name = before[q].name
    BY DEF Matching
  <2>4. before[q].name = name
    BY <1>2, <2>2, <2>3 DEF Hits
  <2>5. q \in Named(before, name)
    BY <2>4 DEF Named
  <2>6. q = i
    BY <2>5
  <2>7. QED
    BY <2>2, <2>6
<1>9. QED
  BY <1>7, <1>8

(* The tags of a name only one keyword has. *)
LEMMA OneTag ==
  ASSUME NEW s \in Seq(Items), NEW K, K = Keywords(s), NEW name, NEW i, Named(K, name) = {i}
  PROVE  KeywordTags(s, name) = {s[KeywordSpans(s)[i]]}
<1>1. PICK L, n: L = KeywordSpans(s) /\ n = Cardinality(KeywordsIn(s))
  OBVIOUS
<1>2. /\ DOMAIN K = 1 .. n
      /\ \A q \in 1 .. n: L[q] \in KeywordsIn(s)
      /\ \A p \in KeywordsIn(s): \E q \in 1 .. n: L[q] = p
      /\ \A q \in 1 .. n: K[q] = KeywordAt(s, L[q])
  BY <1>1, KeywordsFacts
<1>3. \A q \in 1 .. n: K[q].name = s[L[q]].id
  BY <1>2 DEF KeywordAt
<1>4. \A q \in 1 .. n: s[L[q]].id = name <=> q = i
  <2>1. \A q \in 1 .. n: q \in Named(K, name) <=> K[q].name = name
    BY <1>2 DEF Named
  <2>2. QED
    BY <1>3, <2>1
<1>5. i \in 1 .. n
  <2>1. i \in Named(K, name)
    OBVIOUS
  <2>2. QED
    BY <1>2, <2>1 DEF Named
<1>6. \A y: y \in KeywordTags(s, name) <=> \E p \in KeywordsIn(s): s[p].id = name /\ y = s[p]
  BY DEF KeywordTags, ElementsOf, KeywordsIn, OfKind
<1>7. ASSUME NEW y \in KeywordTags(s, name) PROVE y = s[L[i]]
  <2>1. PICK p \in KeywordsIn(s): s[p].id = name /\ y = s[p]
    BY <1>6
  <2>2. PICK q \in 1 .. n: L[q] = p
    BY <1>2
  <2>3. q = i
    BY <1>4, <2>1, <2>2
  <2>4. QED
    BY <2>1, <2>2, <2>3
<1>8. s[L[i]] \in KeywordTags(s, name)
  BY <1>2, <1>4, <1>5, <1>6
<1>9. QED
  BY <1>1, <1>7, <1>8

(* The tag of a keyword no one asked to change, and whose name no other    *)
(* shares, is the tag it had.                                              *)
LEMMA KeywordTagsStay ==
  ASSUME Printed, NEW s, NEW after, NEW d, NEW R, NEW n, NEW B, NEW out,
         Rewrites(s, after, d, R, n, B, out),
         NEW K, K = Keywords(s), NEW kw, kw = after.keywords, NEW name,
         NEW i \in DOMAIN K, NEW j \in DOMAIN kw, Named(K, name) = {i}, Named(kw, name) = {j},
         kw[j] = K[i], Stayed(K, i, kw, j)
  PROVE  KeywordTags(out, name) = KeywordTags(s, name)
<1>1. /\ s \in Seq(Items) /\ Fit(s, R) /\ Placed(s, R, n, B, out) /\ out \in Seq(Items)
      /\ after \in Headers
  BY DEF Rewrites, Placed
<1>2. kw \in Seq(Keyword)
  BY <1>1 DEF Headers
<1>3. PICK k \in Nat: k = Len(kw) /\ DOMAIN kw = 1 .. k
  BY <1>2
<1>4. PICK L, c, m: Matches(s, after, K, c, L, m)
  BY DEF Matches
<1>5. L = KeywordSpans(s) /\ c = Cardinality(KeywordsIn(s)) /\ m = Matched(K, kw)
  BY <1>4 DEF Matches
<1>6. c \in Nat /\ Len(K) = c /\ DOMAIN K = 1 .. c
      /\ \A q \in 1 .. c: L[q] \in KeywordsIn(s) /\ L[q] \in 1 .. Len(s) /\ K[q] = KeywordAt(s, L[q])
  BY <1>1, <1>5, KeywordsFacts
<1>7. Matching(K, c, kw, k, m)
  BY <1>3, <1>5, <1>6, MatchedFacts
<1>8. Hits(m, i) /\ m[i] = j
  <2>1. c \in Nat /\ k \in Nat /\ i \in 1 .. c /\ j \in 1 .. k /\ DOMAIN K = 1 .. c /\ DOMAIN kw = 1 .. k
    BY <1>3, <1>6
  <2>2. QED
    BY ONLY <1>7, <2>1, StayedHits, Stayed(K, i, kw, j), Named(K, name) = {i}, Named(kw, name) = {j}, SMTT(30)
<1>9. ~Gone(R, L[i])
  BY <1>4, <1>6, <1>8, KeywordKept
<1>10. B[L[i]] \in 1 .. Len(out) /\ out[B[L[i]]] = s[L[i]]
  BY <1>1, <1>6, <1>9, Kept
<1>11. KeywordTags(s, name) = {s[L[i]]}
  BY <1>1, <1>5, OneTag
<1>12. PICK y: KeywordTags(out, name) = {y}
  <2>1. PICK N: N = Keywords(out) /\ KeywordsAre(N, kw)
    BY KeywordsReadBack
  <2>2. Named(N, name) = Named(kw, name)
    BY <2>1 DEF KeywordsAre, Named
  <2>3. KeywordTags(out, name) = {out[KeywordSpans(out)[j]]}
    BY <1>1, <2>1, <2>2, OneTag
  <2>4. QED
    BY <2>3
<1>13. s[L[i]] \in KeywordTags(out, name)
  <2>1. PICK p \in 1 .. Len(s): p = L[i] /\ p \in KeywordsIn(s)
    BY <1>6
  <2>2. s[p].kind \in {"keyword", "keywordstart"}
    BY <2>1 DEF KeywordsIn, OfKind
  <2>3. s[p].id = name
    <3>1. K[i].name = name
      BY DEF Named
    <3>2. K[i] = KeywordAt(s, p)
      BY <1>6, <2>1
    <3>3. QED
      BY <3>1, <3>2 DEF KeywordAt
  <2>4. PICK q \in 1 .. Len(out): out[q] = s[p]
    BY <1>10, <2>1
  <2>5. s[p] \in KeywordTags(out, name)
    BY <1>1, <2>2, <2>3, <2>4 DEF KeywordTags, ElementsOf
  <2>6. QED
    BY <2>1, <2>5
<1>14. QED
  BY <1>11, <1>12, <1>13

(* What the closure left alone keeps its bytes. *)
Verbatim ==
  /\ Unmodeled(items', UneditedIds) = Unmodeled(items, UneditedIds)
  /\ \A n \in UneditedNames: KeywordTags(items', n) = KeywordTags(items, n)
  /\ \A id \in UneditedIds: PropertyTags(items', id) = PropertyTags(items, id)

(* An update of a document in place leaves it all alone.                   *)
LEMMA VerbatimStep ==
  ASSUME Printed, UpdateInvariant, [Next]_vars, updates' # updates
  PROVE  Verbatim
<1>1. Update
  BY DEF Next, vars
<1>2. PICK s, after, d, R, n, B, out:
         /\ s = items /\ after = goal' /\ out = items'
         /\ Rewrites(s, after, d, R, n, B, out)
  BY <1>1, UpdateInPlace
<1>3. PICK ids: ids = SameIds(Properties(s), after.properties)
  OBVIOUS
<1>4. UneditedIds = ids
  BY <1>2, <1>3 DEF UneditedIds, SameIds
<1>5. Unmodeled(out, ids) = Unmodeled(s, ids)
  BY <1>2, <1>3, UnmodeledStays
<1>6. ASSUME NEW id \in ids PROVE PropertyTags(out, id) = PropertyTags(s, id)
  BY <1>2, <1>3, PropertyTagsStay
<1>7. ASSUME NEW name \in UneditedNames PROVE KeywordTags(out, name) = KeywordTags(s, name)
  <2>1. PICK K, kw: K = Keywords(s) /\ kw = after.keywords
    OBVIOUS
  <2>2. \E i \in DOMAIN K: \E j \in DOMAIN kw:
          /\ Named(K, name) = {i} /\ Named(kw, name) = {j}
          /\ kw[j] = K[i] /\ Stayed(K, i, kw, j)
    BY <1>2, <2>1 DEF UneditedNames
  <2>3. PICK i \in DOMAIN K: \E j \in DOMAIN kw:
          /\ Named(K, name) = {i} /\ Named(kw, name) = {j}
          /\ kw[j] = K[i] /\ Stayed(K, i, kw, j)
    BY <2>2
  <2>4. PICK j \in DOMAIN kw:
          /\ Named(K, name) = {i} /\ Named(kw, name) = {j}
          /\ kw[j] = K[i] /\ Stayed(K, i, kw, j)
    BY <2>3
  <2>5. QED
    BY <1>2, <2>1, <2>4, KeywordTagsStay
<1>8. QED
  BY <1>2, <1>4, <1>5, <1>6, <1>7 DEF Verbatim

(* An update changes nothing but what the closure changed: the bytes the   *)
(* crate does not model, and the elements of keywords and properties that  *)
(* were left alone, are those that were read (splice_bytes).               *)
THEOREM UneditedVerbatimTheorem ==
  Printed /\ DocumentsInPlace => (Spec => UneditedVerbatim)
<1> SUFFICES ASSUME Printed, DocumentsInPlace PROVE Spec => UneditedVerbatim
  OBVIOUS
<1>1. Init => UpdateInvariant
  BY InvariantInit
<1>2. UpdateInvariant /\ [Next]_vars => UpdateInvariant'
  BY InvariantStep
<1>3. UpdateInvariant /\ [Next]_vars => [updates' # updates => Verbatim]_vars
  BY VerbatimStep
<1>4. [][updates' # updates => Verbatim]_vars => UneditedVerbatim
  BY PTL DEF Verbatim, UneditedVerbatim
<1>5. QED
  BY <1>1, <1>2, <1>3, <1>4, PTL DEF Spec
===============================================================================
