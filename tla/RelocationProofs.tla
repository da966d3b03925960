--------------------------- MODULE RelocationProofs ---------------------------
(***************************************************************************)
(* Theorems about Relocation, for any number of attachments, any edit, any *)
(* cap, and any way of printing numbers in which larger ones are no        *)
(* shorter: the shift that is found is the nearest one with which offsets  *)
(* and header length agree, the guesses go one way, and rounds are paid    *)
(* for by digits.                                                          *)
(***************************************************************************)
EXTENDS Relocation, WellFoundedInduction, TLAPS

Attachment == [offset: Nat, size: Nat, span: Nat]
Attachments == Seq(Attachment)

(* Attachments have an offset and a size, and a text of some length; a     *)
(* number has a number of digits, and a larger one no fewer.               *)
Lengths ==
  /\ Layouts \subseteq Attachments
  /\ \A n \in Nat: Digits(n) \in Nat
  /\ \A m, n \in Nat: m <= n => Digits(m) <= Digits(n)

-------------------------------------------------------------------------------
(* The least of some numbers *)

(* The naturals are well-founded under <. *)
Below == {p \in Nat \X Nat: p[1] < p[2]}

(* A set of naturals that is not empty has a first element. *)
LEMMA FirstExists ==
  ASSUME NEW T \in SUBSET Nat, T # {}
  PROVE  \E t \in T: \A u \in T: t <= u
<1>1. Below = OpToRel(<, Nat)
  BY Zenon DEF Below, OpToRel
<1>2. IsWellFoundedOn(Below, Nat)
  BY <1>1, NatLessThanWellFounded, Zenon
<1>3. PICK t \in T: \A u \in T: <<u, t>> \notin Below
  BY <1>2, WFMin
<1>4. ASSUME NEW u \in T PROVE t <= u
  <2>1. <<u, t>> \in Nat \X Nat /\ <<u, t>> \notin Below /\ <<u, t>>[1] = u /\ <<u, t>>[2] = t
    BY <1>3
  <2>2. ~(u < t)
    BY <2>1 DEF Below
  <2>3. QED
    BY <2>2
<1>5. QED
  BY <1>4

-------------------------------------------------------------------------------
(* The sum of the growths *)

(* s[i] is the sum of the growths of the first i locations, up to n. *)
SumsUpTo(n, atts, delta, s) ==
  s = [i \in 0 .. n |-> IF i = 0 THEN 0 ELSE s[i - 1] + Growth(atts[i], delta)]

(* However many attachments there are, they have a sum. *)
LEMMA SumsExist ==
  ASSUME NEW m \in Nat, NEW atts, NEW delta
  PROVE  \E s: SumsUpTo(m, atts, delta, s)
<1> DEFINE T == {n \in Nat: ~\E s: SumsUpTo(n, atts, delta, s)}
<1>1. SUFFICES ASSUME T # {} PROVE FALSE
  OBVIOUS
<1>2. PICK n \in T: \A u \in T: n <= u
  BY <1>1, FirstExists
<1>3. CASE n = 0
  <2>1. SumsUpTo(0, atts, delta, [i \in 0 .. 0 |-> 0])
    BY DEF SumsUpTo
  <2>2. QED
    BY <1>3, <2>1
<1>4. CASE n # 0
  <2>1. n - 1 \in Nat /\ n - 1 \notin T
    BY <1>2, <1>4
  <2>2. PICK s: SumsUpTo(n - 1, atts, delta, s)
    BY <2>1
  <2> DEFINE r == [i \in 0 .. n |-> IF i = 0 THEN 0 ELSE s[i - 1] + Growth(atts[i], delta)]
  <2>3. \A i \in 0 .. n - 1: r[i] = s[i]
    BY <1>4, <2>1, <2>2 DEF SumsUpTo
  <2>4. \A i \in 0 .. n: i # 0 => i - 1 \in 0 .. n - 1
    BY <2>1
  <2>5. r = [i \in 0 .. n |-> IF i = 0 THEN 0 ELSE r[i - 1] + Growth(atts[i], delta)]
    BY <2>3, <2>4
  <2>6. SumsUpTo(n, atts, delta, r)
    BY <2>5 DEF SumsUpTo
  <2>7. QED
    BY <2>6
<1>5. QED
  BY <1>3, <1>4

(* LocationsDelta is the last of these sums. *)
LEMMA DeltaIsSum ==
  ASSUME NEW atts, Len(atts) \in Nat, NEW delta
  PROVE  \E s: SumsUpTo(Len(atts), atts, delta, s) /\ LocationsDelta(atts, delta) = s[Len(atts)]
<1> DEFINE sum == CHOOSE s: SumsUpTo(Len(atts), atts, delta, s)
<1>1. SumsUpTo(Len(atts), atts, delta, sum)
  BY SumsExist
<1>2. LocationsDelta(atts, delta) = sum[Len(atts)]
  BY DEF LocationsDelta, SumsUpTo
<1>3. QED
  BY <1>1, <1>2

(* The length of a location text is a number, and that of a smaller offset *)
(* is no larger.                                                           *)
LEMMA GrowthMonotone ==
  ASSUME Lengths, NEW a \in Attachment, NEW d \in Int, NEW e \in Int, d <= e, a.offset + d >= 0
  PROVE  /\ Growth(a, d) \in Int /\ Growth(a, e) \in Int
         /\ Growth(a, d) <= Growth(a, e)
<1>1. /\ a.offset + d \in Nat /\ a.offset + e \in Nat /\ a.offset + d <= a.offset + e
      /\ a.size \in Nat /\ a.span \in Nat
  BY DEF Attachment
<1>2. Digits(a.offset + d) \in Nat /\ Digits(a.offset + e) \in Nat /\ Digits(a.size) \in Nat
  BY <1>1 DEF Lengths
<1>3. Digits(a.offset + d) <= Digits(a.offset + e)
  BY <1>1 DEF Lengths
<1>4. QED
  BY <1>1, <1>2, <1>3 DEF Growth, LocationLength

(* The further the data moves up, the longer all locations together. *)
LEMMA DeltaMonotone ==
  ASSUME Lengths, NEW atts \in Attachments, NEW d \in Int, NEW e \in Int, d <= e,
         ~BelowZero(atts, d)
  PROVE  /\ LocationsDelta(atts, d) \in Int /\ LocationsDelta(atts, e) \in Int
         /\ LocationsDelta(atts, d) <= LocationsDelta(atts, e)
<1> DEFINE m == Len(atts)
<1>1. m \in Nat /\ \A i \in 1 .. m: atts[i] \in Attachment /\ atts[i].offset + d >= 0
  <2>1. m \in Nat /\ DOMAIN atts = 1 .. m /\ \A i \in 1 .. m: atts[i] \in Attachment
    BY DEF Attachments
  <2>2. \A i \in 1 .. m: atts[i].offset \in Nat
    BY <2>1 DEF Attachment
  <2>3. \A i \in 1 .. m: ~(atts[i].offset + d < 0)
    BY <2>1 DEF BelowZero
  <2>4. QED
    BY <2>1, <2>2, <2>3
<1>2. PICK s: SumsUpTo(m, atts, d, s) /\ LocationsDelta(atts, d) = s[m]
  BY <1>1, DeltaIsSum
<1>3. PICK t: SumsUpTo(m, atts, e, t) /\ LocationsDelta(atts, e) = t[m]
  BY <1>1, DeltaIsSum
<1> HIDE DEF m
<1>4. \A i \in 1 .. m: /\ Growth(atts[i], d) \in Int /\ Growth(atts[i], e) \in Int
                       /\ Growth(atts[i], d) <= Growth(atts[i], e)
  BY <1>1, GrowthMonotone
<1>5. /\ s[0] = 0 /\ t[0] = 0
      /\ \A i \in 1 .. m: s[i] = s[i - 1] + Growth(atts[i], d) /\ t[i] = t[i - 1] + Growth(atts[i], e)
  BY <1>1, <1>2, <1>3 DEF SumsUpTo
<1> DEFINE Good(i) == s[i] \in Int /\ t[i] \in Int /\ s[i] <= t[i]
           T == {i \in 0 .. m: ~Good(i)}
<1>6. T = {}
  <2>1. SUFFICES ASSUME T # {} PROVE FALSE
    OBVIOUS
  <2>2. T \in SUBSET Nat
    BY <1>1
  <2>3. PICK i \in T: \A u \in T: i <= u
    BY <2>1, <2>2, FirstExists
  <2>4. i # 0 /\ i \in 1 .. m
    BY <1>1, <1>5
  <2>5. i - 1 \in 0 .. m /\ i - 1 \notin T
    BY <1>1, <2>3, <2>4
  <2>6. Good(i - 1)
    BY <2>5
  <2>7. Good(i)
    BY <1>4, <1>5, <2>4, <2>6
  <2>8. QED
    BY <2>7
<1>7. Good(m)
  BY <1>1, <1>6
<1>8. QED
  BY <1>2, <1>3, <1>7

(* If no offset falls below zero, none does higher up. *)
LEMMA AboveZero ==
  ASSUME NEW atts \in Attachments, NEW d \in Int, NEW e \in Int, d <= e, ~BelowZero(atts, d)
  PROVE  ~BelowZero(atts, e)
<1>1. \A i \in DOMAIN atts: atts[i].offset \in Nat
  <2>1. \A i \in DOMAIN atts: atts[i] \in Attachment
    BY DEF Attachments
  <2>2. QED
    BY <2>1 DEF Attachment
<1>2. QED
  BY <1>1 DEF BelowZero

-------------------------------------------------------------------------------
(* Decimal digits *)

(* What is assumed of the digits holds of decimal ones. *)
Decimal[n \in Nat] == IF n < 10 THEN 1 ELSE 1 + Decimal[n \div 10]

DigitsUpTo(m, s) == s = [i \in 0 .. m |-> IF i < 10 THEN 1 ELSE 1 + s[i \div 10]]

(* There is one such function up to any number... *)
LEMMA DigitsExist ==
  ASSUME NEW m \in Nat
  PROVE  \E s: DigitsUpTo(m, s)
<1> DEFINE T == {n \in Nat: ~\E s: DigitsUpTo(n, s)}
<1>1. SUFFICES ASSUME T # {} PROVE FALSE
  OBVIOUS
<1>2. PICK n \in T: \A u \in T: n <= u
  BY <1>1, FirstExists
<1>3. CASE n = 0
  <2>1. DigitsUpTo(0, [i \in 0 .. 0 |-> 1])
    BY DEF DigitsUpTo
  <2>2. QED
    BY <1>3, <2>1
<1>4. CASE n # 0
  <2>1. n - 1 \in Nat /\ n - 1 \notin T
    BY <1>2, <1>4
  <2>2. PICK s: DigitsUpTo(n - 1, s)
    BY <2>1
  <2> DEFINE r == [i \in 0 .. n |-> IF i < 10 THEN 1 ELSE 1 + s[i \div 10]]
  <2>3. \A i \in 0 .. n - 1: r[i] = s[i]
    BY <1>4, <2>1, <2>2 DEF DigitsUpTo
  <2>4. \A i \in 0 .. n: ~(i < 10) => i \div 10 \in 0 .. n - 1
    BY <2>1
  <2>5. r = [i \in 0 .. n |-> IF i < 10 THEN 1 ELSE 1 + r[i \div 10]]
    BY <2>3, <2>4
  <2>6. DigitsUpTo(n, r)
    BY <2>5 DEF DigitsUpTo
  <2>7. QED
    BY <2>6
<1>5. QED
  BY <1>3, <1>4

(* ... and only one. *)
LEMMA DigitsUnique ==
  ASSUME NEW m \in Nat, NEW n \in Nat, NEW s, NEW t, DigitsUpTo(m, s), DigitsUpTo(n, t),
         NEW k \in Nat, k <= m, k <= n
  PROVE  s[k] = t[k]
<1> DEFINE T == {i \in Nat: i <= m /\ i <= n /\ s[i] # t[i]}
<1>1. SUFFICES ASSUME T # {} PROVE FALSE
  OBVIOUS
<1>2. PICK i \in T: \A u \in T: i <= u
  BY <1>1, FirstExists
<1>3. i \in 0 .. m /\ i \in 0 .. n
  OBVIOUS
<1>4. /\ s[i] = IF i < 10 THEN 1 ELSE 1 + s[i \div 10]
      /\ t[i] = IF i < 10 THEN 1 ELSE 1 + t[i \div 10]
  BY <1>3 DEF DigitsUpTo
<1>5. ~(i < 10)
  BY <1>2, <1>4
<1>6. i \div 10 \in Nat /\ i \div 10 < i
  BY <1>3, <1>5
<1>7. i \div 10 \notin T
  BY <1>2, <1>6
<1>8. s[i \div 10] = t[i \div 10]
  BY <1>3, <1>6, <1>7
<1>9. QED
  BY <1>2, <1>4, <1>5, <1>8

(* Decimal is what its equation says. *)
LEMMA DecimalValue ==
  ASSUME NEW n \in Nat
  PROVE  Decimal[n] = IF n < 10 THEN 1 ELSE 1 + Decimal[n \div 10]
<1> DEFINE table(m) == CHOOSE s: DigitsUpTo(m, s)
           f == [m \in Nat |-> table(m)[m]]
<1>1. \A m \in Nat: DigitsUpTo(m, table(m))
  BY DigitsExist
<1>2. ASSUME NEW m \in Nat
      PROVE  f[m] = IF m < 10 THEN 1 ELSE 1 + f[m \div 10]
  <2>1. table(m)[m] = IF m < 10 THEN 1 ELSE 1 + table(m)[m \div 10]
    <3>1. PICK s: s = table(m)
      OBVIOUS
    <3>2. DigitsUpTo(m, s) /\ m \in 0 .. m
      BY <1>1, <3>1
    <3>3. s[m] = IF m < 10 THEN 1 ELSE 1 + s[m \div 10]
      BY <3>2 DEF DigitsUpTo
    <3>4. QED
      BY <3>1, <3>3
  <2>2. CASE m < 10
    BY <2>1, <2>2
  <2>3. CASE ~(m < 10)
    <3>1. m \div 10 \in Nat /\ m \div 10 <= m
      BY <2>3
    <3>2. PICK k \in Nat: k = m \div 10
      BY <3>1
    <3>3. DigitsUpTo(m, table(m)) /\ DigitsUpTo(k, table(k)) /\ k <= m /\ k <= k
      BY <1>1, <3>1, <3>2
    <3> HIDE DEF table
    <3>4. table(m)[k] = table(k)[k]
      BY <3>3, DigitsUnique
    <3>5. QED
      BY <2>1, <2>3, <3>2, <3>4
  <2>4. QED
    BY <2>2, <2>3
<1> HIDE DEF f
<1>3. f = [m \in Nat |-> IF m < 10 THEN 1 ELSE 1 + f[m \div 10]]
  <2>1. f = [m \in Nat |-> f[m]]
    BY DEF f
  <2>2. QED
    BY <1>2, <2>1
<1>4. Decimal = [m \in Nat |-> IF m < 10 THEN 1 ELSE 1 + Decimal[m \div 10]]
  BY <1>3 DEF Decimal
<1>5. QED
  BY <1>4

(* A larger number has no fewer decimal digits, so that the theorems below *)
(* hold of format!("{offset}").                                            *)
THEOREM DecimalFits ==
  ASSUME Layouts \subseteq Attachments, \A n \in Nat: Digits(n) = Decimal[n]
  PROVE  Lengths
<1> DEFINE Fits(n) == Decimal[n] \in Nat /\ Decimal[n] >= 1 /\ \A m \in 0 .. n: Decimal[m] <= Decimal[n]
           T == {n \in Nat: ~Fits(n)}
<1>1. T = {}
  <2>1. SUFFICES ASSUME T # {} PROVE FALSE
    OBVIOUS
  <2>2. PICK n \in T: \A u \in T: n <= u
    BY <2>1, FirstExists
  <2>3. \A m \in 0 .. n: m < 10 => Decimal[m] = 1
    BY DecimalValue
  <2>4. CASE n < 10
    BY <2>3, <2>4
  <2>5. CASE ~(n < 10)
    <3>1. PICK k \in Nat: k = n \div 10 /\ k < n
      BY <2>5
    <3>2. Fits(k)
      BY <2>2, <3>1
    <3>3. Decimal[n] = 1 + Decimal[k]
      BY <2>5, <3>1, DecimalValue
    <3>4. ASSUME NEW m \in 0 .. n PROVE Decimal[m] <= Decimal[n]
      <4>1. CASE m < 10
        BY <2>3, <3>2, <3>3, <4>1
      <4>2. CASE ~(m < 10)
        <5>1. PICK j \in 0 .. k: j = m \div 10
          BY <3>1, <4>2
        <5>2. Decimal[m] = 1 + Decimal[j]
          BY <4>2, <5>1, DecimalValue
        <5>3. Decimal[j] \in Nat
          BY <2>2, <3>1, <5>1
        <5>4. QED
          BY <3>2, <3>3, <5>1, <5>2, <5>3
      <4>3. QED
        BY <4>1, <4>2
    <3>5. Fits(n)
      BY <3>2, <3>3, <3>4
    <3>6. QED
      BY <3>5
  <2>6. QED
    BY <2>4, <2>5
<1>2. \A n \in Nat: Fits(n)
  BY <1>1
<1>3. \A n \in Nat: Digits(n) \in Nat
  BY <1>2
<1>4. ASSUME NEW m \in Nat, NEW n \in Nat, m <= n PROVE Digits(m) <= Digits(n)
  <2>1. m \in 0 .. n
    BY <1>4
  <2>2. QED
    BY <1>2, <2>1
<1>5. QED
  BY <1>3, <1>4 DEF Lengths

-------------------------------------------------------------------------------
(* The invariant *)

Shape ==
  /\ attachments \in Attachments /\ content \in Int /\ total \in Int
  /\ round \in 1 .. MaxRounds
  /\ outcome \in {"iterating", "relocated", "negative", "divergent"}

(* What the length of the edited locations would be for the first guess. *)
First == LocationsDelta(attachments, content)
Now == LocationsDelta(attachments, total)

(* The guesses have gone up so far, or down, by one at least in every      *)
(* round but the first two, and the next one goes no other way.            *)
GoneUp ==
  /\ total >= content /\ Now >= total - content
  /\ round >= 2 => total >= content + First + (round - 2)
GoneDown ==
  /\ total <= content
  /\ ~BelowZero(attachments, total) => Now <= total - content
  /\ round >= 2 => total <= content + First - (round - 2)
Direction ==
  ~BelowZero(attachments, content) =>
    /\ round = 1 => total = content
    /\ GoneUp \/ GoneDown

(* No shift that was passed is a consistent one. *)
Passed(t) == \/ content <= t /\ t < total
             \/ total < t /\ t <= content
NonePassed == \A t \in Int: Passed(t) => ~Consistent(t)

(* Without a first guess to render there is no other. *)
Stuck == BelowZero(attachments, content) => total = content

IInv ==
  /\ Shape /\ Direction /\ Stuck /\ NonePassed
  /\ outcome = "relocated" => Consistent(total)

(* The first guess has no direction yet. *)
LEMMA InitInv ==
  ASSUME Lengths, Init
  PROVE  IInv
<1>1. Shape
  BY RelocationAssumption DEF Init, Shape, Lengths
<1>2. Stuck /\ NonePassed /\ outcome # "relocated"
  BY <1>1 DEF Init, Stuck, NonePassed, Passed, Shape
<1>3. Direction
  <2>1. SUFFICES ASSUME ~BelowZero(attachments, content)
                 PROVE  GoneUp \/ GoneDown
    BY DEF Init, Direction
  <2>2. First \in Int /\ Now = First /\ total = content /\ round = 1 /\ content \in Int
    BY <1>1, <2>1, DeltaMonotone DEF First, Now, Init, Shape
  <2>3. QED
    BY <2>2 DEF GoneUp, GoneDown
<1>4. QED
  BY <1>1, <1>2, <1>3 DEF IInv

(* A round moves the guess, or ends the loop. *)
LEMMA RoundEffect ==
  ASSUME IInv, Round
  PROVE  /\ UNCHANGED <<attachments, content>>
         /\ \/ /\ ~BelowZero(attachments, total) /\ total # content + Now /\ total' = content + Now
               /\ round' = round + 1 /\ round < MaxRounds /\ outcome' = "iterating"
            \/ /\ UNCHANGED <<total, round>>
               /\ outcome' \in {"relocated", "negative", "divergent"}
               /\ outcome' = "relocated" => ~BelowZero(attachments, total) /\ content + Now = total
BY DEF Round, Give, Needed, Now, IInv, Shape

(* A round passes no consistent shift: those before the last guess were    *)
(* none, and between the last guess and the next each needs to be as far   *)
(* as the next at least.                                                   *)
LEMMA PassesNone ==
  ASSUME Lengths, IInv, ~BelowZero(attachments, total), total # content + Now,
         total' = content + Now, UNCHANGED <<attachments, content>>
  PROVE  Stuck' /\ NonePassed'
<1>1. /\ attachments \in Attachments /\ content \in Int /\ total \in Int /\ NonePassed
      /\ ~BelowZero(attachments, content)
  BY DEF IInv, Shape, Stuck
<1>2. Now \in Int
  BY <1>1, DeltaMonotone DEF Now
<1>3. ASSUME NEW t \in Int, Passed(t)' PROVE ~Consistent(t)
  <2>1. SUFFICES ASSUME Consistent(t) PROVE FALSE
    OBVIOUS
  <2>2. ~Passed(t)
    BY <1>1, <2>1 DEF NonePassed
  <2>3. LocationsDelta(attachments, t) = t - content /\ ~BelowZero(attachments, t) /\ t # total
    <3>1. Needed(attachments, content, t) = t /\ ~BelowZero(attachments, t)
      BY <2>1 DEF Consistent
    <3>2. LocationsDelta(attachments, t) \in Int
      BY <1>1, <3>1, DeltaMonotone
    <3>3. t # total
      BY <3>1 DEF Needed, Now
    <3>4. QED
      BY <1>1, <3>1, <3>2, <3>3 DEF Needed
  <2>4. (total >= content /\ Now >= total - content) \/ (total <= content /\ Now <= total - content)
    BY <1>1 DEF IInv, Direction, GoneUp, GoneDown
  <2>5. \/ total < t /\ t < content + Now
        \/ content + Now < t /\ t < total
    BY <1>1, <1>2, <1>3, <2>2, <2>3, <2>4 DEF Passed
  <2>6. CASE total < t /\ t < content + Now
    <3>1. Now <= LocationsDelta(attachments, t)
      BY <1>1, <2>6, DeltaMonotone DEF Now
    <3>2. QED
      BY <1>1, <1>2, <2>3, <2>6, <3>1
  <2>7. CASE content + Now < t /\ t < total
    <3>1. LocationsDelta(attachments, t) <= Now
      BY <1>1, <2>3, <2>7, DeltaMonotone DEF Now
    <3>2. QED
      BY <1>1, <1>2, <2>3, <2>7, <3>1
  <2>8. QED
    BY <2>5, <2>6, <2>7
<1>4. NonePassed'
  BY <1>3 DEF NonePassed, Consistent
<1>5. QED
  BY <1>1, <1>4 DEF Stuck

(* The invariant is inductive. *)
LEMMA InvStep ==
  ASSUME Lengths, IInv, [Next]_vars
  PROVE  IInv'
<1>1. CASE UNCHANGED vars
  BY <1>1 DEF vars, IInv, Shape, Direction, GoneUp, GoneDown, First, Now, Stuck, NonePassed, Passed, Consistent
<1>2. CASE Round
  <2>1. Shape
    BY DEF IInv
  <2>2. CASE /\ UNCHANGED <<attachments, content, total, round>>
             /\ outcome' \in {"relocated", "negative", "divergent"}
             /\ outcome' = "relocated" => ~BelowZero(attachments, total) /\ content + Now = total
    <3>1. Shape'
      BY <2>1, <2>2 DEF Shape
    <3>2. Stuck' /\ NonePassed' /\ (outcome' = "relocated" => Consistent(total)')
      BY <2>2 DEF IInv, Stuck, NonePassed, Passed, Consistent, Needed, Now
    <3>3. Direction'
      BY <2>2 DEF IInv, Direction, GoneUp, GoneDown, First, Now
    <3>4. QED
      BY <3>1, <3>2, <3>3 DEF IInv
  <2>3. CASE /\ UNCHANGED <<attachments, content>>
             /\ ~BelowZero(attachments, total) /\ total # content + Now /\ total' = content + Now
             /\ round' = round + 1 /\ round < MaxRounds /\ outcome' = "iterating"
    <3>1. Now \in Int
      BY <2>1, <2>3, DeltaMonotone DEF Now, Shape
    <3>2. Shape'
      BY <2>1, <2>3, <3>1, RelocationAssumption DEF Shape
    <3>3. Stuck' /\ NonePassed' /\ outcome' # "relocated"
      BY <2>3, PassesNone
    <3>4. Direction'
      <4>1. SUFFICES ASSUME ~BelowZero(attachments, content)
                     PROVE  (GoneUp \/ GoneDown)'
        BY <2>1, <2>3 DEF Direction, Shape
      <4>2. First \in Int /\ First' = First
        BY <2>1, <2>3, <4>1, DeltaMonotone DEF First, Shape
      <4>3. round = 1 => total = content /\ Now = First
        BY <4>1 DEF IInv, Direction, First, Now
      <4>4. CASE GoneUp
        <5>1. total' >= total + 1 /\ total' >= content
          BY <2>1, <2>3, <3>1, <4>4 DEF GoneUp, Shape
        <5>2. Now' \in Int /\ Now' >= Now
          BY <2>1, <2>3, <3>2, <5>1, DeltaMonotone DEF Now, Shape
        <5>3. total' >= content + First + (round' - 2)
          BY <2>1, <2>3, <3>1, <4>2, <4>3, <4>4, <5>1 DEF GoneUp, Shape
        <5>4. QED
          BY <2>1, <2>3, <3>1, <4>2, <5>1, <5>2, <5>3 DEF GoneUp, Shape
      <4>5. CASE GoneDown
        <5>1. total' <= total - 1 /\ total' <= content
          BY <2>1, <2>3, <3>1, <4>5 DEF GoneDown, Shape
        <5>2. ~BelowZero(attachments, total') => Now' \in Int /\ Now' <= Now
          BY <2>1, <2>3, <3>2, <5>1, DeltaMonotone DEF Now, Shape
        <5>3. total' <= content + First - (round' - 2)
          BY <2>1, <2>3, <3>1, <4>2, <4>3, <4>5, <5>1 DEF GoneDown, Shape
        <5>4. QED
          BY <2>1, <2>3, <3>1, <4>2, <5>1, <5>2, <5>3 DEF GoneDown, Shape
      <4>6. QED
        BY <2>3, <4>1, <4>4, <4>5 DEF IInv, Direction
    <3>5. QED
      BY <3>2, <3>3, <3>4 DEF IInv
  <2>4. QED
    BY <1>2, <2>2, <2>3, RoundEffect
<1>3. QED
  BY <1>1, <1>2 DEF Next

(* Hence it holds in every state. *)
LEMMA Invariant == Lengths => (Spec => []IInv)
<1> SUFFICES ASSUME Lengths PROVE Spec => []IInv
  OBVIOUS
<1>1. Init => IInv
  BY InitInv
<1>2. IInv /\ [Next]_vars => IInv'
  BY InvStep
<1>3. QED
  BY <1>1, <1>2, PTL DEF Spec

-------------------------------------------------------------------------------
(* What follows *)

(* When the loop returns Ok, the header with the new offsets in it has     *)
(* grown by exactly what they were shifted by, none is negative, and no    *)
(* smaller shift in that direction would have done; when it does not, none *)
(* of those it tried or passed would have.                                 *)
THEOREM NearestIsFound == Lengths => (Spec => []NearestShift)
<1>1. IInv => NearestShift
  <2> SUFFICES ASSUME IInv PROVE NearestShift
    OBVIOUS
  <2>1. content \in Int /\ total \in Int /\ NonePassed
    BY DEF IInv, Shape
  <2>2. ASSUME NEW t \in (content .. total) \cup (total .. content), t # total PROVE ~Consistent(t)
    <3>1. t \in Int /\ Passed(t)
      BY <2>1, <2>2 DEF Passed
    <3>2. QED
      BY <2>1, <3>1 DEF NonePassed
  <2>3. QED
    BY <2>2 DEF IInv, NearestShift
<1>2. QED
  BY <1>1, Invariant, PTL

(* No more rounds are run than two and one for every digit that the        *)
(* offsets gain or lose between the first guess and the last.              *)
THEOREM RoundsPaid == Lengths => (Spec => []RoundsArePaidFor)
<1> SUFFICES ASSUME Lengths PROVE Spec => []RoundsArePaidFor
  OBVIOUS
<1>1. IInv => RoundsArePaidFor
  <2> SUFFICES ASSUME IInv, ~BelowZero(attachments, total), ~BelowZero(attachments, content)
               PROVE  round <= 2 + (IF Now - First < 0 THEN -(Now - First) ELSE Now - First)
    BY DEF RoundsArePaidFor, Now, First
  <2>1. First \in Int /\ Now \in Int /\ total \in Int /\ content \in Int /\ round \in Nat
    BY DeltaMonotone, RelocationAssumption DEF IInv, Shape, First, Now
  <2>2. GoneUp \/ GoneDown
    BY DEF IInv, Direction
  <2>3. CASE GoneUp
    BY <2>1, <2>3 DEF GoneUp
  <2>4. CASE GoneDown
    BY <2>1, <2>4 DEF GoneDown
  <2>5. QED
    BY <2>2, <2>3, <2>4
<1>2. QED
  BY <1>1, Invariant, PTL

(* A guess that went up is never followed by a lower one, nor one that     *)
(* went down by a higher one, so the rounds cannot oscillate.              *)
THEOREM NeverTurnsBack == Lengths => (Spec => OneDirection)
<1> SUFFICES ASSUME Lengths PROVE Spec => OneDirection
  OBVIOUS
<1> DEFINE Onward ==
      LET next == Needed(attachments, content, total')
      IN  \/ total' >= total /\ (next >= total' \/ BelowZero(attachments, total'))
          \/ total' <= total /\ (next <= total' \/ BelowZero(attachments, total'))
<1>1. IInv /\ [Next]_vars => [Onward]_total
  <2> SUFFICES ASSUME IInv, [Next]_vars, total' # total PROVE Onward
    OBVIOUS
  <2>1. /\ ~BelowZero(attachments, total) /\ total' = content + Now
        /\ UNCHANGED <<attachments, content>>
    BY RoundEffect DEF Next, vars
  <2>2. Shape /\ Shape'
    BY InvStep DEF IInv
  <2>3. Now \in Int /\ Now' = LocationsDelta(attachments, total')
    BY <2>1, <2>2, DeltaMonotone DEF Now, Shape
  <2>4. CASE total' >= total
    <3>1. Now' \in Int /\ Now' >= Now
      BY <2>1, <2>2, <2>4, DeltaMonotone DEF Now, Shape
    <3>2. Needed(attachments, content, total') >= total'
      BY <2>1, <2>2, <2>3, <3>1 DEF Needed, Shape
    <3>3. QED
      BY <2>4, <3>2
  <2>5. CASE total' <= total
    <3>1. ~BelowZero(attachments, total') => Now' \in Int /\ Now' <= Now
      BY <2>1, <2>2, <2>5, DeltaMonotone DEF Now, Shape
    <3>2. ~BelowZero(attachments, total') => Needed(attachments, content, total') <= total'
      BY <2>1, <2>2, <2>3, <3>1 DEF Needed, Shape
    <3>3. QED
      BY <2>5, <3>2
  <2>6. QED
    BY <2>2, <2>4, <2>5 DEF Shape
<1>2. QED
  BY <1>1, Invariant, PTL DEF Spec, OneDirection
===============================================================================
