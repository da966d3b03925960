---------------------------- MODULE HeaderApiProofs ----------------------------
(******************************************************************************)
(* Theorems about HeaderApi, for headers of every length and for every        *)
(* choice of names, values, batches and properties.  HeaderApi implements     *)
(* HeaderContract: every call, the ones that loop included, changes the       *)
(* occurrences it names and no others, in one step as far as its caller sees. *)
(******************************************************************************)
EXTENDS HeaderApi, SequenceTheorems, WellFoundedInduction, TLAPS

-------------------------------------------------------------------------------
(* Lookup *)

(* The naturals are well-founded under <. *)
Less == {p \in Nat \X Nat: p[1] < p[2]}

(* No descending chain of positions is infinite. *)
LEMMA LessIsWellFounded == IsWellFoundedOn(Less, Nat)
<1>1. Less = OpToRel(<, Nat)
  BY Zenon DEF Less, OpToRel
<1>2. QED
  BY <1>1, NatLessThanWellFounded, Zenon

(* A set of positions has a first one. *)
LEMMA FirstIsLeast ==
  ASSUME NEW S \in SUBSET Nat, S # {}
  PROVE  FirstOf(S) \in S /\ \A j \in S: FirstOf(S) <= j
<1>1. PICK i \in S: \A j \in S: ~ (<<j, i>> \in Less)
  BY LessIsWellFounded, WFMin, Zenon
<1>2. ASSUME NEW j \in S, j < i
      PROVE  FALSE
  <2>1. <<j, i>> \in Nat \X Nat
    OBVIOUS
  <2>2. <<j, i>>[1] < <<j, i>>[2]
    BY <1>2
  <2>3. <<j, i>> \in Less
    BY <2>1, <2>2 DEF Less
  <2>4. QED
    BY <2>3, <1>1
<1>3. \A j \in S: i <= j
  BY <1>2
<1>4. QED
  BY <1>3 DEF FirstOf

(* A lookup finds one of the keywords with the name, or none. *)
LEMMA IndicesArePositions ==
  ASSUME NEW kws \in Seq(Keyword), NEW name \in Names
  PROVE  /\ Indices(kws, name) \in SUBSET (1 .. Len(kws))
         /\ Indices(kws, name) \in SUBSET Nat
BY DEF Indices

(* A key is a name with or without an occurrence number. *)
LEMMA KeyShape ==
  ASSUME NEW key \in Key
  PROVE  key.name \in Names /\ (key.bare = TRUE \/ key.bare = FALSE)
<1>1. CASE key \in {Bare(name): name \in Names}
  BY <1>1 DEF Bare
<1>2. CASE key \in [name: Names, bare: {FALSE}, n: Nths]
  BY <1>2
<1>3. QED
  BY <1>1, <1>2 DEF Key

(* What a resolved key is: a position holding the key's name, or the       *)
(* absence of the name, or an error.                                       *)
LEMMA ResolveType ==
  ASSUME NEW kws \in Seq(Keyword), NEW key \in Key
  PROVE  LET r == Resolve(kws, key) IN
         /\ r.tag \in {"some", "none"} \cup Errors
         /\ r.tag = "some" => r.i \in Indices(kws, key.name)
         /\ r.tag = "none" <=> Indices(kws, key.name) = {}
<1> DEFINE hits == Indices(kws, key.name)
           nth == NthOf(hits, key.n)
           r == Resolve(kws, key)
<1>1. key.name \in Names /\ (key.bare = TRUE \/ key.bare = FALSE)
  BY KeyShape
<1>2. hits \in SUBSET Nat
  BY <1>1, IndicesArePositions
<1>3. nth \in SUBSET hits /\ nth \in SUBSET Nat
  BY <1>2 DEF NthOf
<1>4. CASE hits = {}
  BY <1>4 DEF Resolve, Missing, Found, Errors
<1>5. CASE hits # {} /\ key.bare
  <2>1. FirstOf(hits) \in hits
    BY <1>2, <1>5, FirstIsLeast
  <2>2. QED
    BY <1>5, <2>1 DEF Resolve, Missing, Found, Errors
<1>6. CASE hits # {} /\ ~key.bare
  <2>1. nth # {} => FirstOf(nth) \in hits
    BY <1>3, FirstIsLeast
  <2>2. QED
    BY <1>6, <2>1 DEF Resolve, Missing, Found, Errors
<1>7. QED
  BY <1>1, <1>4, <1>5, <1>6

-------------------------------------------------------------------------------
(* Edits of the vector *)

(* Vec::remove leaves one keyword fewer, the later ones moved up. *)
LEMMA DeleteAtShape ==
  ASSUME NEW kws \in Seq(Keyword), NEW i \in 1 .. Len(kws)
  PROVE  /\ DeleteAt(kws, i) \in Seq(Keyword)
         /\ Len(DeleteAt(kws, i)) = Len(kws) - 1
         /\ DOMAIN DeleteAt(kws, i) = 1 .. Len(kws) - 1
         /\ \A j \in 1 .. Len(kws) - 1:
              DeleteAt(kws, i)[j] = IF j < i THEN kws[j] ELSE kws[j + 1]
BY DEF DeleteAt

(* A push leaves the old keywords and a new last one. *)
LEMMA PushedShape ==
  ASSUME NEW kws \in Seq(Keyword), NEW name \in Names, NEW value \in Values
  PROVE  /\ Pushed(kws, name, value) \in Seq(Keyword)
         /\ Len(Pushed(kws, name, value)) = Len(kws) + 1
         /\ DOMAIN Pushed(kws, name, value) = 1 .. Len(kws) + 1
         /\ \A j \in 1 .. Len(kws): Pushed(kws, name, value)[j] = kws[j]
         /\ Pushed(kws, name, value)[Len(kws) + 1]
              = [name |-> name, value |-> value, comment |-> NoComment]
BY ApiAssumption DEF Pushed, Keyword

-------------------------------------------------------------------------------
(* One keyword's call *)

(* A new value or comment in one slot leaves a keyword there. *)
LEMMA UpdatedShape ==
  ASSUME NEW kws \in Seq(Keyword), NEW i \in 1 .. Len(kws),
         NEW value \in Values, NEW comment \in Comments
  PROVE  /\ [kws EXCEPT ![i].value = value] \in Seq(Keyword)
         /\ [kws EXCEPT ![i].comment = comment] \in Seq(Keyword)
<1>1. kws[i] \in Keyword
  BY ElementOfSeq
<1>2. /\ [kws[i] EXCEPT !.value = value] \in Keyword
      /\ [kws[i] EXCEPT !.comment = comment] \in Keyword
  BY <1>1 DEF Keyword
<1>3. QED
  BY <1>2, ExceptSeq

(* set and set_with_comment compute a header and a result of the API. *)
LEMMA SetResultType ==
  ASSUME TypeOK, NEW key \in Key, NEW value \in Values
  PROVE  /\ SetResult(key, value).kws \in Seq(Keyword)
         /\ SetResult(key, value).tag \in {"ok"} \cup Errors
<1> DEFINE r == Resolve(keywords, key)
<1>1. keywords \in Seq(Keyword)
  BY DEF TypeOK
<1>2. key.name \in Names
  BY KeyShape
<1>3. r.tag \in {"some", "none"} \cup Errors
  BY <1>1, ResolveType
<1>4. CASE r.tag = "some"
  <2>1. r.i \in 1 .. Len(keywords)
    BY <1>1, <1>2, <1>4, ResolveType, IndicesArePositions
  <2>2. [keywords EXCEPT ![r.i].value = value] \in Seq(Keyword)
    BY <1>1, <2>1, ApiAssumption, UpdatedShape
  <2>3. QED
    BY <1>4, <2>2 DEF SetResult, Done, Errors
<1>5. CASE r.tag \in Errors
  BY <1>1, <1>5 DEF SetResult, Failed, Errors
<1>6. CASE r.tag = "none"
  <2>1. Pushed(keywords, key.name, value) \in Seq(Keyword)
    BY <1>1, <1>2, PushedShape
  <2>2. QED
    BY <1>1, <1>6, <2>1 DEF SetResult, Done, Failed, Errors
<1>7. QED
  BY <1>3, <1>4, <1>5, <1>6

(* The same of set_with_comment, whose second lookup may also miss. *)
LEMMA SetWithCommentResultType ==
  ASSUME TypeOK, NEW key \in Key, NEW value \in Values, NEW comment \in Comments
  PROVE  /\ SetWithCommentResult(key, value, comment).kws \in Seq(Keyword)
         /\ SetWithCommentResult(key, value, comment).tag \in {"ok"} \cup Errors
<1> DEFINE s == SetResult(key, value)
           r == Resolve(s.kws, key)
<1>1. s.kws \in Seq(Keyword) /\ s.tag \in {"ok"} \cup Errors
  BY SetResultType
<1>2. key.name \in Names
  BY KeyShape
<1>3. r.tag \in {"some", "none"} \cup Errors
  BY <1>1, ResolveType
<1>4. CASE s.tag # "ok"
  BY <1>1, <1>4 DEF SetWithCommentResult
<1>5. CASE s.tag = "ok" /\ r.tag = "some"
  <2>1. r.i \in 1 .. Len(s.kws)
    BY <1>1, <1>2, <1>5, ResolveType, IndicesArePositions
  <2>2. [s.kws EXCEPT ![r.i].comment = comment] \in Seq(Keyword)
    <3>1. PICK v \in Values: TRUE
      OBVIOUS
    <3>2. QED
      BY <1>1, <2>1, UpdatedShape
  <2>3. QED
    BY <1>5, <2>2 DEF SetWithCommentResult, Done, Errors
<1>6. CASE s.tag = "ok" /\ r.tag = "none"
  BY <1>1, <1>6 DEF SetWithCommentResult, Errors
<1>7. CASE s.tag = "ok" /\ r.tag \in Errors
  BY <1>1, <1>7 DEF SetWithCommentResult, Errors
<1>8. QED
  BY <1>1, <1>3, <1>4, <1>5, <1>6, <1>7

-------------------------------------------------------------------------------
(* Type correctness *)

(* A refused call keeps the shapes. *)
LEMMA RefuseType ==
  ASSUME TypeOK, NEW tag \in {"ok", "none"} \cup Errors, Refuse(tag)
  PROVE  TypeOK'
BY DEF TypeOK, Refuse, Return, Call

(* A call that returns a header and a result of the API keeps them. *)
LEMMA ApplyType ==
  ASSUME TypeOK, NEW s, s.kws \in Seq(Keyword), s.tag \in {"ok"} \cup Errors, Apply(s)
  PROVE  TypeOK'
BY DEF TypeOK, Apply, Return, Call

(* A loop that starts holds its arguments. *)
LEMMA BeginType ==
  ASSUME TypeOK, NEW op \in {"remove_all", "set_many", "remove_many"},
         NEW names \in Seq(Names), NEW values \in Seq(Values),
         op = "set_many" => Len(values) = Len(names),
         Begin(op, names, values, 1)
  PROVE  TypeOK'
<1>1. call' \in Call
  BY DEF TypeOK, Begin, Call
<1>2. QED
  BY <1>1 DEF TypeOK, Begin, Return

(* A loop that ends keeps them. *)
LEMMA FinishType == ASSUME TypeOK, Finish PROVE TypeOK'
BY DEF TypeOK, Finish, Return, Call, NoCall

(* A loop that moves its cursor, or counts, keeps its other locals. *)
LEMMA CallAdvances ==
  ASSUME NEW c \in Call, c # NoCall
  PROVE  /\ [c EXCEPT !.next = @ + 1] \in Call
         /\ [c EXCEPT !.next = @ + 1, !.count = @ + 1] \in Call
         /\ \A d \in {[c EXCEPT !.next = @ + 1], [c EXCEPT !.next = @ + 1, !.count = @ + 1]}:
              d.op = c.op /\ d.names = c.names /\ d.values = c.values /\ d.start = c.start
              /\ d.next = c.next + 1
<1>1. c \in [op: {"remove_all", "set_many", "remove_many"}, names: Seq(Names),
             values: Seq(Values), next: Nat \ {0}, count: Nat, start: Seq(Keyword)]
  BY DEF Call
<1>2. c.next + 1 \in Nat \ {0} /\ c.count + 1 \in Nat
  BY <1>1
<1>3. QED
  BY <1>1, <1>2 DEF Call

(* A property map with one entry added or replaced is a property map. *)
LEMMA PutPropertyType ==
  ASSUME TypeOK, NEW id \in PropIds, NEW p \in Property, PutProperty(id, p)
  PROVE  /\ DOMAIN properties' \subseteq PropIds
         /\ properties' \in [DOMAIN properties' -> Property]
BY DEF TypeOK, PutProperty

(* entry(id).or_default() is a property. *)
LEMMA EntryType ==
  ASSUME TypeOK, NEW id \in PropIds
  PROVE  EntryOrDefault(id) \in Property
BY ApiAssumption DEF TypeOK, EntryOrDefault, DefaultProperty, Property

(* Each call, and each iteration of a loop, keeps the declared shapes. *)
LEMMA TypeStep == TypeOK /\ [Next]_vars => TypeOK'
<1> SUFFICES ASSUME TypeOK, [Next]_vars PROVE TypeOK'
  OBVIOUS
<1> USE DEF TypeOK
<1>1. ASSUME NEW key \in Key, Get(key)
      PROVE  TypeOK'
  <2>1. Resolve(keywords, key).tag \in {"some", "none"} \cup Errors
    BY ResolveType
  <2>2. QED
    BY <1>1, <2>1, RefuseType DEF Get
<1>2. ASSUME NEW key \in Key, RemoveKey(key)
      PROVE  TypeOK'
  <2> DEFINE r == Resolve(keywords, key)
  <2>1. r.tag \in {"some", "none"} \cup Errors
    BY ResolveType
  <2>2. CASE r.tag = "some" /\ keywords' = DeleteAt(keywords, r.i) /\ Return("ok")
             /\ UNCHANGED <<properties, call>>
    <3>1. r.i \in 1 .. Len(keywords)
      BY <2>2, KeyShape, ResolveType, IndicesArePositions
    <3>2. keywords' \in Seq(Keyword)
      BY <2>2, <3>1, DeleteAtShape
    <3>3. QED
      BY <2>2, <3>2 DEF Return
  <2>3. CASE r.tag # "some" /\ Refuse(r.tag)
    BY <2>1, <2>3, RefuseType
  <2>4. QED
    BY <1>2, <2>2, <2>3 DEF RemoveKey
<1>3. ASSUME NEW key \in Key, NEW value \in Values, Set(key, value)
      PROVE  TypeOK'
  BY <1>3, SetResultType, ApplyType DEF Set
<1>4. ASSUME NEW key \in Key, NEW comment \in Comments, SetComment(key, comment)
      PROVE  TypeOK'
  <2> DEFINE r == Resolve(keywords, key)
  <2>1. r.tag \in {"some", "none"} \cup Errors
    BY ResolveType
  <2>2. CASE r.tag = "some" /\ keywords' = [keywords EXCEPT ![r.i].comment = comment]
             /\ Return("ok") /\ UNCHANGED <<properties, call>>
    <3>1. r.i \in 1 .. Len(keywords)
      BY <2>2, KeyShape, ResolveType, IndicesArePositions
    <3>2. keywords' \in Seq(Keyword)
      <4>1. keywords[r.i] \in Keyword
        BY <3>1, ElementOfSeq
      <4>2. [keywords[r.i] EXCEPT !.comment = comment] \in Keyword
        BY <4>1 DEF Keyword
      <4>3. QED
        BY <2>2, <3>1, <4>2, ExceptSeq
    <3>3. QED
      BY <2>2, <3>2 DEF Return
  <2>3. CASE r.tag # "some" /\ Refuse(r.tag)
    BY <2>1, <2>3, RefuseType
  <2>4. QED
    BY <1>4, <2>2, <2>3 DEF SetComment
<1>5. ASSUME NEW key \in Key, NEW value \in Values, NEW comment \in Comments,
             SetWithComment(key, value, comment)
      PROVE  TypeOK'
  BY <1>5, SetWithCommentResultType, ApplyType DEF SetWithComment
<1>6. ASSUME NEW name \in Names, RemoveAllBegin(name)
      PROVE  TypeOK'
  <2>1. <<name>> \in Seq(Names) /\ << >> \in Seq(Values)
    OBVIOUS
  <2>2. QED
    BY <1>6, <2>1, BeginType DEF RemoveAllBegin
<1>7. ASSUME NEW name \in Names, NEW value \in Values, AppendKey(name, value)
      PROVE  TypeOK'
  <2>1. Pushed(keywords, name, value) \in Seq(Keyword)
    BY PushedShape
  <2>2. "InvalidName" \in Errors
    BY DEF Errors
  <2>3. QED
    BY <1>7, <2>1, <2>2, RefuseType DEF AppendKey, Return
<1>8. ASSUME NEW b \in SetBatches, SetManyBegin(b.names, b.values)
      PROVE  TypeOK'
  <2>1. b.names \in Seq(Names) /\ b.values \in Seq(Values) /\ Len(b.values) = Len(b.names)
    BY ApiAssumption
  <2>2. \A i \in DOMAIN b.names: SetManyError(b.names, i) \in {"ok"} \cup Errors
    BY DEF SetManyError, Errors
  <2> DEFINE bad == {i \in DOMAIN b.names: SetManyError(b.names, i) # "ok"}
  <2>3. bad # {} => FirstOf(bad) \in bad
    <3>1. bad \in SUBSET Nat
      BY <2>1
    <3>2. QED
      BY <3>1, FirstIsLeast
  <2>4. CASE Begin("set_many", b.names, b.values, 1)
    BY <2>1, <2>4, BeginType
  <2>5. CASE bad # {} /\ Refuse(SetManyError(b.names, FirstOf(bad)))
    BY <2>2, <2>3, <2>5, RefuseType
  <2>6. QED
    BY <1>8, <2>4, <2>5 DEF SetManyBegin
<1>9. ASSUME NEW b \in RemoveBatches, RemoveManyBegin(b)
      PROVE  TypeOK'
  <2>1. b \in Seq(Names) /\ << >> \in Seq(Values)
    BY ApiAssumption
  <2>2. \A i \in DOMAIN b: RemoveManyError(b, i) \in {"ok"} \cup Errors
    BY DEF RemoveManyError, Errors
  <2> DEFINE bad == {i \in DOMAIN b: RemoveManyError(b, i) # "ok"}
  <2>3. bad # {} => FirstOf(bad) \in bad
    <3>1. bad \in SUBSET Nat
      BY <2>1
    <3>2. QED
      BY <3>1, FirstIsLeast
  <2>4. CASE Begin("remove_many", b, << >>, 1)
    BY <2>1, <2>4, BeginType
  <2>5. CASE bad # {} /\ Refuse(RemoveManyError(b, FirstOf(bad)))
    BY <2>2, <2>3, <2>5, RefuseType
  <2>6. QED
    BY <1>9, <2>4, <2>5 DEF RemoveManyBegin
<1>10. ASSUME RemoveAllStep
       PROVE  TypeOK'
  <2>1. call \in Call /\ call # NoCall
    BY <1>10 DEF RemoveAllStep, NoCall
  <2>2. call.next \in Nat \ {0}
    BY <2>1 DEF Call
  <2>3. CASE Finish
    BY <2>3, FinishType
  <2>4. CASE /\ call.next \in Indices(keywords, call.names[1])
             /\ keywords' = DeleteAt(keywords, call.next)
             /\ UNCHANGED <<properties, call, res>>
    <3>1. call.next \in 1 .. Len(keywords)
      BY <2>4 DEF Indices
    <3>2. keywords' \in Seq(Keyword)
      BY <2>4, <3>1, DeleteAtShape
    <3>3. QED
      BY <2>4, <3>2
  <2>5. CASE call' = [call EXCEPT !.next = @ + 1] /\ UNCHANGED <<keywords, properties, res>>
    BY <2>1, <2>2, <2>5, CallAdvances
  <2>6. QED
    BY <1>10, <2>3, <2>4, <2>5 DEF RemoveAllStep
<1>11. ASSUME SetManyStep
       PROVE  TypeOK'
  <2> DEFINE hits == Indices(keywords, call.names[call.next])
  <2>1. call \in Call /\ call # NoCall /\ call.op = "set_many"
    BY <1>11 DEF SetManyStep, NoCall
  <2>2. /\ call.next \in Nat \ {0} /\ call.names \in Seq(Names) /\ call.values \in Seq(Values)
        /\ Len(call.values) = Len(call.names)
    BY <2>1 DEF Call
  <2>3. CASE Finish
    BY <2>3, FinishType
  <2>4. CASE call.next \in DOMAIN call.names /\ ~Finish
    <3>1. call.names[call.next] \in Names /\ call.values[call.next] \in Values
      BY <2>2, <2>4
    <3>2. call' = [call EXCEPT !.next = @ + 1] /\ UNCHANGED <<properties, res>>
      BY <1>11, <2>4 DEF SetManyStep
    <3>3. call' \in Call /\ Len(call'.values) = Len(call'.names)
      BY <2>1, <2>2, <3>2, CallAdvances
    <3>4. CASE hits # {} /\ keywords' = [keywords EXCEPT ![FirstOf(hits)].value = call.values[call.next]]
      <4>1. FirstOf(hits) \in 1 .. Len(keywords)
        BY <3>1, <3>4, FirstIsLeast, IndicesArePositions
      <4>2. keywords' \in Seq(Keyword)
        <5>1. keywords[FirstOf(hits)] \in Keyword
          BY <4>1, ElementOfSeq
        <5>2. [keywords[FirstOf(hits)] EXCEPT !.value = call.values[call.next]] \in Keyword
          BY <3>1, <5>1 DEF Keyword
        <5>3. QED
          BY <3>4, <4>1, <5>2, ExceptSeq
      <4>3. QED
        BY <3>2, <3>3, <4>2
    <3>5. CASE hits = {} /\ keywords' = Pushed(keywords, call.names[call.next], call.values[call.next])
      BY <3>1, <3>2, <3>3, <3>5, PushedShape
    <3>6. QED
      BY <1>11, <2>4, <3>4, <3>5 DEF SetManyStep
  <2>5. QED
    BY <1>11, <2>3, <2>4 DEF SetManyStep
<1>12. ASSUME RemoveManyStep
       PROVE  TypeOK'
  <2> DEFINE hits == Indices(keywords, call.names[call.next])
  <2>1. call \in Call /\ call # NoCall /\ call.op = "remove_many"
    BY <1>12 DEF RemoveManyStep, NoCall
  <2>2. call.next \in Nat \ {0} /\ call.count \in Nat /\ call.names \in Seq(Names)
    BY <2>1 DEF Call
  <2>3. CASE Finish
    BY <2>3, FinishType
  <2>4. CASE call.next \in DOMAIN call.names /\ ~Finish
    <3>1. call.names[call.next] \in Names
      BY <2>2, <2>4
    <3>2. UNCHANGED <<properties, res>>
      BY <1>12, <2>4 DEF RemoveManyStep
    <3>3. CASE /\ hits # {} /\ keywords' = DeleteAt(keywords, FirstOf(hits))
               /\ call' = [call EXCEPT !.next = @ + 1, !.count = @ + 1]
      <4>1. FirstOf(hits) \in 1 .. Len(keywords)
        BY <3>1, <3>3, FirstIsLeast, IndicesArePositions
      <4>2. keywords' \in Seq(Keyword)
        BY <3>3, <4>1, DeleteAtShape
      <4>3. call' \in Call /\ call'.op = call.op
        BY <2>1, <2>2, <3>3, CallAdvances
      <4>4. QED
        BY <2>1, <3>2, <4>2, <4>3
    <3>4. CASE call' = [call EXCEPT !.next = @ + 1] /\ UNCHANGED keywords
      <4>1. call' \in Call /\ call'.op = call.op
        BY <2>1, <2>2, <3>4, CallAdvances
      <4>2. QED
        BY <2>1, <3>2, <3>4, <4>1
    <3>5. QED
      BY <1>12, <2>4, <3>3, <3>4 DEF RemoveManyStep
  <2>5. QED
    BY <1>12, <2>3, <2>4 DEF RemoveManyStep
<1>13. ASSUME NEW id \in PropIds, RemoveProperty(id)
       PROVE  TypeOK'
  <2>1. "none" \in {"ok", "none"} \cup Errors
    OBVIOUS
  <2>2. CASE Refuse("none")
    BY <2>1, <2>2, RefuseType
  <2>3. CASE /\ properties' = [i \in DOMAIN properties \ {id} |-> properties[i]]
             /\ Return("ok") /\ UNCHANGED <<keywords, call>>
    BY <2>3 DEF Return
  <2>4. QED
    BY <1>13, <2>2, <2>3 DEF RemoveProperty
<1>14. ASSUME NEW id \in PropIds, NEW text \in PropTexts, SetProperty(id, text)
       PROVE  TypeOK'
  <2>1. [EntryOrDefault(id) EXCEPT !.value = text] \in Property
    BY EntryType DEF Property
  <2>2. CASE Refuse("InvalidName")
    BY <2>2, RefuseType DEF Errors
  <2>3. CASE /\ PutProperty(id, [EntryOrDefault(id) EXCEPT !.value = text])
             /\ Return("ok") /\ UNCHANGED <<keywords, call>>
    BY <2>1, <2>3, PutPropertyType DEF Return
  <2>4. QED
    BY <1>14, <2>2, <2>3 DEF SetProperty
<1>15. ASSUME NEW id \in PropIds, NEW text \in PropTexts, NEW type \in PropTypes,
              SetPropertyWithType(id, text, type)
       PROVE  TypeOK'
  <2>1. [EntryOrDefault(id) EXCEPT !.value = text, !.type = type] \in Property
    BY EntryType DEF Property
  <2>2. CASE Refuse("InvalidName")
    BY <2>2, RefuseType DEF Errors
  <2>3. CASE /\ PutProperty(id, [EntryOrDefault(id) EXCEPT !.value = text, !.type = type])
             /\ Return("ok") /\ UNCHANGED <<keywords, call>>
    BY <2>1, <2>3, PutPropertyType DEF Return
  <2>4. QED
    BY <1>15, <2>2, <2>3 DEF SetPropertyWithType
<1>16. CASE UNCHANGED vars
  BY <1>16 DEF vars, Call
<1>17. QED
  BY <1>1, <1>2, <1>3, <1>4, <1>5, <1>6, <1>7, <1>8, <1>9, <1>10, <1>11, <1>12,
     <1>13, <1>14, <1>15, <1>16
  DEF Next, KeywordCall, LoopStep, PropertyCall

(* TypeOK holds in every reachable state: each call of the API, and each   *)
(* step of its loops, leaves keywords, properties and results of the       *)
(* declared shapes.                                                        *)
THEOREM TypeCorrect == Spec => []TypeOK
<1>1. Init => TypeOK
  <2>1. NoCall \in Call /\ NoCall.op # "set_many"
    BY DEF Call, NoCall
  <2>2. QED
    BY <2>1 DEF Init, TypeOK
<1>2. QED
  BY <1>1, TypeStep, PTL DEF Spec

-------------------------------------------------------------------------------
(* Where a name is found after an edit *)

(* A new value or comment moves no name. *)
LEMMA IndicesAfterUpdate ==
  ASSUME NEW kws \in Seq(Keyword), NEW i \in 1 .. Len(kws), NEW name \in Names,
         NEW value \in Values
  PROVE  LET new == [kws EXCEPT ![i].value = value] IN
         /\ Len(new) = Len(kws)
         /\ Indices(new, name) = Indices(kws, name)
         /\ new[i].value = value
         /\ \A j \in 1 .. Len(kws) \ {i}: new[j] = kws[j]
<1> DEFINE kw == [kws[i] EXCEPT !.value = value]
           new == [kws EXCEPT ![i].value = value]
<1>1. kws[i] \in Keyword
  BY ElementOfSeq
<1>2. kw \in Keyword /\ kw.name = kws[i].name /\ kw.value = value
  BY <1>1 DEF Keyword
<1>3. /\ Len(new) = Len(kws)
      /\ \A j \in 1 .. Len(kws): new[j] = IF j = i THEN kw ELSE kws[j]
  BY <1>2, ExceptSeq
<1>4. DOMAIN new = DOMAIN kws
  OBVIOUS
<1>5. QED
  BY <1>2, <1>3, <1>4 DEF Indices, SameName

(* A push adds its position to those of its own name only. *)
LEMMA IndicesAfterPush ==
  ASSUME NEW kws \in Seq(Keyword), NEW name \in Names, NEW pushed \in Names, NEW value \in Values
  PROVE  Indices(Pushed(kws, pushed, value), name)
           = Indices(kws, name) \cup (IF SameName(pushed, name) THEN {Len(kws) + 1} ELSE {})
<1> DEFINE new == Pushed(kws, pushed, value)
<1>1. /\ DOMAIN new = 1 .. Len(kws) + 1
      /\ \A j \in 1 .. Len(kws): new[j] = kws[j]
      /\ new[Len(kws) + 1] = [name |-> pushed, value |-> value, comment |-> NoComment]
  BY PushedShape
<1>2. DOMAIN kws = 1 .. Len(kws) /\ Len(kws) \in Nat
  BY LenProperties
<1> HIDE DEF new
<1>3. ASSUME NEW j
      PROVE  j \in Indices(new, name) <=>
               \/ j \in Indices(kws, name)
               \/ j = Len(kws) + 1 /\ SameName(pushed, name)
  <2>1. j \in Indices(new, name) <=> j \in 1 .. Len(kws) + 1 /\ SameName(new[j].name, name)
    BY <1>1 DEF Indices
  <2>2. j \in Indices(kws, name) <=> j \in 1 .. Len(kws) /\ SameName(kws[j].name, name)
    BY <1>2 DEF Indices
  <2>3. j \in 1 .. Len(kws) + 1 <=> j \in 1 .. Len(kws) \/ j = Len(kws) + 1
    BY <1>2
  <2>4. ~ (Len(kws) + 1 \in 1 .. Len(kws))
    BY <1>2
  <2>5. QED
    BY <1>1, <2>1, <2>2, <2>3, <2>4
<1>4. QED
  BY <1>3 DEF new

(* After a removal a name is where it was, or one position earlier. *)
LEMMA IndicesAfterDelete ==
  ASSUME NEW kws \in Seq(Keyword), NEW i \in 1 .. Len(kws), NEW name \in Names, NEW j \in Nat
  PROVE  j \in Indices(DeleteAt(kws, i), name) <=>
           \/ j < i /\ j \in Indices(kws, name)
           \/ j >= i /\ j + 1 \in Indices(kws, name)
<1> DEFINE new == DeleteAt(kws, i)
<1>1. /\ DOMAIN new = 1 .. Len(kws) - 1
      /\ \A k \in 1 .. Len(kws) - 1: new[k] = IF k < i THEN kws[k] ELSE kws[k + 1]
  BY DeleteAtShape
<1>2. DOMAIN kws = 1 .. Len(kws)
  BY LenProperties
<1>3. Len(kws) \in Nat
  BY LenProperties
<1> HIDE DEF new
<1>4. CASE j < i
  <2>1. j \in Indices(new, name) <=> j \in 1 .. Len(kws) - 1 /\ SameName(new[j].name, name)
    BY <1>1 DEF Indices
  <2>2. j \in Indices(kws, name) <=> j \in 1 .. Len(kws) /\ SameName(kws[j].name, name)
    BY <1>2 DEF Indices
  <2>3. j \in 1 .. Len(kws) - 1 => new[j] = kws[j]
    BY <1>1, <1>4
  <2>4. j \in 1 .. Len(kws) <=> j \in 1 .. Len(kws) - 1
    BY <1>3, <1>4
  <2>5. QED
    BY <1>4, <2>1, <2>2, <2>3, <2>4 DEF new
<1>5. CASE j >= i
  <2>1. j \in Indices(new, name) <=> j \in 1 .. Len(kws) - 1 /\ SameName(new[j].name, name)
    BY <1>1 DEF Indices
  <2>2. j + 1 \in Indices(kws, name) <=> j + 1 \in 1 .. Len(kws) /\ SameName(kws[j + 1].name, name)
    BY <1>2 DEF Indices
  <2>3. j \in 1 .. Len(kws) - 1 => new[j] = kws[j + 1]
    BY <1>1, <1>5
  <2>4. j + 1 \in 1 .. Len(kws) <=> j \in 1 .. Len(kws) - 1
    BY <1>3, <1>5
  <2>5. QED
    BY <1>5, <2>1, <2>2, <2>3, <2>4 DEF new
<1>6. QED
  BY <1>4, <1>5 DEF new

-------------------------------------------------------------------------------
(* The slots of the vector *)

(* A slot written without changing its name is an edit in place. *)
LEMMA UpdateIsInPlace ==
  ASSUME NEW kws \in Seq(Keyword), NEW i \in 1 .. Len(kws), NEW kw \in Keyword,
         kw.name = kws[i].name
  PROVE  InPlace(kws, [kws EXCEPT ![i] = kw])
BY ExceptSeq DEF InPlace

(* Vec::remove takes one slot out. *)
LEMMA DeleteIsOneGone ==
  ASSUME NEW kws \in Seq(Keyword), NEW i \in 1 .. Len(kws)
  PROVE  OneGone(kws, DeleteAt(kws, i))
<1>1. DOMAIN kws = 1 .. Len(kws)
  BY LenProperties
<1>2. Len(kws) \in Nat
  BY LenProperties
<1>3. /\ Len(DeleteAt(kws, i)) = Len(kws) - 1
      /\ \A j \in 1 .. Len(kws) - 1:
           DeleteAt(kws, i)[j] = IF j < i THEN kws[j] ELSE kws[j + 1]
  BY DeleteAtShape
<1>4. /\ \A j \in 1 .. i - 1: DeleteAt(kws, i)[j] = kws[j]
      /\ \A j \in i .. Len(kws) - 1: DeleteAt(kws, i)[j] = kws[j + 1]
  BY <1>2, <1>3
<1>5. QED
  BY <1>1, <1>3, <1>4 DEF OneGone

(* A push of a legal name adds one slot at the tail. *)
LEMMA PushIsOneAtTail ==
  ASSUME NEW kws \in Seq(Keyword), NEW name \in LegalNames, NEW value \in Values
  PROVE  OneAtTail(kws, Pushed(kws, name, value))
<1>1. name \in Names
  BY ApiAssumption
<1>2. DOMAIN kws = 1 .. Len(kws) /\ Len(kws) \in Nat
  BY LenProperties
<1> DEFINE new == Pushed(kws, name, value)
<1>3. /\ Len(new) = Len(kws) + 1
      /\ \A j \in 1 .. Len(kws): new[j] = kws[j]
      /\ new[Len(kws) + 1] = [name |-> name, value |-> value, comment |-> NoComment]
  BY <1>1, PushedShape
<1>4. new[Len(new)].name = name
  BY <1>2, <1>3
<1> HIDE DEF new
<1>5. QED
  BY <1>2, <1>3, <1>4 DEF OneAtTail, new

(* The three ways in which a step may change the vector. *)
SlotEdit(old, new) == InPlace(old, new) \/ OneGone(old, new) \/ OneAtTail(old, new)

(* set finds the same slot before and after it has written the value. *)
LEMMA ResolveAfterUpdate ==
  ASSUME NEW kws \in Seq(Keyword), NEW i \in 1 .. Len(kws), NEW value \in Values, NEW key \in Key
  PROVE  Resolve([kws EXCEPT ![i].value = value], key) = Resolve(kws, key)
<1> DEFINE new == [kws EXCEPT ![i].value = value]
<1>1. Indices(new, key.name) = Indices(kws, key.name)
  <2>1. key.name \in Names
    BY KeyShape
  <2>2. QED
    BY <2>1, IndicesAfterUpdate
<1>2. Repeated(new, key.name) = Repeated(kws, key.name)
  BY <1>1 DEF Repeated
<1> HIDE DEF new
<1>3. QED
  BY <1>1, <1>2 DEF Resolve, new

(* set edits one slot, or none. *)
LEMMA SetResultIsSlotEdit ==
  ASSUME TypeOK, NEW key \in Key, NEW value \in Values
  PROVE  LET s == SetResult(key, value) IN
         s.kws = keywords \/ (s.tag = "ok" /\ SlotEdit(keywords, s.kws))
<1> DEFINE r == Resolve(keywords, key)
<1>1. keywords \in Seq(Keyword)
  BY DEF TypeOK
<1>2. r.tag \in {"some", "none"} \cup Errors /\ key.name \in Names
  BY <1>1, ResolveType, KeyShape
<1>3. CASE r.tag = "some"
  <2>1. r.i \in 1 .. Len(keywords)
    BY <1>1, <1>2, <1>3, ResolveType, IndicesArePositions
  <2>2. keywords[r.i] \in Keyword
    BY <1>1, <2>1, ElementOfSeq
  <2>3. [keywords[r.i] EXCEPT !.value = value] \in Keyword
    BY <2>2 DEF Keyword
  <2>4. InPlace(keywords, [keywords EXCEPT ![r.i].value = value])
    <3>1. [keywords[r.i] EXCEPT !.value = value].name = keywords[r.i].name
      BY <2>2 DEF Keyword
    <3>2. QED
      BY <1>1, <2>1, <2>3, <3>1, UpdateIsInPlace
  <2>5. SetResult(key, value) = Done([keywords EXCEPT ![r.i].value = value])
    BY <1>3 DEF SetResult, Errors
  <2>6. QED
    BY <2>4, <2>5 DEF Done, SlotEdit
<1>4. CASE r.tag \in Errors
  BY <1>4 DEF SetResult, Failed, Errors
<1>5. CASE r.tag = "none"
  <2>1. CASE key.bare /\ key.name \in LegalNames
    <3>1. SetResult(key, value) = Done(Pushed(keywords, key.name, value))
      BY <1>5, <2>1 DEF SetResult, Errors
    <3>2. OneAtTail(keywords, Pushed(keywords, key.name, value))
      BY <1>1, <2>1, PushIsOneAtTail
    <3>3. QED
      BY <3>1, <3>2 DEF Done, SlotEdit
  <2>2. CASE key.bare /\ key.name \notin LegalNames
    BY <1>5, <2>2 DEF SetResult, Failed, Errors
  <2>3. CASE ~key.bare
    BY <1>5, <2>3 DEF SetResult, Failed, Errors
  <2>4. QED
    BY <2>1, <2>2, <2>3
<1>6. QED
  BY <1>2, <1>3, <1>4, <1>5

(* set_with_comment touches one slot, although it resolves the key twice. *)
LEMMA SetWithCommentResultIsSlotEdit ==
  ASSUME TypeOK, NEW key \in Key, NEW value \in Values, NEW comment \in Comments
  PROVE  LET t == SetWithCommentResult(key, value, comment) IN
         t.kws = keywords \/ SlotEdit(keywords, t.kws)
<1> DEFINE r == Resolve(keywords, key)
           s == SetResult(key, value)
           q == Resolve(s.kws, key)
           t == SetWithCommentResult(key, value, comment)
<1>1. keywords \in Seq(Keyword) /\ s.kws \in Seq(Keyword)
  BY SetResultType DEF TypeOK
<1>2. key.name \in Names /\ q.tag \in {"some", "none"} \cup Errors
  BY <1>1, KeyShape, ResolveType
<1>3. s.kws = keywords \/ (s.tag = "ok" /\ SlotEdit(keywords, s.kws))
  BY SetResultIsSlotEdit
<1>4. CASE s.tag # "ok" \/ q.tag # "some"
  <2>1. t.kws = s.kws
    BY <1>2, <1>4 DEF SetWithCommentResult, Errors
  <2>2. QED
    BY <1>3, <2>1
<1>5. CASE s.tag = "ok" /\ q.tag = "some"
  <2> DEFINE kw == [s.kws[q.i] EXCEPT !.comment = comment]
  <2>1. q.i \in 1 .. Len(s.kws)
    BY <1>1, <1>2, <1>5, ResolveType, IndicesArePositions
  <2>2. s.kws[q.i] \in Keyword
    BY <1>1, <2>1, ElementOfSeq
  <2>3. kw \in Keyword /\ kw.name = s.kws[q.i].name
    BY <2>2 DEF Keyword
  <2>4. t.kws = [s.kws EXCEPT ![q.i] = kw]
    BY <1>5 DEF SetWithCommentResult, Done, Errors
  <2> HIDE DEF kw
  <2>5. CASE r.tag = "some"
    <3>1. s = Done([keywords EXCEPT ![r.i].value = value])
      BY <2>5 DEF SetResult, Errors
    <3>2. r.i \in 1 .. Len(keywords)
      BY <1>1, <1>2, <2>5, ResolveType, IndicesArePositions
    <3>3. q = r
      <4>1. s.kws = [keywords EXCEPT ![r.i].value = value]
        BY <3>1 DEF Done
      <4>2. QED
        BY <1>1, <3>2, <4>1, ResolveAfterUpdate
    <3>4. keywords[r.i] \in Keyword
      BY <1>1, <3>2, ElementOfSeq
    <3> DEFINE first == [keywords[r.i] EXCEPT !.value = value]
    <3>5. first \in Keyword /\ first.name = keywords[r.i].name
      BY <3>4 DEF Keyword
    <3>6. /\ s.kws = [keywords EXCEPT ![r.i] = first]
          /\ s.kws[r.i] = first
      BY <1>1, <3>1, <3>2 DEF Done
    <3> HIDE DEF first
    <3>7. t.kws = [keywords EXCEPT ![r.i] = kw] /\ kw.name = keywords[r.i].name
      BY <1>1, <2>3, <2>4, <3>2, <3>3, <3>5, <3>6
    <3>8. InPlace(keywords, t.kws)
      BY <1>1, <2>3, <3>2, <3>7, UpdateIsInPlace
    <3>9. QED
      BY <3>8 DEF SlotEdit
  <2>6. CASE r.tag = "none"
    <3>1. s = Done(Pushed(keywords, key.name, value)) /\ key.name \in LegalNames
      BY <1>5, <2>6, KeyShape DEF SetResult, Failed, Errors
    <3>2. Indices(keywords, key.name) = {}
      BY <1>1, <2>6, ResolveType
    <3>3. q.i \in Indices(s.kws, key.name)
      BY <1>1, <1>5, ResolveType
    <3>4. q.i = Len(keywords) + 1
      BY <1>1, <1>2, <3>1, <3>2, <3>3, IndicesAfterPush DEF Done, SameName
    <3>5. OneAtTail(keywords, s.kws)
      BY <1>1, <3>1, PushIsOneAtTail DEF Done
    <3>6. /\ Len(t.kws) = Len(s.kws)
          /\ \A j \in 1 .. Len(s.kws): t.kws[j] = IF j = q.i THEN kw ELSE s.kws[j]
      BY <1>1, <2>1, <2>3, <2>4, ExceptSeq
    <3>7. OneAtTail(keywords, t.kws)
      <4>1. Len(keywords) \in Nat /\ DOMAIN keywords = 1 .. Len(keywords)
        BY <1>1, LenProperties
      <4>2. Len(s.kws) = Len(keywords) + 1
        BY <3>5 DEF OneAtTail
      <4>3. t.kws[Len(t.kws)].name \in LegalNames
        BY <2>3, <3>4, <3>5, <3>6, <4>1, <4>2 DEF OneAtTail
      <4>4. \A j \in DOMAIN keywords: t.kws[j] = keywords[j]
        BY <3>4, <3>5, <3>6, <4>1, <4>2 DEF OneAtTail
      <4>5. QED
        BY <3>6, <4>2, <4>3, <4>4 DEF OneAtTail
    <3>8. QED
      BY <3>7 DEF SlotEdit
  <2>7. CASE r.tag \in Errors
    BY <1>5, <2>7 DEF SetResult, Failed, Errors
  <2>8. QED
    BY <1>1, <2>5, <2>6, <2>7, ResolveType
<1>6. QED
  BY <1>4, <1>5

-------------------------------------------------------------------------------
(* What the loops have established *)

(* A name that is not repeated is found at one position. *)
LEMMA NotRepeatedIsUnique ==
  ASSUME NEW kws, NEW name
  PROVE  ~Repeated(kws, name) <=> \A i, j \in Indices(kws, name): i = j
BY DEF Repeated

(* A call that returns, or is refused, leaves no loop in progress. *)
LEMMA IdleProgress == ASSUME call' = NoCall PROVE BatchProgress'
BY DEF BatchProgress, NoCall

(* A loop that starts has established nothing yet. *)
LEMMA BeginProgress ==
  ASSUME TypeOK, NEW op \in {"remove_all", "set_many", "remove_many"}, NEW names \in Seq(Names),
         NEW values \in Seq(Values), Begin(op, names, values, 1),
         op = "set_many" => \A i \in DOMAIN names: names[i] \in LegalNames,
         op \in {"set_many", "remove_many"} => \A i \in DOMAIN names: ~Repeated(keywords, names[i])
  PROVE  BatchProgress'
<1>1. /\ call'.op = op /\ call'.names = names /\ call'.next = 1
      /\ call'.count = 0 /\ call'.start = keywords /\ keywords' = keywords
  BY DEF Begin
<1>2. Len(keywords) \in Nat
  BY DEF TypeOK
<1>3. 1 .. call'.next - 1 = {}
  BY <1>1
<1>4. QED
  BY <1>1, <1>2, <1>3 DEF BatchProgress, Repeated, Indices

(* remove_all: no keyword of the name is left behind the cursor. *)
LEMMA RemoveAllProgress ==
  ASSUME TypeOK, BatchProgress, RemoveAllStep PROVE BatchProgress'
<1> DEFINE name == call.names[1]
<1>1. /\ keywords \in Seq(Keyword) /\ call.op = "remove_all"
      /\ call \in Call /\ call # NoCall
  BY DEF TypeOK, RemoveAllStep, NoCall
<1>2. call.next \in Nat \ {0}
  BY <1>1 DEF Call
<1>3. Indices(keywords, name) \cap 1 .. call.next - 1 = {}
  BY <1>1 DEF BatchProgress
<1>4. CASE Finish
  BY <1>4, IdleProgress DEF Finish
<1>5. CASE /\ call.next \in Indices(keywords, name)
           /\ keywords' = DeleteAt(keywords, call.next)
           /\ UNCHANGED <<properties, call, res>>
  <2>1. call.next \in 1 .. Len(keywords) /\ Len(keywords) \in Nat
    BY <1>1, <1>5, LenProperties DEF Indices
  <2>2. /\ DOMAIN keywords' = 1 .. Len(keywords) - 1
        /\ \A j \in 1 .. Len(keywords) - 1:
             keywords'[j] = IF j < call.next THEN keywords[j] ELSE keywords[j + 1]
    BY <1>1, <1>5, <2>1, DeleteAtShape
  <2>3. Indices(keywords', name) \cap 1 .. call.next - 1 = {}
    <3>1. SUFFICES ASSUME NEW j \in 1 .. call.next - 1, j \in Indices(keywords', name)
                   PROVE  j \in Indices(keywords, name)
      BY <1>3
    <3>2. j \in 1 .. Len(keywords) - 1 /\ SameName(keywords'[j].name, name)
      BY <2>2, <3>1 DEF Indices
    <3>3. keywords'[j] = keywords[j] /\ j \in DOMAIN keywords
      BY <1>1, <1>2, <2>1, <2>2, <3>2
    <3>4. QED
      BY <3>2, <3>3 DEF Indices
  <2>4. QED
    BY <1>1, <1>5, <2>3 DEF BatchProgress
<1>6. CASE /\ call.next \in DOMAIN keywords \ Indices(keywords, name)
           /\ call' = [call EXCEPT !.next = @ + 1]
           /\ UNCHANGED <<keywords, properties, res>>
  <2>1. call'.op = "remove_all" /\ call'.names = call.names /\ call'.next = call.next + 1
    BY <1>1, <1>6, CallAdvances
  <2>2. 1 .. call'.next - 1 = (1 .. call.next - 1) \cup {call.next}
    BY <1>2, <2>1
  <2>3. Indices(keywords', name) = Indices(keywords, name)
    BY <1>6 
  <2>4. QED
    BY <1>3, <1>6, <2>1, <2>2, <2>3 DEF BatchProgress
<1>7. QED
  BY <1>4, <1>5, <1>6 DEF RemoveAllStep

(* set_many: every entry behind the cursor is in force, unless a later one *)
(* of the batch has the same name, and no name of the batch is repeated.   *)
LEMMA SetManyProgress ==
  ASSUME TypeOK, BatchProgress, SetManyStep PROVE BatchProgress'
<1> DEFINE names == call.names
           at == call.next
           name == names[at]
           value == call.values[at]
           hits == Indices(keywords, name)
           done == 1 .. at - 1
           Later(i, S) == \A j \in S: j > i => ~SameName(names[i], names[j])
<1>1. /\ keywords \in Seq(Keyword) /\ call.op = "set_many"
      /\ call \in Call /\ call # NoCall
      /\ Len(call.values) = Len(names)
  BY DEF TypeOK, SetManyStep, NoCall
<1>2. /\ at \in Nat \ {0} /\ names \in Seq(Names) /\ call.values \in Seq(Values)
      /\ Len(names) \in Nat /\ DOMAIN names = 1 .. Len(names)
  BY <1>1 DEF Call
<1>3. /\ \A i \in DOMAIN names: names[i] \in LegalNames
      /\ \A i \in DOMAIN names: ~Repeated(keywords, names[i])
      /\ \A i \in done: \E k \in Indices(keywords, names[i]):
           Later(i, done) => keywords[k].value = call.values[i]
  BY <1>1 DEF BatchProgress
<1>4. CASE Finish
  BY <1>4, IdleProgress DEF Finish
<1>5. CASE at \in DOMAIN names /\ ~Finish
  <2>1. name \in Names /\ value \in Values
    BY <1>1, <1>2, <1>5
  <2>2. call' = [call EXCEPT !.next = @ + 1]
    BY <1>5 DEF SetManyStep
  <2>3. /\ call'.op = "set_many" /\ call'.names = names /\ call'.values = call.values
        /\ call'.next = at + 1
    BY <1>1, <2>2, CallAdvances
  <2>4. 1 .. call'.next - 1 = done \cup {at}
    BY <1>2, <2>3
  <2>5. done \subseteq DOMAIN names
    BY <1>2, <1>5
  <2>6. \A i \in done: at > i
    BY <1>2
  <2>7. ASSUME \A i \in DOMAIN names: ~Repeated(keywords', names[i]),
               \A i \in done: Later(i, done \cup {at}) =>
                 \E k \in Indices(keywords', names[i]): keywords'[k].value = call.values[i],
               \A i \in done: Indices(keywords', names[i]) # {},
               \E k \in Indices(keywords', name): keywords'[k].value = value
        PROVE  BatchProgress'
    <3>1. \A i \in done \cup {at}: \E k \in Indices(keywords', names[i]):
            Later(i, done \cup {at}) => keywords'[k].value = call.values[i]
      BY <2>7
    <3>2. QED
      BY <1>3, <2>3, <2>4, <2>7, <3>1 DEF BatchProgress
  <2>8. CASE hits # {} /\ keywords' = [keywords EXCEPT ![FirstOf(hits)].value = value]
    <3> DEFINE f == FirstOf(hits)
    <3>1. f \in hits /\ f \in 1 .. Len(keywords)
      BY <1>1, <2>1, <2>8, FirstIsLeast, IndicesArePositions
    <3>2. /\ \A n \in Names: Indices(keywords', n) = Indices(keywords, n)
          /\ keywords'[f].value = value
          /\ \A j \in 1 .. Len(keywords) \ {f}: keywords'[j] = keywords[j]
      <4>1. keywords' = [keywords EXCEPT ![f].value = value]
        BY <2>8
      <4> HIDE DEF f, name, value, hits
      <4>2. QED
        <5>1. \A n \in Names: Indices([keywords EXCEPT ![f].value = value], n) = Indices(keywords, n)
          BY <1>1, <2>1, <3>1, IndicesAfterUpdate
        <5>2. LET new == [keywords EXCEPT ![f].value = value]
              IN  new[f].value = value /\ \A j \in 1 .. Len(keywords) \ {f}: new[j] = keywords[j]
          BY <1>1, <2>1, <3>1, IndicesAfterUpdate
        <5>3. QED
          BY <4>1, <5>1, <5>2
    <3>3. \A i \in DOMAIN names: ~Repeated(keywords', names[i])
      <4>1. SUFFICES ASSUME NEW i \in DOMAIN names
                     PROVE  ~Repeated(keywords', names[i])
        OBVIOUS
      <4>2. Indices(keywords', names[i]) = Indices(keywords, names[i])
        BY <1>2, <3>2
      <4>3. QED
        BY <1>3, <4>2, NotRepeatedIsUnique
    <3>4. ASSUME NEW i \in done, Later(i, done \cup {at})
          PROVE  \E k \in Indices(keywords', names[i]): keywords'[k].value = call.values[i]
      <4>1. PICK k \in Indices(keywords, names[i]):
              Later(i, done) => keywords[k].value = call.values[i]
        BY <1>3
      <4>2. Later(i, done)
        BY <3>4
      <4>3. ~SameName(names[i], name)
        BY <2>6, <3>4
      <4>4. k # f /\ k \in 1 .. Len(keywords)
        BY <1>1, <3>1, <4>3, LenProperties DEF Indices, SameName
      <4>5. names[i] \in Names
        BY <1>2, <2>5
      <4>6. k \in Indices(keywords', names[i]) /\ keywords'[k] = keywords[k]
        <5> HIDE DEF f, name, value, hits
        <5>1. QED
          BY <3>2, <4>4, <4>5
      <4>7. QED
        BY <4>1, <4>2, <4>6
    <3>5. ASSUME NEW i \in done PROVE Indices(keywords', names[i]) # {}
      <4>1. Indices(keywords, names[i]) # {}
        BY <1>3
      <4>2. names[i] \in Names
        BY <1>2, <2>5
      <4>3. QED
        BY <3>2, <4>1, <4>2
    <3>6. QED
      BY <2>1, <2>7, <3>1, <3>2, <3>3, <3>4, <3>5
  <2>9. CASE hits = {} /\ keywords' = Pushed(keywords, name, value)
    <3> DEFINE f == Len(keywords) + 1
    <3>1. \A n \in Names: Indices(keywords', n)
            = Indices(keywords, n) \cup (IF SameName(name, n) THEN {f} ELSE {})
      BY <1>1, <2>1, <2>9, IndicesAfterPush
    <3>2. /\ \A j \in 1 .. Len(keywords): keywords'[j] = keywords[j]
          /\ keywords'[f].value = value
      <4> HIDE DEF name, value, hits
      <4>1. keywords'[f] = [name |-> name, value |-> value, comment |-> NoComment]
        BY <1>1, <2>1, <2>9, PushedShape
      <4>2. QED
        BY <1>1, <2>1, <2>9, <4>1, PushedShape
    <3>3. \A n \in Names: SameName(name, n) => Indices(keywords, n) = {}
      BY <2>9 DEF Indices, SameName
    <3>4. \A i \in DOMAIN names: ~Repeated(keywords', names[i])
      <4>1. SUFFICES ASSUME NEW i \in DOMAIN names
                     PROVE  ~Repeated(keywords', names[i])
        OBVIOUS
      <4>2. names[i] \in Names
        BY <1>2
      <4>3. \/ Indices(keywords', names[i]) = Indices(keywords, names[i])
            \/ Indices(keywords', names[i]) = {f}
        BY <3>1, <3>3, <4>2
      <4>4. QED
        BY <1>3, <4>3, NotRepeatedIsUnique
    <3>5. ASSUME NEW i \in done, Later(i, done \cup {at})
          PROVE  \E k \in Indices(keywords', names[i]): keywords'[k].value = call.values[i]
      <4>1. PICK k \in Indices(keywords, names[i]):
              Later(i, done) => keywords[k].value = call.values[i]
        BY <1>3
      <4>2. names[i] \in Names /\ Later(i, done)
        BY <1>2, <2>5, <3>5
      <4>3. k \in 1 .. Len(keywords)
        BY <1>1, LenProperties DEF Indices
      <4>4. QED
        BY <3>1, <3>2, <4>1, <4>2, <4>3
    <3>6. \A i \in done: Indices(keywords', names[i]) # {}
      BY <1>2, <1>3, <2>5, <3>1
    <3>7. f \in Indices(keywords', name)
      BY <2>1, <3>1 DEF SameName
    <3>8. QED
      BY <2>7, <3>2, <3>4, <3>5, <3>6, <3>7
  <2>10. QED
    BY <1>5, <2>8, <2>9 DEF SetManyStep
<1>6. QED
  BY <1>4, <1>5 DEF SetManyStep

(* remove_many: no entry behind the cursor has a keyword left, and `count` *)
(* counts what is gone.                                                    *)
LEMMA RemoveManyProgress ==
  ASSUME TypeOK, BatchProgress, RemoveManyStep PROVE BatchProgress'
<1> DEFINE names == call.names
           at == call.next
           name == names[at]
           hits == Indices(keywords, name)
           done == 1 .. at - 1
<1>1. /\ keywords \in Seq(Keyword) /\ call.op = "remove_many"
      /\ call \in Call /\ call # NoCall
  BY DEF TypeOK, RemoveManyStep, NoCall
<1>2. /\ at \in Nat \ {0} /\ names \in Seq(Names) /\ call.count \in Nat
      /\ Len(names) \in Nat /\ DOMAIN names = 1 .. Len(names)
      /\ call.start \in Seq(Keyword)
  BY <1>1 DEF Call
<1>3. /\ \A i \in DOMAIN names: ~Repeated(keywords, names[i])
      /\ \A i \in done: Indices(keywords, names[i]) = {}
      /\ call.count = Len(call.start) - Len(keywords)
  BY <1>1 DEF BatchProgress
<1>4. CASE Finish
  BY <1>4, IdleProgress DEF Finish
<1>5. CASE at \in DOMAIN names /\ ~Finish
  <2>1. name \in Names
    BY <1>2, <1>5
  <2>2. /\ done \subseteq DOMAIN names
        /\ 1 .. (at + 1) - 1 = done \cup {at}
    BY <1>2, <1>5
  <2>3. CASE /\ hits # {}
             /\ keywords' = DeleteAt(keywords, FirstOf(hits))
             /\ call' = [call EXCEPT !.next = @ + 1, !.count = @ + 1]
    <3> DEFINE f == FirstOf(hits)
    <3>1. f \in hits /\ f \in 1 .. Len(keywords)
      BY <1>1, <2>1, <2>3, FirstIsLeast, IndicesArePositions
    <3>2. /\ call'.op = "remove_many" /\ call'.names = names /\ call'.start = call.start
          /\ call'.next = at + 1
      BY <1>1, <2>3, CallAdvances
    <3>3. call'.count = call.count + 1
      BY <1>1, <2>3 DEF Call
    <3>4. \A n \in Names, j \in Nat:
            j \in Indices(keywords', n) <=>
              \/ j < f /\ j \in Indices(keywords, n)
              \/ j >= f /\ j + 1 \in Indices(keywords, n)
      BY <1>1, <2>3, <3>1, IndicesAfterDelete
    <3>5. keywords' \in Seq(Keyword) /\ Len(keywords') = Len(keywords) - 1
      BY <1>1, <2>3, <3>1, DeleteAtShape
    <3>6. \A n \in Names: Indices(keywords', n) \in SUBSET Nat
      BY <3>5, IndicesArePositions
    <3>7. \A i \in DOMAIN names: ~Repeated(keywords', names[i])
      <4>1. SUFFICES ASSUME NEW i \in DOMAIN names,
                            NEW j \in Indices(keywords', names[i]),
                            NEW k \in Indices(keywords', names[i])
                     PROVE  j = k
        BY NotRepeatedIsUnique
      <4>2. names[i] \in Names /\ j \in Nat /\ k \in Nat
        BY <1>2, <3>6
      <4>3. \A p, q \in Indices(keywords, names[i]): p = q
        BY <1>3, NotRepeatedIsUnique
      <4>4. /\ \/ j < f /\ j \in Indices(keywords, names[i])
               \/ j >= f /\ j + 1 \in Indices(keywords, names[i])
            /\ \/ k < f /\ k \in Indices(keywords, names[i])
               \/ k >= f /\ k + 1 \in Indices(keywords, names[i])
        BY <3>4, <4>2
      <4>5. f \in Nat
        BY <3>1
      <4> HIDE DEF f
      <4>6. QED
        BY <4>2, <4>3, <4>4, <4>5
    <3>8. \A i \in done: Indices(keywords', names[i]) = {}
      <4>1. SUFFICES ASSUME NEW i \in done, NEW j \in Indices(keywords', names[i])
                     PROVE  FALSE
        OBVIOUS
      <4>2. names[i] \in Names /\ j \in Nat
        BY <1>2, <2>2, <3>6
      <4>3. QED
        BY <1>3, <3>4, <4>2
    <3>9. Indices(keywords', name) = {}
      <4>1. SUFFICES ASSUME NEW j \in Indices(keywords', name)
                     PROVE  FALSE
        OBVIOUS
      <4>2. j \in Nat
        BY <2>1, <3>6
      <4>3. \A p, q \in hits: p = q
        BY <1>3, <1>5, NotRepeatedIsUnique
      <4>4. (j < f /\ j \in hits) \/ (j >= f /\ j + 1 \in hits)
        BY <2>1, <3>4, <4>2
      <4>5. f \in Nat
        BY <3>1
      <4> HIDE DEF f, hits
      <4>6. QED
        BY <3>1, <4>2, <4>3, <4>4, <4>5
    <3>10. call'.count = Len(call'.start) - Len(keywords')
      BY <1>1, <1>2, <1>3, <3>2, <3>3, <3>5, LenProperties
    <3>11. QED
      BY <2>2, <3>2, <3>7, <3>8, <3>9, <3>10 DEF BatchProgress
  <2>4. CASE hits = {} /\ call' = [call EXCEPT !.next = @ + 1] /\ UNCHANGED keywords
    <3>1. /\ call'.op = "remove_many" /\ call'.names = names /\ call'.start = call.start
          /\ call'.next = at + 1
      BY <1>1, <2>4, CallAdvances
    <3>2. call'.count = call.count
      BY <1>1, <2>4 DEF Call
    <3>3. QED
      BY <1>3, <2>2, <2>4, <3>1, <3>2 DEF BatchProgress
  <2>5. QED
    BY <1>5, <2>3, <2>4 DEF RemoveManyStep
<1>6. QED
  BY <1>4, <1>5 DEF RemoveManyStep

(* The inductive invariant: the progress of a loop needs the shape of its  *)
(* locals.                                                                 *)
IInv == TypeOK /\ BatchProgress

(* Every step keeps what the loop in progress has established. *)
LEMMA ProgressStep == IInv /\ [Next]_vars => BatchProgress'
<1> SUFFICES ASSUME IInv, [Next]_vars PROVE BatchProgress'
  OBVIOUS
<1>1. TypeOK /\ BatchProgress
  BY DEF IInv
<1>2. ASSUME NEW b \in SetBatches, SetManyBegin(b.names, b.values)
      PROVE  BatchProgress'
  <2>1. b.names \in Seq(Names) /\ b.values \in Seq(Values)
    BY ApiAssumption
  <2>2. CASE /\ {i \in DOMAIN b.names: SetManyError(b.names, i) # "ok"} = {}
             /\ Begin("set_many", b.names, b.values, 1)
    <3>1. \A i \in DOMAIN b.names: SetManyError(b.names, i) = "ok"
      BY <2>2
    <3>2. \A i \in DOMAIN b.names: b.names[i] \in LegalNames /\ ~Repeated(keywords, b.names[i])
      BY <3>1 DEF SetManyError
    <3>3. QED
      BY <1>1, <2>1, <2>2, <3>2, BeginProgress
  <2>3. CASE UNCHANGED call /\ call = NoCall
    BY <2>3, IdleProgress
  <2>4. QED
    BY <1>2, <2>2, <2>3 DEF SetManyBegin, Refuse, Idle
<1>3. ASSUME NEW b \in RemoveBatches, RemoveManyBegin(b)
      PROVE  BatchProgress'
  <2>1. b \in Seq(Names) /\ << >> \in Seq(Values)
    BY ApiAssumption
  <2>2. CASE /\ {i \in DOMAIN b: RemoveManyError(b, i) # "ok"} = {}
             /\ Begin("remove_many", b, << >>, 1)
    <3>1. \A i \in DOMAIN b: RemoveManyError(b, i) = "ok"
      BY <2>2
    <3>2. \A i \in DOMAIN b: ~Repeated(keywords, b[i])
      BY <3>1 DEF RemoveManyError
    <3>3. QED
      BY <1>1, <2>1, <2>2, <3>2, BeginProgress
  <2>3. CASE UNCHANGED call /\ call = NoCall
    BY <2>3, IdleProgress
  <2>4. QED
    BY <1>3, <2>2, <2>3 DEF RemoveManyBegin, Refuse, Idle
<1>4. ASSUME NEW name \in Names, RemoveAllBegin(name)
      PROVE  BatchProgress'
  <2>1. <<name>> \in Seq(Names) /\ << >> \in Seq(Values)
    OBVIOUS
  <2>2. QED
    BY <1>1, <1>4, <2>1, BeginProgress DEF RemoveAllBegin
<1>5. CASE LoopStep
  BY <1>1, <1>5, RemoveAllProgress, SetManyProgress, RemoveManyProgress DEF LoopStep
<1>6. CASE PropertyCall
  BY <1>6, IdleProgress
  DEF PropertyCall, RemoveProperty, SetProperty, SetPropertyWithType, Refuse, Idle
<1>7. ASSUME NEW key \in Key,
             \/ Get(key) \/ RemoveKey(key)
             \/ \E v \in Values: Set(key, v)
             \/ \E k \in Comments: SetComment(key, k)
             \/ \E v \in Values, k \in Comments: SetWithComment(key, v, k)
      PROVE  BatchProgress'
  BY <1>7, IdleProgress
  DEF Get, RemoveKey, Set, SetComment, SetWithComment, Apply, Refuse, Idle
<1>8. ASSUME NEW name \in Names, NEW value \in Values, AppendKey(name, value)
      PROVE  BatchProgress'
  BY <1>8, IdleProgress DEF AppendKey, Refuse, Idle
<1>9. CASE UNCHANGED vars
  BY <1>1, <1>9 DEF vars, BatchProgress, Repeated, Indices
<1>10. QED
  BY <1>2, <1>3, <1>4, <1>5, <1>6, <1>7, <1>8, <1>9 DEF Next, KeywordCall

(* Batches do what they report: however a batch repeats names or mixes     *)
(* their letter case, set_many leaves the last value given for each name   *)
(* in force and never makes a name ambiguous, remove_many leaves none of   *)
(* its names and counts what it removed, remove_all none of its name.      *)
THEOREM BatchesProgress == Spec => []BatchProgress
<1>1. Init => IInv
  <2>1. Init => TypeOK
    <3>1. NoCall \in Call /\ NoCall.op # "set_many"
      BY DEF Call, NoCall
    <3>2. QED
      BY <3>1 DEF Init, TypeOK
  <2>2. Init => BatchProgress
    BY DEF Init, BatchProgress, NoCall
  <2>3. QED
    BY <2>1, <2>2 DEF IInv
<1>2. IInv /\ [Next]_vars => IInv'
  BY TypeStep, ProgressStep DEF IInv
<1>3. IInv => BatchProgress
  BY DEF IInv
<1>4. QED
  BY <1>1, <1>2, <1>3, PTL DEF Spec

-------------------------------------------------------------------------------
(* The slots of the vector, whatever the call *)

(* Every step that changes the keywords edits one slot. *)
LEMMA SlotStep ==
  ASSUME IInv, [Next]_vars
  PROVE  [SlotEdit(keywords, keywords')]_keywords
<1>1. /\ TypeOK /\ BatchProgress /\ keywords \in Seq(Keyword)
  BY DEF IInv, TypeOK
<1>2. ASSUME NEW key \in Key, NEW value \in Values, Set(key, value)
      PROVE  [SlotEdit(keywords, keywords')]_keywords
  BY <1>1, <1>2, SetResultIsSlotEdit DEF Set, Apply
<1>3. ASSUME NEW key \in Key, NEW value \in Values, NEW comment \in Comments,
             SetWithComment(key, value, comment)
      PROVE  [SlotEdit(keywords, keywords')]_keywords
  BY <1>1, <1>3, SetWithCommentResultIsSlotEdit DEF SetWithComment, Apply
<1>4. ASSUME NEW key \in Key, NEW comment \in Comments, SetComment(key, comment)
      PROVE  [SlotEdit(keywords, keywords')]_keywords
  <2> DEFINE r == Resolve(keywords, key)
  <2>1. CASE r.tag = "some" /\ keywords' = [keywords EXCEPT ![r.i].comment = comment]
    <3>1. r.i \in 1 .. Len(keywords)
      BY <1>1, <2>1, KeyShape, ResolveType, IndicesArePositions
    <3>2. keywords[r.i] \in Keyword
      BY <1>1, <3>1, ElementOfSeq
    <3> DEFINE kw == [keywords[r.i] EXCEPT !.comment = comment]
    <3>3. kw \in Keyword /\ kw.name = keywords[r.i].name
      BY <3>2 DEF Keyword
    <3>4. keywords' = [keywords EXCEPT ![r.i] = kw]
      BY <2>1
    <3> HIDE DEF kw
    <3>5. InPlace(keywords, keywords')
      BY <1>1, <3>1, <3>3, <3>4, UpdateIsInPlace
    <3>6. QED
      BY <3>5 DEF SlotEdit
  <2>2. QED
    BY <1>4, <2>1 DEF SetComment, Refuse
<1>5. ASSUME NEW key \in Key, RemoveKey(key)
      PROVE  [SlotEdit(keywords, keywords')]_keywords
  <2> DEFINE r == Resolve(keywords, key)
  <2>1. CASE r.tag = "some" /\ keywords' = DeleteAt(keywords, r.i)
    <3>1. r.i \in 1 .. Len(keywords)
      BY <1>1, <2>1, KeyShape, ResolveType, IndicesArePositions
    <3>2. QED
      BY <1>1, <2>1, <3>1, DeleteIsOneGone DEF SlotEdit
  <2>2. QED
    BY <1>5, <2>1 DEF RemoveKey, Refuse
<1>6. ASSUME NEW name \in Names, NEW value \in Values, AppendKey(name, value)
      PROVE  [SlotEdit(keywords, keywords')]_keywords
  BY <1>1, <1>6, PushIsOneAtTail DEF AppendKey, Refuse, SlotEdit
<1>7. CASE RemoveAllStep
  <2>1. CASE /\ call.next \in Indices(keywords, call.names[1])
             /\ keywords' = DeleteAt(keywords, call.next)
    <3>1. call.next \in 1 .. Len(keywords)
      BY <1>1, <2>1, LenProperties DEF Indices
    <3>2. QED
      BY <1>1, <2>1, <3>1, DeleteIsOneGone DEF SlotEdit
  <2>2. QED
    BY <1>7, <2>1 DEF RemoveAllStep, Finish
<1>8. CASE SetManyStep
  <2> DEFINE name == call.names[call.next]
             value == call.values[call.next]
             hits == Indices(keywords, name)
  <2>1. CASE call.next \in DOMAIN call.names /\ ~UNCHANGED keywords
    <3>1. call \in Call /\ call # NoCall /\ call.op = "set_many" /\ Len(call.values) = Len(call.names)
      BY <1>1, <1>8 DEF SetManyStep, NoCall, TypeOK
    <3>2. name \in Names /\ value \in Values
      BY <2>1, <3>1 DEF Call
    <3>3. name \in LegalNames
      BY <1>1, <2>1, <3>1 DEF BatchProgress
    <3>4. CASE hits = {} /\ keywords' = Pushed(keywords, name, value)
      BY <1>1, <3>2, <3>3, <3>4, PushIsOneAtTail DEF SlotEdit
    <3>5. CASE hits # {} /\ keywords' = [keywords EXCEPT ![FirstOf(hits)].value = value]
      <4> DEFINE f == FirstOf(hits)
                 kw == [keywords[f] EXCEPT !.value = value]
      <4>1. f \in 1 .. Len(keywords)
        BY <1>1, <3>2, <3>5, FirstIsLeast, IndicesArePositions
      <4>2. keywords[f] \in Keyword
        BY <1>1, <4>1, ElementOfSeq
      <4>3. kw \in Keyword /\ kw.name = keywords[f].name
        BY <3>2, <4>2 DEF Keyword
      <4>4. keywords' = [keywords EXCEPT ![f] = kw]
        BY <3>5
      <4> HIDE DEF f, kw
      <4>5. InPlace(keywords, keywords')
        BY <1>1, <4>1, <4>3, <4>4, UpdateIsInPlace
      <4>6. QED
        BY <4>5 DEF SlotEdit
    <3>6. QED
      BY <1>8, <2>1, <3>4, <3>5 DEF SetManyStep, Finish
  <2>2. QED
    BY <1>8, <2>1 DEF SetManyStep, Finish
<1>9. CASE RemoveManyStep
  <2> DEFINE name == call.names[call.next]
             hits == Indices(keywords, name)
  <2>1. CASE /\ call.next \in DOMAIN call.names
             /\ hits # {} /\ keywords' = DeleteAt(keywords, FirstOf(hits))
    <3>1. call \in Call /\ call # NoCall
      BY <1>1, <1>9 DEF RemoveManyStep, NoCall, TypeOK
    <3>2. name \in Names
      BY <2>1, <3>1 DEF Call
    <3>3. FirstOf(hits) \in 1 .. Len(keywords)
      BY <1>1, <2>1, <3>2, FirstIsLeast, IndicesArePositions
    <3>4. QED
      BY <1>1, <2>1, <3>3, DeleteIsOneGone DEF SlotEdit
  <2>2. QED
    BY <1>9, <2>1 DEF RemoveManyStep, Finish
<1>10. CASE UNCHANGED keywords
  BY <1>10
<1>11. CASE PropertyCall
  BY <1>10, <1>11 DEF PropertyCall, RemoveProperty, SetProperty, SetPropertyWithType, Refuse
<1>12. CASE KeywordCall
  BY <1>2, <1>3, <1>4, <1>5, <1>6, <1>10, <1>12
  DEF KeywordCall, Get, RemoveAllBegin, SetManyBegin, RemoveManyBegin, Begin, Refuse
<1>13. QED
  BY <1>7, <1>8, <1>9, <1>10, <1>11, <1>12 DEF Next, LoopStep, vars

(* The slot discipline match_keywords relies on: no call, and no step of a *)
(* loop, reorders keywords or inserts one before another, and only legal   *)
(* names are pushed.                                                       *)
THEOREM SlotDisciplineHolds == Spec => SlotDiscipline
<1>1. Spec => []IInv
  BY TypeCorrect, BatchesProgress, PTL DEF IInv
<1>2. IInv /\ [Next]_vars => [SlotEdit(keywords, keywords')]_keywords
  BY SlotStep
<1>3. [SlotEdit(keywords, keywords')]_keywords
        => [InPlace(keywords, keywords') \/ OneGone(keywords, keywords')
            \/ OneAtTail(keywords, keywords')]_keywords
  BY DEF SlotEdit
<1>4. QED
  BY <1>1, <1>2, <1>3, PTL DEF Spec, SlotDiscipline

-------------------------------------------------------------------------------
(* Strict lookup *)

(* A bare repeated name resolves to an error. *)
LEMMA BareRepeatedIsAmbiguous ==
  ASSUME NEW name \in Names, Repeated(keywords, name)
  PROVE  Resolve(keywords, Bare(name)).tag = "Ambiguous"
<1>1. Bare(name).name = name /\ Bare(name).bare = TRUE
  BY DEF Bare
<1>2. Indices(keywords, name) # {}
  BY DEF Repeated
<1>3. QED
  BY <1>1, <1>2 DEF Resolve, Missing

(* A call with a bare repeated name returns an error and changes nothing. *)
LEMMA StrictStep ==
  ASSUME NEW name \in Names, TypeOK, Repeated(keywords, name), BareCall(name)
  PROVE  res' \in Errors /\ UNCHANGED <<keywords, call>>
<1> DEFINE r == Resolve(keywords, Bare(name))
<1>1. r.tag = "Ambiguous" /\ "Ambiguous" \in Errors
  BY BareRepeatedIsAmbiguous DEF Errors
<1>2. CASE Get(Bare(name)) \/ RemoveKey(Bare(name)) \/ \E k \in Comments: SetComment(Bare(name), k)
  BY <1>1, <1>2 DEF Get, RemoveKey, SetComment, Refuse, Return
<1>3. \A v \in Values: SetResult(Bare(name), v) = Failed("Ambiguous")
  BY <1>1 DEF SetResult, Errors
<1>4. CASE \E v \in Values: Set(Bare(name), v)
  BY <1>1, <1>3, <1>4 DEF Set, Apply, Failed, Return
<1>5. CASE \E v \in Values, k \in Comments: SetWithComment(Bare(name), v, k)
  <2>1. \A v \in Values, k \in Comments: SetWithCommentResult(Bare(name), v, k) = Failed("Ambiguous")
    BY <1>3 DEF SetWithCommentResult, Failed
  <2>2. QED
    BY <1>1, <1>5, <2>1 DEF SetWithComment, Apply, Failed, Return
<1>6. ASSUME NEW b \in SetBatches, NEW i \in DOMAIN b.names, b.names[i] = name,
             SetManyBegin(b.names, b.values)
      PROVE  res' \in Errors /\ UNCHANGED <<keywords, call>>
  <2> DEFINE bad == {j \in DOMAIN b.names: SetManyError(b.names, j) # "ok"}
  <2>1. i \in bad
    BY <1>6 DEF SetManyError
  <2>2. bad \in SUBSET Nat
    BY ApiAssumption
  <2>3. FirstOf(bad) \in bad
    BY <2>1, <2>2, FirstIsLeast
  <2>4. SetManyError(b.names, FirstOf(bad)) \in Errors
    BY <2>3 DEF SetManyError, Errors
  <2>5. Refuse(SetManyError(b.names, FirstOf(bad)))
    BY <1>6, <2>1 DEF SetManyBegin
  <2>6. QED
    BY <2>4, <2>5 DEF Refuse, Return
<1>7. ASSUME NEW b \in RemoveBatches, NEW i \in DOMAIN b, b[i] = name, RemoveManyBegin(b)
      PROVE  res' \in Errors /\ UNCHANGED <<keywords, call>>
  <2> DEFINE bad == {j \in DOMAIN b: RemoveManyError(b, j) # "ok"}
  <2>1. i \in bad
    BY <1>7 DEF RemoveManyError
  <2>2. bad \in SUBSET Nat
    BY ApiAssumption
  <2>3. FirstOf(bad) \in bad
    BY <2>1, <2>2, FirstIsLeast
  <2>4. RemoveManyError(b, FirstOf(bad)) \in Errors
    BY <2>3 DEF RemoveManyError, Errors
  <2>5. Refuse(RemoveManyError(b, FirstOf(bad)))
    BY <1>7, <2>1 DEF RemoveManyBegin
  <2>6. QED
    BY <2>4, <2>5 DEF Refuse, Return
<1>8. QED
  BY <1>2, <1>4, <1>5, <1>6, <1>7 DEF BareCall

(* No bare name that matches several keywords, however many they are and   *)
(* whatever their letter cases, reads, writes or deletes one of them.      *)
THEOREM StrictNamesHold == Spec => StrictNames
<1>1. TypeOK => [\A name \in Names: Repeated(keywords, name) /\ BareCall(name) =>
                   res' \in Errors /\ UNCHANGED <<keywords, call>>]_vars
  BY StrictStep
<1>2. QED
  BY <1>1, TypeCorrect, PTL DEF StrictNames

-------------------------------------------------------------------------------
(* Reading back what set_with_comment wrote *)

(* A new comment does not change what a key resolves to. *)
LEMMA ResolveAfterComment ==
  ASSUME NEW kws \in Seq(Keyword), NEW i \in 1 .. Len(kws), NEW comment \in Comments, NEW key \in Key
  PROVE  LET new == [kws EXCEPT ![i].comment = comment] IN
         /\ Resolve(new, key) = Resolve(kws, key)
         /\ new[i].comment = comment
         /\ new[i].value = kws[i].value
<1> DEFINE kw == [kws[i] EXCEPT !.comment = comment]
           new == [kws EXCEPT ![i] = kw]
<1>1. kws[i] \in Keyword
  BY ElementOfSeq
<1>2. kw \in Keyword /\ kw.name = kws[i].name /\ kw.value = kws[i].value /\ kw.comment = comment
  BY <1>1 DEF Keyword
<1> HIDE DEF kw
<1>3. /\ \A j \in 1 .. Len(kws): new[j] = IF j = i THEN kw ELSE kws[j]
      /\ DOMAIN new = DOMAIN kws /\ DOMAIN kws = 1 .. Len(kws)
  BY <1>2, ExceptSeq, LenProperties
<1> HIDE DEF new
<1>4. Indices(new, key.name) = Indices(kws, key.name)
  BY <1>2, <1>3 DEF Indices, SameName
<1>5. Repeated(new, key.name) = Repeated(kws, key.name)
  BY <1>4 DEF Repeated
<1>6. Resolve(new, key) = Resolve(kws, key)
  BY <1>4, <1>5 DEF Resolve
<1>7. new[i] = kw
  BY <1>3
<1>8. QED
  BY <1>2, <1>6, <1>7 DEF new, kw

(* After a set that returns Ok the key resolves, to the value written. *)
LEMMA SetIsReadBack ==
  ASSUME TypeOK, NEW key \in Key, NEW value \in Values, SetResult(key, value).tag = "ok"
  PROVE  LET s == SetResult(key, value)
             q == Resolve(s.kws, key)
         IN  q.tag = "some" /\ q.i \in 1 .. Len(s.kws) /\ s.kws[q.i].value = value
<1> DEFINE r == Resolve(keywords, key)
           s == SetResult(key, value)
           q == Resolve(s.kws, key)
<1>1. keywords \in Seq(Keyword) /\ s.kws \in Seq(Keyword) /\ key.name \in Names
  BY SetResultType, KeyShape DEF TypeOK
<1>2. r.tag \in {"some", "none"} \cup Errors
  BY <1>1, ResolveType
<1>3. CASE r.tag = "some"
  <2>1. s.kws = [keywords EXCEPT ![r.i].value = value]
    BY <1>3 DEF SetResult, Done, Errors
  <2>2. r.i \in 1 .. Len(keywords)
    BY <1>1, <1>3, ResolveType, IndicesArePositions
  <2>3. q = r
    BY <1>1, <2>1, <2>2, ResolveAfterUpdate
  <2>4. /\ Len([keywords EXCEPT ![r.i].value = value]) = Len(keywords)
        /\ [keywords EXCEPT ![r.i].value = value][r.i].value = value
    BY <1>1, <2>2, IndicesAfterUpdate
  <2>5. QED
    BY <1>3, <2>1, <2>2, <2>3, <2>4
<1>4. CASE r.tag = "none"
  <2>1. s.kws = Pushed(keywords, key.name, value) /\ key.bare = TRUE
    BY <1>4, KeyShape DEF SetResult, Done, Failed, Errors
  <2>2. Indices(keywords, key.name) = {}
    BY <1>1, <1>4, ResolveType
  <2>3. Indices(s.kws, key.name) = {Len(keywords) + 1}
    BY <1>1, <2>1, <2>2, IndicesAfterPush DEF SameName
  <2>4. ~Repeated(s.kws, key.name)
    BY <2>3, NotRepeatedIsUnique
  <2>5. q.tag = "some"
    BY <2>1, <2>3, <2>4 DEF Resolve, Found
  <2>6. q.i = Len(keywords) + 1
    BY <1>1, <2>3, <2>5, ResolveType
  <2>7. Len(s.kws) = Len(keywords) + 1 /\ Len(keywords) \in Nat
    <3>1. Len(Pushed(keywords, key.name, value)) = Len(keywords) + 1
      BY <1>1, PushedShape
    <3>2. QED
      BY <1>1, <2>1, <3>1, LenProperties
  <2>8. Pushed(keywords, key.name, value)[Len(keywords) + 1]
          = [name |-> key.name, value |-> value, comment |-> NoComment]
    BY <1>1, PushedShape
  <2>9. QED
    BY <2>1, <2>5, <2>6, <2>7, <2>8
<1>5. CASE r.tag \in Errors
  BY <1>5 DEF SetResult, Failed, Errors
<1>6. QED
  BY <1>2, <1>3, <1>4, <1>5

(* The read-back follows from the shapes alone. *)
LEMMA ReadBackFollows == TypeOK => ReadBack
<1> SUFFICES ASSUME TypeOK, NEW key \in Key, NEW value \in Values, NEW comment \in Comments
             PROVE  LET t == SetWithCommentResult(key, value, comment)
                        r == Resolve(t.kws, key)
                    IN  IF t.tag = "ok"
                        THEN r.tag = "some" /\ t.kws[r.i].value = value /\ t.kws[r.i].comment = comment
                        ELSE t.kws = keywords
  BY DEF ReadBack
<1> DEFINE s == SetResult(key, value)
           q == Resolve(s.kws, key)
           t == SetWithCommentResult(key, value, comment)
           r == Resolve(t.kws, key)
<1>1. s.kws \in Seq(Keyword)
  BY SetResultType
<1>2. CASE s.tag # "ok"
  <2>1. t = s /\ s.kws = keywords
    BY <1>2, SetResultIsSlotEdit DEF SetWithCommentResult
  <2>2. QED
    BY <1>2, <2>1
<1>3. CASE s.tag = "ok"
  <2>1. q.tag = "some" /\ q.i \in 1 .. Len(s.kws) /\ s.kws[q.i].value = value
    BY <1>3, SetIsReadBack
  <2>2. t = Done([s.kws EXCEPT ![q.i].comment = comment])
    BY <1>3, <2>1 DEF SetWithCommentResult, Errors
  <2>3. t.tag = "ok" /\ t.kws = [s.kws EXCEPT ![q.i].comment = comment]
    BY <2>2 DEF Done
  <2>4. LET new == [s.kws EXCEPT ![q.i].comment = comment]
        IN  /\ Resolve(new, key) = q
            /\ new[q.i].comment = comment
            /\ new[q.i].value = s.kws[q.i].value
    BY <1>1, <2>1, ResolveAfterComment
  <2>5. r = q /\ t.kws[q.i].comment = comment /\ t.kws[q.i].value = value
    BY <2>1, <2>3, <2>4
  <2>6. QED
    BY <2>1, <2>3, <2>5
<1>4. QED
  BY <1>2, <1>3

(* Both lookups of set_with_comment agree in every reachable header: it    *)
(* either writes value and comment of the one keyword the key names, or    *)
(* changes nothing.                                                        *)
THEOREM ReadBackHolds == Spec => []ReadBack
BY TypeCorrect, ReadBackFollows, PTL

-------------------------------------------------------------------------------
(* Properties *)

(* What entry().or_default() leaves of a property that was there. *)
LEMMA PutPropertyFrame ==
  ASSUME NEW id \in PropIds, NEW p \in Property, PutProperty(id, p)
  PROVE  /\ properties'[id] = p
         /\ \A i \in PropIds \ {id}:
              /\ i \in DOMAIN properties <=> i \in DOMAIN properties'
              /\ i \in DOMAIN properties => properties'[i] = properties[i]
BY DEF PutProperty

(* Only the calls on properties change them, one property each. *)
LEMMA PropertyStep == TypeOK /\ [Next]_vars => [EditsOneProperty]_properties
<1> SUFFICES ASSUME TypeOK, Next, properties' # properties
             PROVE  EditsOneProperty
  BY DEF vars
<1>1. PropertyCall
  <2>1. KeywordCall => UNCHANGED properties
    BY DEF KeywordCall, Get, RemoveKey, Set, SetWithComment, SetComment, Apply, AppendKey,
           RemoveAllBegin, SetManyBegin, RemoveManyBegin, Begin, Refuse
  <2>2. LoopStep => UNCHANGED properties
    BY DEF LoopStep, RemoveAllStep, SetManyStep, RemoveManyStep, Finish
  <2>3. QED
    BY <2>1, <2>2 DEF Next
<1>2. ASSUME NEW id \in PropIds, RemoveProperty(id)
      PROVE  EditsOneProperty
  BY <1>2 DEF RemoveProperty, Refuse, EditsOneProperty
<1>3. ASSUME NEW id \in PropIds, NEW text \in PropTexts, SetProperty(id, text)
      PROVE  EditsOneProperty
  <2> DEFINE p == [EntryOrDefault(id) EXCEPT !.value = text]
  <2>1. p \in Property /\ (id \in DOMAIN properties =>
                              p.extra = properties[id].extra /\ p.type = properties[id].type)
    BY EntryType DEF Property, EntryOrDefault
  <2>2. PutProperty(id, p)
    BY <1>3 DEF SetProperty, Refuse
  <2>3. QED
    BY <2>1, <2>2, PutPropertyFrame DEF EditsOneProperty
<1>4. ASSUME NEW id \in PropIds, NEW text \in PropTexts, NEW type \in PropTypes,
             SetPropertyWithType(id, text, type)
      PROVE  EditsOneProperty
  <2> DEFINE p == [EntryOrDefault(id) EXCEPT !.value = text, !.type = type]
  <2>1. p \in Property /\ (id \in DOMAIN properties => p.extra = properties[id].extra)
    BY EntryType DEF Property, EntryOrDefault
  <2>2. PutProperty(id, p)
    BY <1>4 DEF SetPropertyWithType, Refuse
  <2>3. \E t \in PropTexts, y \in PropTypes: SetPropertyWithType(id, t, y)
    BY <1>4
  <2>4. QED
    BY <2>1, <2>2, <2>3, PutPropertyFrame DEF EditsOneProperty
<1>5. QED
  BY <1>1, <1>2, <1>3, <1>4 DEF PropertyCall

(* Whatever the ids, texts and types: an edit of a property leaves the     *)
(* others alone and keeps the comment and format of the one it edits       *)
(* (set_property goes through entry().or_default()).                       *)
THEOREM PropertyFrameHolds == Spec => PropertyFrame
BY TypeCorrect, PropertyStep, PTL DEF Spec, PropertyFrame

-------------------------------------------------------------------------------
(* The refinement: sequences *)

(* What Append leaves, element by element. *)
LEMMA Appended ==
  ASSUME NEW S, NEW s \in Seq(S), NEW e \in S
  PROVE  /\ Append(s, e) \in Seq(S)
         /\ Len(s) \in Nat /\ DOMAIN s = 1 .. Len(s)
         /\ Len(Append(s, e)) = Len(s) + 1 /\ DOMAIN Append(s, e) = 1 .. Len(s) + 1
         /\ \A i \in 1 .. Len(s): Append(s, e)[i] = s[i]
         /\ Append(s, e)[Len(s) + 1] = e
OBVIOUS

(* Appending and overwriting what was there commute. *)
LEMMA AppendExcept ==
  ASSUME NEW S, NEW s \in Seq(S), NEW e \in S, NEW x \in S, NEW q \in 1 .. Len(s)
  PROVE  /\ Append([s EXCEPT ![q] = e], x) = [Append(s, x) EXCEPT ![q] = e]
         /\ q \in 1 .. Len(Append(s, x)) /\ Append(s, x)[q] = s[q]
<1> DEFINE t == [s EXCEPT ![q] = e]
           u == Append(s, x)
           l == Append(t, x)
           r == [u EXCEPT ![q] = e]
           n == Len(s)
<1>1. /\ u \in Seq(S) /\ Len(u) = n + 1 /\ n \in Nat
      /\ \A i \in 1 .. n: u[i] = s[i] /\ i \in 1 .. n + 1
      /\ u[n + 1] = x
  BY Appended
<1>2. q \in 1 .. Len(u) /\ n + 1 # q /\ n + 1 \in 1 .. n + 1
  BY <1>1
<1>3. /\ t \in Seq(S) /\ Len(t) = n
      /\ \A i \in 1 .. n: t[i] = IF i = q THEN e ELSE s[i]
  BY ExceptSeq
<1> HIDE DEF u
<1>4. /\ r \in Seq(S) /\ Len(r) = Len(u)
      /\ \A i \in 1 .. Len(u): r[i] = IF i = q THEN e ELSE u[i]
  BY <1>1, <1>2, ExceptSeq
<1> HIDE DEF t, n
<1>5. /\ l \in Seq(S) /\ Len(l) = n + 1
      /\ \A i \in 1 .. n: l[i] = t[i]
      /\ l[n + 1] = x
  BY <1>3, Appended
<1> HIDE DEF l, r
<1>6. \A i \in 1 .. n + 1: l[i] = r[i]
  <2>1. \A i \in 1 .. n + 1: i \in 1 .. n \/ i = n + 1
    BY <1>1
  <2>2. QED
    BY <1>1, <1>2, <1>3, <1>4, <1>5, <2>1
<1>7. l = r
  BY <1>1, <1>4, <1>5, <1>6, SeqEqual
<1>8. u[q] = s[q]
  BY <1>1 DEF n
<1>9. QED
  BY <1>2, <1>7, <1>8 DEF l, r, t, u

(* An element appended and overwritten is another one appended. *)
LEMMA AppendOver ==
  ASSUME NEW S, NEW s \in Seq(S), NEW e \in S, NEW x \in S
  PROVE  Append(s, x) = [Append(s, e) EXCEPT ![Len(s) + 1] = x]
<1> DEFINE n == Len(s)
           u == Append(s, e)
           l == Append(s, x)
<1>1. /\ u \in Seq(S) /\ Len(u) = n + 1 /\ n \in Nat
      /\ \A i \in 1 .. n: u[i] = s[i]
      /\ l \in Seq(S) /\ Len(l) = n + 1
      /\ \A i \in 1 .. n: l[i] = s[i]
      /\ l[n + 1] = x
  BY Appended
<1> HIDE DEF u, l, n
<1>2. PICK q: q = n + 1
  OBVIOUS
<1>3. q \in 1 .. Len(u)
  BY <1>1, <1>2
<1> DEFINE r == [u EXCEPT ![q] = x]
<1>4. /\ r \in Seq(S) /\ Len(r) = Len(u)
      /\ \A i \in 1 .. Len(u): r[i] = IF i = q THEN x ELSE u[i]
  BY <1>1, <1>3, ExceptSeq
<1> HIDE DEF r
<1>5. \A i \in 1 .. Len(l): l[i] = r[i]
  <2>1. \A i \in 1 .. Len(l): i \in 1 .. n \/ i = q
    BY <1>1, <1>2
  <2>2. QED
    BY <1>1, <1>2, <1>4, <2>1
<1>6. l = r
  BY <1>1, <1>4, <1>5, SeqEqual
<1>7. QED
  BY <1>2, <1>6 DEF l, r, u, n

(* RemoveAt, element by element. *)
LEMMA RemovedShape ==
  ASSUME NEW S, NEW s \in Seq(S), NEW q \in 1 .. Len(s)
  PROVE  LET r == Contract!RemoveAt(s, q)
         IN  /\ r \in Seq(S) /\ Len(r) = Len(s) - 1
             /\ \A i \in 1 .. Len(s) - 1: r[i] = IF i < q THEN s[i] ELSE s[i + 1]
<1> DEFINE n == Len(s)
           a == SubSeq(s, 1, q - 1)
           b == SubSeq(s, q + 1, n)
           r == Contract!RemoveAt(s, q)
<1>1. n \in Nat /\ q \in Nat /\ \A i \in 1 .. n: s[i] \in S
  OBVIOUS
<1> HIDE DEF n
<1>2. q \in 1 .. n
  BY DEF n
<1>3. /\ a \in Seq(S) /\ Len(a) = q - 1
      /\ \A i \in 1 .. q - 1: a[i] = s[i]
  <2>1. \A i \in 1 .. q - 1: s[i] \in S
    BY <1>1, <1>2
  <2>2. /\ a \in Seq(S) /\ Len(a) = (IF 1 <= q - 1 THEN q - 1 - 1 + 1 ELSE 0)
        /\ \A i \in 1 .. q - 1 - 1 + 1: a[i] = s[1 + i - 1]
    BY <1>1, <1>2, <2>1, SubSeqProperties
  <2> HIDE DEF a
  <2>3. \A i \in 1 .. q - 1: i \in 1 .. q - 1 - 1 + 1 /\ 1 + i - 1 = i
    BY <1>1, <1>2
  <2>4. Len(a) = q - 1
    BY <1>1, <1>2, <2>2
  <2>5. QED
    BY <2>2, <2>3, <2>4
<1>4. /\ b \in Seq(S) /\ Len(b) = n - q
      /\ \A i \in 1 .. n - q: b[i] = s[q + i]
  <2>1. \A i \in q + 1 .. n: s[i] \in S
    BY <1>1, <1>2
  <2>2. /\ b \in Seq(S) /\ Len(b) = (IF q + 1 <= n THEN n - (q + 1) + 1 ELSE 0)
        /\ \A i \in 1 .. n - (q + 1) + 1: b[i] = s[(q + 1) + i - 1]
    BY <1>1, <1>2, <2>1, SubSeqProperties
  <2> HIDE DEF b
  <2>3. \A i \in 1 .. n - q: i \in 1 .. n - (q + 1) + 1 /\ (q + 1) + i - 1 = q + i
    BY <1>1, <1>2
  <2>4. Len(b) = n - q
    BY <1>1, <1>2, <2>2
  <2>5. QED
    BY <2>2, <2>3, <2>4
<1>5. r = a \o b
  BY DEF Contract!RemoveAt, n
<1> HIDE DEF a, b, r
<1>6. /\ a \o b \in Seq(S) /\ Len(a \o b) = Len(a) + Len(b)
      /\ \A i \in 1 .. Len(a) + Len(b): (a \o b)[i] = IF i <= Len(a) THEN a[i] ELSE b[i - Len(a)]
  BY <1>3, <1>4, ConcatProperties
<1>7. /\ r \in Seq(S) /\ Len(r) = n - 1
      /\ \A i \in 1 .. n - 1: r[i] = IF i <= q - 1 THEN a[i] ELSE b[i - (q - 1)]
  <2>1. Len(a) + Len(b) = n - 1
    BY <1>1, <1>3, <1>4
  <2>2. QED
    BY <1>3, <1>5, <1>6, <2>1
<1>8. ASSUME NEW i \in 1 .. n - 1 PROVE r[i] = IF i < q THEN s[i] ELSE s[i + 1]
  <2>1. CASE i < q
    <3>1. i <= q - 1 /\ i \in 1 .. q - 1
      BY <1>1, <2>1
    <3>2. QED
      BY <1>3, <1>7, <2>1, <3>1
  <2>2. CASE ~(i < q)
    <3>1. ~(i <= q - 1) /\ i - (q - 1) \in 1 .. n - q /\ q + (i - (q - 1)) = i + 1
      BY <1>1, <2>2
    <3>2. QED
      BY <1>4, <1>7, <2>2, <3>1
  <2>3. QED
    BY <2>1, <2>2
<1>9. QED
  BY <1>7, <1>8 DEF n, r

(* Appending and removing what was there commute. *)
LEMMA AppendRemoved ==
  ASSUME NEW S, NEW s \in Seq(S), NEW x \in S
  PROVE  /\ Contract!RemoveAt(Append(s, x), Len(s) + 1) = s
         /\ \A q \in 1 .. Len(s):
              Contract!RemoveAt(Append(s, x), q) = Append(Contract!RemoveAt(s, q), x)
<1> DEFINE n == Len(s)
           u == Append(s, x)
<1>1. /\ u \in Seq(S) /\ Len(u) = n + 1 /\ n \in Nat /\ DOMAIN s = 1 .. n
      /\ \A i \in 1 .. n: u[i] = s[i] /\ i \in 1 .. n + 1
      /\ u[n + 1] = x /\ n + 1 \in 1 .. n + 1
  BY Appended
<1> HIDE DEF u, n
<1>2. Contract!RemoveAt(u, n + 1) = s
  <2>1. PICK q: q = n + 1
    OBVIOUS
  <2> DEFINE r == Contract!RemoveAt(u, q)
  <2>2. q \in 1 .. Len(u)
    BY <1>1, <2>1
  <2>3. /\ r \in Seq(S) /\ Len(r) = Len(u) - 1
        /\ \A i \in 1 .. Len(u) - 1: r[i] = IF i < q THEN u[i] ELSE u[i + 1]
    BY <1>1, <2>2, RemovedShape
  <2> HIDE DEF r
  <2>4. Len(r) = n /\ \A i \in 1 .. n: r[i] = s[i]
    <3>1. Len(u) - 1 = n
      BY <1>1
    <3>2. \A i \in 1 .. n: i < q
      BY <1>1, <2>1
    <3>3. QED
      BY <1>1, <2>3, <3>1, <3>2
  <2>5. r = s
    BY <2>3, <2>4, SeqEqual DEF n
  <2>6. QED
    BY <2>1, <2>5 DEF r
<1>3. ASSUME NEW q \in 1 .. n
      PROVE  Contract!RemoveAt(u, q) = Append(Contract!RemoveAt(s, q), x)
  <2> DEFINE r == Contract!RemoveAt(u, q)
             t == Contract!RemoveAt(s, q)
             v == Append(t, x)
  <2>1. q \in 1 .. Len(u) /\ q \in 1 .. Len(s)
    BY <1>1 DEF n
  <2>2. /\ r \in Seq(S) /\ Len(r) = Len(u) - 1
        /\ \A i \in 1 .. Len(u) - 1: r[i] = IF i < q THEN u[i] ELSE u[i + 1]
    BY <1>1, <2>1, RemovedShape
  <2>3. /\ t \in Seq(S) /\ Len(t) = n - 1
        /\ \A i \in 1 .. n - 1: t[i] = IF i < q THEN s[i] ELSE s[i + 1]
    BY <2>1, RemovedShape DEF n
  <2> HIDE DEF r, t
  <2>4. /\ v \in Seq(S) /\ Len(v) = Len(t) + 1
        /\ \A i \in 1 .. Len(t): v[i] = t[i]
        /\ v[Len(t) + 1] = x
    BY <2>3, Appended
  <2> HIDE DEF v
  <2>5. Len(v) = n /\ Len(r) = n
    BY <1>1, <2>2, <2>3, <2>4
  <2>6. ASSUME NEW i \in 1 .. n PROVE r[i] = v[i]
    <3>1. CASE i = n
      <4>1. r[n] = u[n + 1]
        BY <1>1, <2>2, <3>1
      <4>2. v[n] = x
        BY <1>1, <2>3, <2>4
      <4>3. QED
        BY <1>1, <3>1, <4>1, <4>2
    <3>2. CASE i # n
      <4>1. i \in 1 .. n - 1 /\ i + 1 \in 1 .. n /\ i \in 1 .. Len(u) - 1
        BY <1>1, <3>2
      <4>2. v[i] = IF i < q THEN s[i] ELSE s[i + 1]
        BY <2>3, <2>4, <4>1
      <4>3. QED
        BY <1>1, <2>2, <4>1, <4>2
    <3>3. QED
      BY <3>1, <3>2
  <2>7. r = v
    BY <2>2, <2>4, <2>5, <2>6, SeqEqual
  <2>8. QED
    BY <2>7 DEF r, t, v
<1>4. QED
  BY <1>2, <1>3 DEF u, n

-------------------------------------------------------------------------------
(* Occurrences *)

Occurrence == [value: Values, comment: Comments]

(* f[i] is what the first i keywords have of class c, up to n. *)
UpTo(n, kws, c, f) ==
  f = [i \in 0 .. n |-> IF i = 0 THEN << >>
                        ELSE IF Canon[kws[i].name] = c THEN Append(f[i - 1], Entry(kws[i])) ELSE f[i - 1]]

(* One keyword after the other. *)
LEMMA UpToSteps ==
  ASSUME NEW n \in Nat, NEW kws, NEW c, NEW f, UpTo(n, kws, c, f)
  PROVE  /\ f[0] = << >>
         /\ \A i \in 1 .. n: /\ i - 1 \in 0 .. n /\ i \in 0 .. n
                             /\ f[i] = IF Canon[kws[i].name] = c THEN Append(f[i - 1], Entry(kws[i]))
                                       ELSE f[i - 1]
<1>1. 0 \in 0 .. n
  OBVIOUS
<1>2. \A i \in 1 .. n: i \in 0 .. n /\ i - 1 \in 0 .. n /\ i # 0
  OBVIOUS
<1>3. QED
  BY <1>1, <1>2 DEF UpTo

(* However many keywords there are, they have occurrences. *)
LEMMA UpToExists ==
  ASSUME NEW m \in Nat, NEW kws, NEW c
  PROVE  \E f: UpTo(m, kws, c, f)
<1> DEFINE T == {n \in Nat: ~\E f: UpTo(n, kws, c, f)}
<1>1. SUFFICES ASSUME T # {} PROVE FALSE
  OBVIOUS
<1>2. PICK n \in T: \A u \in T: n <= u
  BY <1>1, FirstIsLeast
<1>3. CASE n = 0
  <2>1. UpTo(0, kws, c, [i \in 0 .. 0 |-> << >>])
    BY DEF UpTo
  <2>2. QED
    BY <1>3, <2>1
<1>4. CASE n # 0
  <2>1. n - 1 \in Nat /\ n - 1 \notin T
    BY <1>2, <1>4
  <2>2. PICK f: UpTo(n - 1, kws, c, f)
    BY <2>1
  <2> DEFINE r == [i \in 0 .. n |-> IF i = 0 THEN << >>
                     ELSE IF Canon[kws[i].name] = c THEN Append(f[i - 1], Entry(kws[i])) ELSE f[i - 1]]
  <2>3. \A i \in 0 .. n - 1: r[i] = f[i]
    <3>1. \A i \in 0 .. n - 1: i \in 0 .. n
      BY <2>1
    <3>2. QED
      BY <2>2, <3>1, Zenon DEF UpTo
  <2>4. \A i \in 0 .. n: i # 0 => i - 1 \in 0 .. n - 1
    BY <2>1
  <2>5. r = [i \in 0 .. n |-> IF i = 0 THEN << >>
               ELSE IF Canon[kws[i].name] = c THEN Append(r[i - 1], Entry(kws[i])) ELSE r[i - 1]]
    BY <2>3, <2>4
  <2>6. UpTo(n, kws, c, r)
    BY <2>5 DEF UpTo
  <2>7. QED
    BY <2>6
<1>5. QED
  BY <1>3, <1>4

(* The occurrences are those of the whole vector. *)
LEMMA OccurrencesAre ==
  ASSUME NEW kws, Len(kws) \in Nat, NEW c
  PROVE  \E f: UpTo(Len(kws), kws, c, f) /\ Occurrences(kws, c) = f[Len(kws)]
<1> DEFINE upto == CHOOSE f: UpTo(Len(kws), kws, c, f)
<1>1. UpTo(Len(kws), kws, c, upto)
  BY UpToExists
<1>2. Occurrences(kws, c) = upto[Len(kws)]
  BY DEF Occurrences, UpTo
<1>3. QED
  BY <1>1, <1>2

(* They are occurrences. *)
LEMMA UpToType ==
  ASSUME NEW n \in Nat, NEW kws, \A i \in 1 .. n: Entry(kws[i]) \in Occurrence,
         NEW c, NEW f, UpTo(n, kws, c, f), NEW k \in 0 .. n
  PROVE  f[k] \in Seq(Occurrence)
<1> DEFINE T == {i \in 0 .. n: f[i] \notin Seq(Occurrence)}
<1>1. SUFFICES ASSUME T # {} PROVE FALSE
  OBVIOUS
<1>2. T \in SUBSET Nat
  OBVIOUS
<1>3. PICK i \in T: \A u \in T: i <= u
  BY <1>1, <1>2, FirstIsLeast
<1>4. i # 0
  <2>1. f[0] = << >> /\ << >> \in Seq(Occurrence)
    BY UpToSteps
  <2>2. QED
    BY <1>3, <2>1
<1>5. i \in 1 .. n /\ i - 1 \in 0 .. n /\ i - 1 \notin T
  BY <1>3, <1>4
<1>6. f[i - 1] \in Seq(Occurrence) /\ Entry(kws[i]) \in Occurrence
  BY <1>5
<1>7. f[i] = IF Canon[kws[i].name] = c THEN Append(f[i - 1], Entry(kws[i])) ELSE f[i - 1]
  BY <1>5, UpToSteps
<1>8. f[i] \in Seq(Occurrence)
  BY <1>6, <1>7
<1>9. QED
  BY <1>3, <1>8

(* So are all of them. *)
LEMMA OccurrencesType ==
  ASSUME NEW kws \in Seq(Keyword), NEW c
  PROVE  Occurrences(kws, c) \in Seq(Occurrence)
<1>1. Len(kws) \in Nat /\ \A i \in 1 .. Len(kws): Entry(kws[i]) \in Occurrence
  <2>1. \A i \in 1 .. Len(kws): kws[i] \in Keyword
    OBVIOUS
  <2>2. QED
    BY <2>1 DEF Keyword, Entry, Occurrence
<1>2. PICK f: UpTo(Len(kws), kws, c, f) /\ Occurrences(kws, c) = f[Len(kws)]
  BY <1>1, OccurrencesAre
<1>3. Len(kws) \in 0 .. Len(kws)
  BY <1>1
<1>4. QED
  BY <1>1, <1>2, <1>3, UpToType

(* Vectors that have the same of class c up to m have the same occurrences. *)
Same(kws, more, i, c) ==
  /\ Canon[kws[i].name] = c <=> Canon[more[i].name] = c
  /\ Canon[kws[i].name] = c => Entry(kws[i]) = Entry(more[i])

(* They have the same ones up to there. *)
LEMMA UpToAgree ==
  ASSUME NEW m \in Nat, NEW n \in Nat, NEW p \in Nat, NEW kws, NEW more, NEW c, NEW f, NEW g,
         UpTo(m, kws, c, f), UpTo(n, more, c, g), p <= m, p <= n,
         \A i \in 1 .. p: Same(kws, more, i, c)
  PROVE  f[p] = g[p]
<1> DEFINE T == {i \in 0 .. p: f[i] # g[i]}
<1>1. SUFFICES ASSUME T # {} PROVE FALSE
  <2>1. p \in 0 .. p
    OBVIOUS
  <2>2. QED
    BY <2>1
<1>2. T \in SUBSET Nat
  OBVIOUS
<1>3. PICK i \in T: \A u \in T: i <= u
  BY <1>1, <1>2, FirstIsLeast
<1>4. i # 0
  BY <1>3, UpToSteps
<1>5. i \in 1 .. p /\ i \in 1 .. m /\ i \in 1 .. n /\ i - 1 \in 0 .. p /\ i - 1 \notin T
  BY <1>3, <1>4
<1>6. f[i - 1] = g[i - 1]
  BY <1>5
<1>7. f[i] = IF Canon[kws[i].name] = c THEN Append(f[i - 1], Entry(kws[i])) ELSE f[i - 1]
  BY <1>5, UpToSteps
<1>8. g[i] = IF Canon[more[i].name] = c THEN Append(g[i - 1], Entry(more[i])) ELSE g[i - 1]
  BY <1>5, UpToSteps
<1>9. f[i] = g[i]
  BY <1>5, <1>6, <1>7, <1>8 DEF Same
<1>10. QED
  BY <1>3, <1>9

(* A vector of keywords, element by element. *)
LEMMA KeywordsShape ==
  ASSUME NEW kws \in Seq(Keyword)
  PROVE  /\ Len(kws) \in Nat /\ DOMAIN kws = 1 .. Len(kws)
         /\ \A i \in 1 .. Len(kws): kws[i] \in Keyword /\ Entry(kws[i]) \in Occurrence
<1>1. \A kw \in Keyword: Entry(kw) \in Occurrence
  BY DEF Keyword, Entry, Occurrence
<1>2. Len(kws) \in Nat /\ DOMAIN kws = 1 .. Len(kws) /\ \A i \in 1 .. Len(kws): kws[i] \in Keyword
  OBVIOUS
<1>3. QED
  BY <1>1, <1>2

(* A keyword at the end is the last occurrence of its name. *)
LEMMA OccurrencesAfterPush ==
  ASSUME NEW kws \in Seq(Keyword), NEW kw \in Keyword, NEW c
  PROVE  Occurrences(Append(kws, kw), c)
           = IF Canon[kw.name] = c THEN Append(Occurrences(kws, c), Entry(kw)) ELSE Occurrences(kws, c)
<1> DEFINE n == Len(kws)
           more == Append(kws, kw)
<1>1. /\ n \in Nat /\ Len(more) = n + 1 /\ more[n + 1] = kw
      /\ \A i \in 1 .. n: more[i] = kws[i]
  BY Appended
<1> HIDE DEF n, more
<1>2. PICK f: UpTo(n, kws, c, f) /\ Occurrences(kws, c) = f[n]
  BY <1>1, OccurrencesAre DEF n
<1>3. PICK m \in Nat: m = n + 1 /\ m \in 1 .. m /\ n <= m /\ m - 1 = n /\ n \in 0 .. n
  BY <1>1
<1>4. PICK g: UpTo(m, more, c, g) /\ Occurrences(more, c) = g[m]
  BY <1>1, <1>3, OccurrencesAre
<1>5. \A i \in 1 .. n: Same(kws, more, i, c)
  BY <1>1 DEF Same
<1>6. f[n] = g[n]
  BY <1>1, <1>2, <1>3, <1>4, <1>5, UpToAgree
<1>7. g[m] = IF Canon[more[m].name] = c THEN Append(g[m - 1], Entry(more[m])) ELSE g[m - 1]
  BY <1>3, <1>4, UpToSteps
<1>8. QED
  BY <1>1, <1>2, <1>3, <1>4, <1>6, <1>7 DEF more

(* One element replaced. *)
Overwritten(s, p, e) == [s EXCEPT ![p] = e]
OneOverwritten(s, t, e) == \E p \in 1 .. Len(s): t = Overwritten(s, p, e)

(* A keyword rewritten in place is rewritten among the occurrences of its  *)
(* name, and shows among no others.                                        *)
LEMMA OccurrencesAfterUpdate ==
  ASSUME NEW kws \in Seq(Keyword), NEW new \in Seq(Keyword), Len(new) = Len(kws),
         NEW i \in 1 .. Len(kws), new[i].name = kws[i].name,
         \A j \in 1 .. Len(kws): j # i => new[j] = kws[j], NEW c
  PROVE  /\ Canon[kws[i].name] # c => Occurrences(new, c) = Occurrences(kws, c)
         /\ Canon[kws[i].name] = c =>
              OneOverwritten(Occurrences(kws, c), Occurrences(new, c), Entry(new[i]))
<1> DEFINE n == Len(kws)
<1>1. /\ n \in Nat /\ Len(new) = n /\ n \in 0 .. n /\ i \in 1 .. n
      /\ \A j \in 1 .. n: Entry(kws[j]) \in Occurrence /\ Entry(new[j]) \in Occurrence
      /\ \A j \in 1 .. n: j # i => new[j] = kws[j]
  BY KeywordsShape
<1>2. PICK f: UpTo(n, kws, c, f) /\ Occurrences(kws, c) = f[n]
  BY <1>1, OccurrencesAre
<1>3. PICK g: UpTo(n, new, c, g) /\ Occurrences(new, c) = g[n]
  BY <1>1, OccurrencesAre
<1> HIDE DEF n
<1>4. ASSUME Canon[kws[i].name] # c PROVE g[n] = f[n]
  <2>1. \A j \in 1 .. n: Same(kws, new, j, c)
    BY <1>1, <1>4 DEF Same
  <2>2. QED
    BY <1>1, <1>2, <1>3, <2>1, UpToAgree
<1>5. ASSUME Canon[kws[i].name] = c
      PROVE  OneOverwritten(f[n], g[n], Entry(new[i]))
  <2> DEFINE e == Entry(kws[i])
             x == Entry(new[i])
             p == Len(f[i - 1]) + 1
             Good(k) == p \in 1 .. Len(f[k]) /\ f[k][p] = e /\ g[k] = [f[k] EXCEPT ![p] = x]
             T == {k \in i .. n: ~Good(k)}
  <2>1. e \in Occurrence /\ x \in Occurrence
    BY <1>1
  <2>2. \A k \in 0 .. n: f[k] \in Seq(Occurrence)
    BY <1>1, <1>2, UpToType
  <2>3. i - 1 \in 0 .. n /\ f[i - 1] = g[i - 1]
    <3>1. PICK q: q = i - 1
      OBVIOUS
    <3>2. q \in Nat /\ q <= n /\ q \in 0 .. q /\ \A j \in 1 .. q: j \in 1 .. n /\ j # i
      BY <1>1, <3>1
    <3>3. \A j \in 1 .. q: Same(kws, new, j, c)
      BY <1>1, <3>2 DEF Same
    <3>4. f[q] = g[q]
      BY <1>1, <1>2, <1>3, <3>2, <3>3, UpToAgree
    <3>5. QED
      BY <1>1, <3>1, <3>4
  <2>4. f[i] = Append(f[i - 1], e) /\ g[i] = Append(f[i - 1], x)
    <3>1. f[i] = IF Canon[kws[i].name] = c THEN Append(f[i - 1], e) ELSE f[i - 1]
      BY <1>1, <1>2, UpToSteps
    <3>2. g[i] = IF Canon[new[i].name] = c THEN Append(g[i - 1], x) ELSE g[i - 1]
      BY <1>1, <1>3, UpToSteps
    <3>3. QED
      BY <1>5, <2>3, <3>1, <3>2
  <2>5. Good(i)
    <3> DEFINE s == f[i - 1]
    <3>1. s \in Seq(Occurrence)
      BY <2>2, <2>3
    <3> HIDE DEF s, e, x
    <3>2. /\ Len(s) \in Nat /\ Append(s, e) \in Seq(Occurrence)
          /\ Len(Append(s, e)) = Len(s) + 1 /\ Append(s, e)[Len(s) + 1] = e
          /\ \A j \in 1 .. Len(s): Append(s, e)[j] = s[j]
      BY <2>1, <3>1, Appended
    <3>3. Append(s, x) = [Append(s, e) EXCEPT ![Len(s) + 1] = x]
      BY <2>1, <3>1, AppendOver
    <3>4. f[i] = Append(s, e) /\ g[i] = Append(s, x) /\ p = Len(s) + 1
      BY <2>4 DEF s, e, x
    <3>5. Len(s) + 1 \in 1 .. Len(Append(s, e))
      BY <3>2
    <3>6. QED
      BY <3>2, <3>3, <3>4, <3>5
  <2>6. ASSUME T # {} PROVE FALSE
    <3>1. T \in SUBSET Nat
      BY <1>1
    <3>2. PICK k \in T: \A u \in T: k <= u
      BY <2>6, <3>1, FirstIsLeast
    <3>3. k # i /\ k \in i .. n
      BY <2>5, <3>2
    <3>4. k - 1 \in i .. n /\ k - 1 \in 0 .. n /\ k \in 1 .. n /\ ~(k <= k - 1)
      BY <1>1, <3>3
    <3>5. Good(k - 1)
      BY <3>2, <3>4
    <3>6. new[k] = kws[k] /\ Entry(kws[k]) \in Occurrence
      BY <1>1, <3>3, <3>4
    <3>7. /\ f[k] = IF Canon[kws[k].name] = c THEN Append(f[k - 1], Entry(kws[k])) ELSE f[k - 1]
          /\ g[k] = IF Canon[kws[k].name] = c THEN Append(g[k - 1], Entry(kws[k])) ELSE g[k - 1]
      BY <1>1, <1>2, <1>3, <3>4, <3>6, UpToSteps
    <3>8. f[k - 1] \in Seq(Occurrence)
      BY <2>2, <3>4
    <3> HIDE DEF p, e, x
    <3>9. CASE Canon[kws[k].name] = c
      <4>1. /\ Append([f[k - 1] EXCEPT ![p] = x], Entry(kws[k])) = [Append(f[k - 1], Entry(kws[k])) EXCEPT ![p] = x]
            /\ p \in 1 .. Len(Append(f[k - 1], Entry(kws[k])))
            /\ Append(f[k - 1], Entry(kws[k]))[p] = f[k - 1][p]
        BY <2>1, <3>5, <3>6, <3>8, AppendExcept
      <4>2. Good(k)
        BY <3>5, <3>7, <3>9, <4>1
      <4>3. QED
        BY <3>2, <4>2
    <3>10. CASE Canon[kws[k].name] # c
      BY <3>2, <3>5, <3>7, <3>10
    <3>11. QED
      BY <3>9, <3>10
  <2>7. n \in i .. n
    BY <1>1
  <2>8. Good(n)
    BY <2>6, <2>7
  <2>9. QED
    BY <2>8 DEF OneOverwritten, Overwritten
<1>6. QED
  BY <1>2, <1>3, <1>4, <1>5

(* A keyword removed is removed from the occurrences of its name.          *)
LEMMA OccurrencesAfterDelete ==
  ASSUME NEW kws \in Seq(Keyword), NEW new \in Seq(Keyword), NEW i \in 1 .. Len(kws),
         Len(new) = Len(kws) - 1,
         \A j \in 1 .. Len(kws) - 1: new[j] = IF j < i THEN kws[j] ELSE kws[j + 1], NEW c
  PROVE  /\ Canon[kws[i].name] # c => Occurrences(new, c) = Occurrences(kws, c)
         /\ Canon[kws[i].name] = c =>
              \E p \in 1 .. Len(Occurrences(kws, c)):
                Occurrences(new, c) = Contract!RemoveAt(Occurrences(kws, c), p)
<1> DEFINE n == Len(kws)
<1>0. PICK m: m = n - 1
  OBVIOUS
<1>1. /\ n \in Nat /\ m \in Nat /\ m <= n /\ Len(new) = m /\ n \in 0 .. n /\ i \in 1 .. n
      /\ \A j \in 1 .. n: Entry(kws[j]) \in Occurrence
      /\ \A j \in 1 .. m: new[j] = IF j < i THEN kws[j] ELSE kws[j + 1]
  <2>1. /\ n \in Nat /\ i \in 1 .. n
        /\ \A j \in 1 .. n: Entry(kws[j]) \in Occurrence
    BY KeywordsShape
  <2> HIDE DEF n
  <2>2. m \in Nat /\ m <= n /\ n \in 0 .. n
    BY <1>0, <2>1
  <2>3. Len(new) = m /\ \A j \in 1 .. m: new[j] = IF j < i THEN kws[j] ELSE kws[j + 1]
    BY <1>0 DEF n
  <2>4. QED
    BY <2>1, <2>2, <2>3
<1>2. PICK f: UpTo(n, kws, c, f) /\ Occurrences(kws, c) = f[n]
  BY <1>1, OccurrencesAre
<1>3. PICK g: UpTo(m, new, c, g) /\ Occurrences(new, c) = g[m]
  BY <1>1, OccurrencesAre
<1> HIDE DEF n
<1>4. \A k \in 0 .. n: f[k] \in Seq(Occurrence)
  BY <1>1, <1>2, UpToType
<1>5. i - 1 \in 0 .. n /\ f[i - 1] = g[i - 1]
  <2>1. PICK q: q = i - 1
    OBVIOUS
  <2>2. q \in Nat /\ q <= n /\ q <= m /\ \A j \in 1 .. q: j \in 1 .. m /\ j < i
    BY <1>0, <1>1, <2>1
  <2>3. \A j \in 1 .. q: Same(kws, new, j, c)
    BY <1>1, <2>2 DEF Same
  <2>4. f[q] = g[q]
    BY <1>1, <1>2, <1>3, <2>2, <2>3, UpToAgree
  <2>5. QED
    BY <1>1, <2>1, <2>4
<1>6. f[i] = IF Canon[kws[i].name] = c THEN Append(f[i - 1], Entry(kws[i])) ELSE f[i - 1]
  <2>1. n \in Nat /\ UpTo(n, kws, c, f) /\ i \in 1 .. n
    BY <1>1, <1>2
  <2>2. QED
    BY <2>1, UpToSteps
<1>7. ASSUME NEW k \in i + 1 .. n
      PROVE  /\ k - 1 \in i .. n /\ k \in 0 .. n /\ k - 1 \in 0 .. n /\ Entry(kws[k]) \in Occurrence
             /\ f[k] = IF Canon[kws[k].name] = c THEN Append(f[k - 1], Entry(kws[k])) ELSE f[k - 1]
             /\ g[k - 1] = IF Canon[kws[k].name] = c THEN Append(g[k - 1 - 1], Entry(kws[k])) ELSE g[k - 1 - 1]
  <2>1. PICK l: l = k - 1
    OBVIOUS
  <2>2. k \in 1 .. n /\ l \in 1 .. m /\ ~(l < i) /\ l + 1 = k
    BY <1>0, <1>1, <2>1
  <2>3. new[l] = kws[k]
    BY <1>1, <2>2
  <2>4. g[l] = IF Canon[new[l].name] = c THEN Append(g[l - 1], Entry(new[l])) ELSE g[l - 1]
    BY <1>1, <1>3, <2>2, UpToSteps
  <2>5. f[k] = IF Canon[kws[k].name] = c THEN Append(f[k - 1], Entry(kws[k])) ELSE f[k - 1]
    BY <1>1, <1>2, <2>2, UpToSteps
  <2>6. k - 1 \in i .. n /\ k \in 0 .. n /\ k - 1 \in 0 .. n
    BY <1>1
  <2>7. QED
    BY <1>1, <2>1, <2>2, <2>3, <2>4, <2>5, <2>6
<1>8. n \in i .. n /\ n - 1 = m
  BY <1>0, <1>1
<1>9. ASSUME Canon[kws[i].name] # c PROVE g[m] = f[n]
  <2> DEFINE T == {k \in i .. n: g[k - 1] # f[k]}
  <2>1. i \notin T
    BY <1>5, <1>6, <1>9
  <2>2. ASSUME T # {} PROVE FALSE
    <3>1. T \in SUBSET Nat
      BY <1>1
    <3>2. PICK k \in T: \A u \in T: k <= u
      BY <2>2, <3>1, FirstIsLeast
    <3>3. k # i /\ k \in i .. n
      BY <2>1, <3>2
    <3>4. k \in i + 1 .. n /\ ~(k <= k - 1)
      BY <1>1, <3>3
    <3>5. k - 1 \notin T /\ k - 1 \in i .. n
      BY <1>7, <3>2, <3>4
    <3>6. g[k - 1 - 1] = f[k - 1]
      BY <3>5
    <3>7. g[k - 1] = f[k]
      BY <1>7, <3>4, <3>6
    <3>8. QED
      BY <3>2, <3>7
  <2>3. QED
    BY <1>8, <2>2
<1>10. ASSUME Canon[kws[i].name] = c
       PROVE  \E p \in 1 .. Len(f[n]): g[m] = Contract!RemoveAt(f[n], p)
  <2> DEFINE p == Len(f[i - 1]) + 1
             Good(k) == p \in 1 .. Len(f[k]) /\ g[k - 1] = Contract!RemoveAt(f[k], p)
             T == {k \in i .. n: ~Good(k)}
  <2>1. Good(i)
    <3> DEFINE s == f[i - 1]
               e == Entry(kws[i])
    <3>1. s \in Seq(Occurrence) /\ e \in Occurrence
      BY <1>1, <1>4, <1>5
    <3> HIDE DEF s, e
    <3>2. Len(s) \in Nat /\ Len(Append(s, e)) = Len(s) + 1
      BY <3>1, Appended
    <3>3. Contract!RemoveAt(Append(s, e), Len(s) + 1) = s
      BY <3>1, AppendRemoved
    <3>4. f[i] = Append(s, e) /\ g[i - 1] = s /\ p = Len(s) + 1
      BY <1>5, <1>6, <1>10 DEF s, e
    <3>5. Len(s) + 1 \in 1 .. Len(Append(s, e))
      BY <3>2
    <3>6. QED
      BY <3>3, <3>4, <3>5
  <2>2. ASSUME T # {} PROVE FALSE
    <3>1. T \in SUBSET Nat
      BY <1>1
    <3>2. PICK k \in T: \A u \in T: k <= u
      BY <2>2, <3>1, FirstIsLeast
    <3>3. k # i /\ k \in i .. n
      BY <2>1, <3>2
    <3>4. k \in i + 1 .. n /\ ~(k <= k - 1)
      BY <1>1, <3>3
    <3>5. k - 1 \notin T /\ k - 1 \in i .. n /\ k - 1 \in 0 .. n
      BY <1>7, <3>2, <3>4
    <3>6. Good(k - 1)
      BY <3>5
    <3>7. f[k - 1] \in Seq(Occurrence) /\ Entry(kws[k]) \in Occurrence
      BY <1>4, <1>7, <3>4, <3>5
    <3> HIDE DEF p
    <3>8. CASE Canon[kws[k].name] = c
      <4> DEFINE s == f[k - 1]
                 e == Entry(kws[k])
      <4>1. s \in Seq(Occurrence) /\ e \in Occurrence /\ p \in 1 .. Len(s)
        BY <3>6, <3>7
      <4>2. /\ f[k] = Append(s, e) /\ g[k - 1] = Append(g[k - 1 - 1], e)
            /\ g[k - 1 - 1] = Contract!RemoveAt(s, p)
        BY <1>7, <3>4, <3>6, <3>8
      <4> HIDE DEF s, e
      <4>3. Contract!RemoveAt(Append(s, e), p) = Append(Contract!RemoveAt(s, p), e)
        BY <4>1, AppendRemoved
      <4>4. Len(Append(s, e)) = Len(s) + 1 /\ Len(s) \in Nat
        BY <4>1, Appended
      <4>5. p \in 1 .. Len(s) + 1
        BY <4>1, <4>4
      <4>6. Good(k)
        BY <4>2, <4>3, <4>4, <4>5
      <4>7. QED
        BY <3>2, <4>6
    <3>9. CASE Canon[kws[k].name] # c
      <4>1. f[k] = f[k - 1] /\ g[k - 1] = g[k - 1 - 1]
        BY <1>7, <3>4, <3>9
      <4>2. Good(k)
        BY <3>6, <4>1
      <4>3. QED
        BY <3>2, <4>2
    <3>10. QED
      BY <3>8, <3>9
  <2>3. Good(n)
    BY <1>8, <2>2
  <2>4. QED
    BY <1>8, <2>3
<1>11. QED
  BY <1>2, <1>3, <1>9, <1>10

(* Where nothing of class c is seen, nothing is added. *)
LEMMA UpToIdle ==
  ASSUME NEW n \in Nat, NEW kws, NEW c, NEW f, UpTo(n, kws, c, f), NEW a \in 0 .. n, NEW b \in a .. n,
         \A i \in a + 1 .. b: Canon[kws[i].name] # c
  PROVE  f[b] = f[a]
<1> DEFINE T == {i \in a .. b: f[i] # f[a]}
<1>1. SUFFICES ASSUME T # {} PROVE FALSE
  <2>1. b \in a .. b
    OBVIOUS
  <2>2. QED
    BY <2>1
<1>2. T \in SUBSET Nat
  OBVIOUS
<1>3. PICK i \in T: \A u \in T: i <= u
  BY <1>1, <1>2, FirstIsLeast
<1>4. i \in a + 1 .. b /\ i - 1 \in a .. b /\ i \in 1 .. n /\ ~(i <= i - 1)
  BY <1>3
<1>5. f[i - 1] = f[a]
  BY <1>3, <1>4
<1>6. f[i] = IF Canon[kws[i].name] = c THEN Append(f[i - 1], Entry(kws[i])) ELSE f[i - 1]
  BY <1>4, UpToSteps
<1>7. f[i] = f[a]
  BY <1>4, <1>5, <1>6
<1>8. QED
  BY <1>3, <1>7

(* A name that is not there has no occurrence. *)
LEMMA AbsentHasNone ==
  ASSUME NEW kws \in Seq(Keyword), NEW c, \A i \in 1 .. Len(kws): Canon[kws[i].name] # c
  PROVE  Occurrences(kws, c) = << >>
<1> DEFINE n == Len(kws)
<1>1. n \in Nat /\ 0 \in 0 .. n /\ n \in 0 .. n /\ \A i \in 0 + 1 .. n: Canon[kws[i].name] # c
  BY KeywordsShape
<1>2. PICK f: UpTo(n, kws, c, f) /\ Occurrences(kws, c) = f[n]
  BY <1>1, OccurrencesAre
<1> HIDE DEF n
<1>3. f[n] = f[0] /\ f[0] = << >>
  BY <1>1, <1>2, UpToIdle, UpToSteps
<1>4. QED
  BY <1>2, <1>3

(* A name that is there once has one. *)
LEMMA UniqueHasOne ==
  ASSUME NEW kws \in Seq(Keyword), NEW i \in 1 .. Len(kws), NEW c, Canon[kws[i].name] = c,
         \A j \in 1 .. Len(kws): j # i => Canon[kws[j].name] # c
  PROVE  Occurrences(kws, c) = <<Entry(kws[i])>>
<1> DEFINE n == Len(kws)
<1>1. /\ n \in Nat /\ i \in 1 .. n /\ i \in 0 .. n /\ n \in i .. n /\ 0 \in 0 .. n
      /\ \A j \in i + 1 .. n: Canon[kws[j].name] # c
  BY KeywordsShape
<1>2. PICK q: q = i - 1
  OBVIOUS
<1>3. q \in 0 .. n /\ \A j \in 0 + 1 .. q: Canon[kws[j].name] # c
  BY <1>1, <1>2
<1>4. PICK f: UpTo(n, kws, c, f) /\ Occurrences(kws, c) = f[n]
  BY <1>1, OccurrencesAre
<1> HIDE DEF n
<1>5. f[q] = f[0] /\ f[0] = << >>
  BY <1>1, <1>3, <1>4, UpToIdle, UpToSteps
<1>6. f[i] = Append(f[i - 1], Entry(kws[i]))
  <2>1. \A j \in 1 .. n: f[j] = IF Canon[kws[j].name] = c THEN Append(f[j - 1], Entry(kws[j])) ELSE f[j - 1]
    BY <1>1, <1>4, UpToSteps
  <2>2. QED
    BY <1>1, <2>1
<1>7. f[n] = f[i]
  BY <1>1, <1>4, UpToIdle
<1>8. \A e: Append(<< >>, e) = <<e>>
  OBVIOUS
<1>9. QED
  BY <1>2, <1>4, <1>5, <1>6, <1>7, <1>8

-------------------------------------------------------------------------------
(* The contract's steps *)

(* The occurrences of every class. *)
OccOf(kws) == [c \in Classes |-> Occurrences(kws, c)]

(* Every keyword belongs to a class. *)
LEMMA ClassOfKeyword ==
  ASSUME NEW kws \in Seq(Keyword), NEW i \in 1 .. Len(kws)
  PROVE  Canon[kws[i].name] \in Classes
<1>1. kws[i].name \in Names
  BY KeywordsShape DEF Keyword
<1>2. QED
  BY <1>1 DEF Classes

(* The header the caller sees is a vector of keywords. *)
LEMMA VisibleType == ASSUME TypeOK PROVE Visible \in Seq(Keyword)
BY DEF TypeOK, Visible, Call

(* A call that leaves the visible header alone has no effect. *)
LEMMA SameIsNoEffect ==
  ASSUME Visible' = Visible, res' \in {"ok", "none"} \cup Errors
  PROVE  Contract!Next
BY DEF Contract!Next, Contract!NoEffect

(* One keyword of `new` differs from `old`'s, in its value or comment. *)
Rewritten(old, new) ==
  /\ new \in Seq(Keyword) /\ Len(new) = Len(old)
  /\ \E i \in 1 .. Len(old): /\ new[i].name = old[i].name
                            /\ \A j \in 1 .. Len(old): j # i => new[j] = old[j]

(* `new` has one more keyword at the end. *)
Extended(old, new) == \E kw \in Keyword: new = Append(old, kw)

(* `new` has one keyword less. *)
Reduced(old, new) ==
  /\ new \in Seq(Keyword) /\ Len(new) = Len(old) - 1
  /\ \E i \in 1 .. Len(old): \A j \in 1 .. Len(old) - 1: new[j] = IF j < i THEN old[j] ELSE old[j + 1]

(* In place, a call rewrites one occurrence of one class. *)
LEMMA RewrittenIsRewrite ==
  ASSUME Visible \in Seq(Keyword), Rewritten(Visible, Visible'), res' = "ok"
  PROVE  Contract!Next
<1> DEFINE old == Visible
           new == Visible'
<1>1. PICK i \in 1 .. Len(old): /\ new[i].name = old[i].name
                               /\ \A j \in 1 .. Len(old): j # i => new[j] = old[j]
  BY DEF Rewritten
<1>2. new \in Seq(Keyword) /\ Len(new) = Len(old)
  BY DEF Rewritten
<1>3. new[i] \in Keyword
  BY <1>2, KeywordsShape
<1> DEFINE d == Canon[old[i].name]
           v == new[i].value
           k == new[i].comment
<1>4. d \in Classes
  BY ClassOfKeyword
<1>5. v \in Values /\ k \in Comments /\ Entry(new[i]) = [value |-> v, comment |-> k]
  BY <1>3 DEF Keyword, Entry
<1>6. \A c \in Classes: c # d => Occurrences(new, c) = Occurrences(old, c)
  BY <1>1, <1>2, OccurrencesAfterUpdate
<1>7. PICK p \in 1 .. Len(Occurrences(old, d)):
        Occurrences(new, d) = Overwritten(Occurrences(old, d), p, Entry(new[i]))
  <2>1. OneOverwritten(Occurrences(old, d), Occurrences(new, d), Entry(new[i]))
    BY <1>1, <1>2, OccurrencesAfterUpdate
  <2>2. QED
    BY <2>1 DEF OneOverwritten
<1>8. OccOf(new) = [OccOf(old) EXCEPT ![d][p] = Entry(new[i])]
  BY <1>4, <1>6, <1>7 DEF OccOf, Overwritten
<1>9. p \in DOMAIN OccOf(old)[d]
  <2>1. Occurrences(old, d) \in Seq(Occurrence)
    BY OccurrencesType
  <2>2. DOMAIN Occurrences(old, d) = 1 .. Len(Occurrences(old, d))
    BY <2>1
  <2>3. QED
    BY <1>4, <2>2 DEF OccOf
<1> HIDE DEF d, v, k
<1>10. Contract!Rewrite(d, p, v, k)
  BY <1>5, <1>8, <1>9 DEF Contract!Rewrite, OccOf
<1>11. QED
  BY <1>4, <1>5, <1>9, <1>10 DEF Contract!Next, OccOf

(* At the end, it adds a last occurrence to one class. *)
LEMMA ExtendedIsAddLast ==
  ASSUME Visible \in Seq(Keyword), Extended(Visible, Visible'), res' = "ok"
  PROVE  Contract!Next
<1> DEFINE old == Visible
           new == Visible'
<1>1. PICK kw \in Keyword: new = Append(old, kw)
  BY DEF Extended
<1> DEFINE d == Canon[kw.name]
           v == kw.value
           k == kw.comment
<1>2. d \in Classes /\ v \in Values /\ k \in Comments /\ Entry(kw) = [value |-> v, comment |-> k]
  BY DEF Keyword, Entry, Classes
<1>3. \A c \in Classes: Occurrences(new, c) = IF c = d THEN Append(Occurrences(old, c), [value |-> v, comment |-> k])
                                              ELSE Occurrences(old, c)
  BY <1>1, <1>2, OccurrencesAfterPush
<1> HIDE DEF d, v, k
<1>4. OccOf(new) = [OccOf(old) EXCEPT ![d] = Append(OccOf(old)[d], [value |-> v, comment |-> k])]
  BY <1>2, <1>3 DEF OccOf
<1>5. Contract!AddLast(d, v, k)
  BY <1>4 DEF Contract!AddLast, OccOf
<1>6. QED
  BY <1>2, <1>5 DEF Contract!Next

(* And it deletes one occurrence of one class. *)
LEMMA ReducedIsDrop ==
  ASSUME Visible \in Seq(Keyword), Reduced(Visible, Visible'), res' = "ok"
  PROVE  Contract!Next
<1> DEFINE old == Visible
           new == Visible'
<1>1. PICK i \in 1 .. Len(old): \A j \in 1 .. Len(old) - 1: new[j] = IF j < i THEN old[j] ELSE old[j + 1]
  BY DEF Reduced
<1>2. new \in Seq(Keyword) /\ Len(new) = Len(old) - 1
  BY DEF Reduced
<1> DEFINE d == Canon[old[i].name]
<1>3. d \in Classes
  BY ClassOfKeyword
<1>4. \A c \in Classes: c # d => Occurrences(new, c) = Occurrences(old, c)
  BY <1>1, <1>2, OccurrencesAfterDelete
<1>5. PICK p \in 1 .. Len(Occurrences(old, d)):
        Occurrences(new, d) = Contract!RemoveAt(Occurrences(old, d), p)
  BY <1>1, <1>2, OccurrencesAfterDelete
<1>6. OccOf(new) = [OccOf(old) EXCEPT ![d] = Contract!RemoveAt(OccOf(old)[d], p)]
  BY <1>3, <1>4, <1>5 DEF OccOf
<1>7. p \in DOMAIN OccOf(old)[d]
  <2>1. Occurrences(old, d) \in Seq(Occurrence)
    BY OccurrencesType
  <2>2. DOMAIN Occurrences(old, d) = 1 .. Len(Occurrences(old, d))
    BY <2>1
  <2>3. QED
    BY <1>3, <2>2 DEF OccOf
<1> HIDE DEF d
<1>8. Contract!Drop(d, p)
  BY <1>6, <1>7 DEF Contract!Drop, OccOf
<1>9. QED
  BY <1>3, <1>7, <1>8 DEF Contract!Next, OccOf

-------------------------------------------------------------------------------
(* Calls that do not loop *)

(* A keyword with another value or comment. *)
LEMMA UpdateIsRewritten ==
  ASSUME NEW kws \in Seq(Keyword), NEW i \in 1 .. Len(kws), NEW kw \in Keyword, kw.name = kws[i].name
  PROVE  Rewritten(kws, [kws EXCEPT ![i] = kw])
<1> DEFINE new == [kws EXCEPT ![i] = kw]
<1>1. new \in Seq(Keyword) /\ Len(new) = Len(kws) /\ \A j \in 1 .. Len(kws): new[j] = IF j = i THEN kw ELSE kws[j]
  BY ExceptSeq
<1> HIDE DEF new
<1>2. new[i].name = kws[i].name
  BY <1>1
<1>3. QED
  BY <1>1, <1>2 DEF Rewritten, new

(* Vec::remove takes one keyword out. *)
LEMMA DeleteIsReduced ==
  ASSUME NEW kws \in Seq(Keyword), NEW i \in 1 .. Len(kws)
  PROVE  Reduced(kws, DeleteAt(kws, i))
BY DeleteAtShape DEF Reduced

(* A push adds one. *)
LEMMA PushIsExtended ==
  ASSUME NEW kws \in Seq(Keyword), NEW name \in Names, NEW value \in Values
  PROVE  Extended(kws, Pushed(kws, name, value))
<1>1. [name |-> name, value |-> value, comment |-> NoComment] \in Keyword
  BY ApiAssumption DEF Keyword
<1>2. QED
  BY <1>1 DEF Pushed, Extended

(* What set and set_with_comment compute: a refusal that changes nothing,  *)
(* one keyword rewritten, or a new one at the end.                         *)
Edited(s) ==
  \/ s.tag \in Errors /\ s.kws = keywords
  \/ s.tag = "ok" /\ (Rewritten(keywords, s.kws) \/ Extended(keywords, s.kws))

(* set makes one of these edits. *)
LEMMA SetIsEdit ==
  ASSUME TypeOK, NEW key \in Key, NEW value \in Values
  PROVE  Edited(SetResult(key, value))
<1> DEFINE r == Resolve(keywords, key)
           s == SetResult(key, value)
<1>1. keywords \in Seq(Keyword) /\ key.name \in Names
  BY KeyShape DEF TypeOK
<1>2. r.tag \in {"some", "none"} \cup Errors
  BY <1>1, ResolveType
<1>3. CASE r.tag = "some"
  <2>1. s = Done([keywords EXCEPT ![r.i].value = value])
    BY <1>3 DEF SetResult, Errors
  <2>2. r.i \in 1 .. Len(keywords)
    BY <1>1, <1>3, ResolveType, IndicesArePositions
  <2>3. keywords[r.i] \in Keyword
    BY <1>1, <2>2, KeywordsShape
  <2>4. /\ [keywords[r.i] EXCEPT !.value = value] \in Keyword
        /\ [keywords[r.i] EXCEPT !.value = value].name = keywords[r.i].name
    BY <2>3 DEF Keyword
  <2>5. Rewritten(keywords, [keywords EXCEPT ![r.i] = [keywords[r.i] EXCEPT !.value = value]])
    BY <1>1, <2>2, <2>4, UpdateIsRewritten
  <2>6. QED
    BY <2>1, <2>5 DEF Edited, Done
<1>4. CASE r.tag \in Errors
  BY <1>4 DEF SetResult, Edited, Failed, Errors
<1>5. CASE r.tag = "none"
  <2>1. Extended(keywords, Pushed(keywords, key.name, value))
    BY <1>1, PushIsExtended
  <2>2. \/ s = Done(Pushed(keywords, key.name, value))
        \/ \E tag \in Errors: s = Failed(tag)
    BY <1>5, KeyShape DEF SetResult, Errors
  <2>3. QED
    BY <2>1, <2>2 DEF Edited, Done, Failed
<1>6. QED
  BY <1>2, <1>3, <1>4, <1>5

(* The comment goes to the keyword the value went to. *)
LEMMA SetWithCommentIsEdit ==
  ASSUME TypeOK, NEW key \in Key, NEW value \in Values, NEW comment \in Comments
  PROVE  Edited(SetWithCommentResult(key, value, comment))
<1> DEFINE r == Resolve(keywords, key)
           s == SetResult(key, value)
           q == Resolve(s.kws, key)
           t == SetWithCommentResult(key, value, comment)
           w == [s.kws[q.i] EXCEPT !.comment = comment]
<1>1. /\ keywords \in Seq(Keyword) /\ s.kws \in Seq(Keyword) /\ key.name \in Names
      /\ Len(keywords) \in Nat
  BY SetResultType, KeyShape, KeywordsShape DEF TypeOK
<1>2. r.tag \in {"some", "none"} \cup Errors
  BY <1>1, ResolveType
<1>3. CASE s.tag # "ok"
  BY <1>3, SetIsEdit DEF SetWithCommentResult, Edited
<1>4. ASSUME s.tag = "ok"
      PROVE  /\ q.tag = "some" /\ q.i \in 1 .. Len(s.kws)
             /\ t = Done([s.kws EXCEPT ![q.i] = w]) /\ w \in Keyword /\ w.name = s.kws[q.i].name
  <2>1. q.tag = "some" /\ q.i \in 1 .. Len(s.kws)
    BY <1>4, SetIsReadBack
  <2>2. s.kws[q.i] \in Keyword
    BY <1>1, <2>1, KeywordsShape
  <2>3. t = Done([s.kws EXCEPT ![q.i] = w])
    BY <1>4, <2>1 DEF SetWithCommentResult, Errors
  <2>4. w \in Keyword /\ w.name = s.kws[q.i].name
    BY <2>2 DEF Keyword
  <2>5. QED
    BY <2>1, <2>3, <2>4
<1>5. CASE s.tag = "ok" /\ r.tag = "some"
  <2>1. s.kws = [keywords EXCEPT ![r.i].value = value]
    BY <1>5 DEF SetResult, Done, Errors
  <2>2. r.i \in 1 .. Len(keywords)
    BY <1>1, <1>5, ResolveType, IndicesArePositions
  <2>3. q = r
    <3>1. Resolve([keywords EXCEPT ![r.i].value = value], key) = Resolve(keywords, key)
      BY <1>1, <2>2, ResolveAfterUpdate
    <3>2. QED
      BY <2>1, <3>1
  <2>4. keywords[r.i] \in Keyword
    BY <1>1, <2>2, KeywordsShape
  <2> DEFINE u == [keywords[r.i] EXCEPT !.value = value]
             i == r.i
             a == [keywords EXCEPT ![i] = u]
             b == [a EXCEPT ![i] = w]
  <2>5. u \in Keyword /\ u.name = keywords[i].name
    BY <2>4 DEF Keyword
  <2>6. i \in 1 .. Len(keywords) /\ s.kws = a
    BY <2>1, <2>2
  <2>7. w \in Keyword /\ w.name = a[i].name /\ t = Done(b)
    BY <1>4, <1>5, <2>3, <2>6
  <2> HIDE DEF u, w, i
  <2>8. a \in Seq(Keyword) /\ Len(a) = Len(keywords) /\ \A j \in 1 .. Len(keywords): a[j] = IF j = i THEN u ELSE keywords[j]
    BY <1>1, <2>5, <2>6, ExceptSeq
  <2> HIDE DEF a
  <2>9. b \in Seq(Keyword) /\ Len(b) = Len(a) /\ \A j \in 1 .. Len(a): b[j] = IF j = i THEN w ELSE a[j]
    BY <2>6, <2>7, <2>8, ExceptSeq
  <2> HIDE DEF b
  <2>10. b[i].name = keywords[i].name
    BY <2>5, <2>6, <2>7, <2>8, <2>9
  <2>11. Rewritten(keywords, b)
    BY <2>6, <2>8, <2>9, <2>10 DEF Rewritten
  <2>12. QED
    BY <2>7, <2>11 DEF Edited, Done
<1>6. CASE s.tag = "ok" /\ r.tag = "none"
  <2>1. s.kws = Pushed(keywords, key.name, value)
    BY <1>6, KeyShape DEF SetResult, Done, Failed, Errors
  <2> DEFINE e == [name |-> key.name, value |-> value, comment |-> NoComment]
  <2>2. e \in Keyword /\ s.kws = Append(keywords, e)
    BY <1>1, <2>1, ApiAssumption DEF Keyword, Pushed
  <2>3. q.i = Len(keywords) + 1
    <3>1. Indices(keywords, key.name) = {}
      BY <1>1, <1>6, ResolveType
    <3>2. Indices(s.kws, key.name) = {Len(keywords) + 1}
      BY <1>1, <2>1, <3>1, IndicesAfterPush DEF SameName
    <3>3. QED
      BY <1>1, <1>4, <1>6, <3>2, ResolveType
  <2>4. Append(keywords, w) = [Append(keywords, e) EXCEPT ![Len(keywords) + 1] = w]
    <3>1. w \in Keyword
      BY <1>4, <1>6
    <3> HIDE DEF e, w
    <3>2. QED
      BY <1>1, <2>2, <3>1, AppendOver
  <2>5. t = Done(Append(keywords, w)) /\ w \in Keyword
    BY <1>4, <1>6, <2>2, <2>3, <2>4
  <2>6. QED
    BY <2>5 DEF Edited, Done, Extended
<1>7. CASE s.tag = "ok" /\ r.tag \in Errors
  BY <1>7 DEF SetResult, Failed, Errors
<1>8. QED
  BY <1>2, <1>3, <1>5, <1>6, <1>7

(* Both are steps of the contract. *)
LEMMA EditStep ==
  ASSUME TypeOK, NEW s, Edited(s), Apply(s)
  PROVE  Contract!Next
<1>1. Visible = keywords /\ Visible' = s.kws /\ res' = s.tag /\ Visible \in Seq(Keyword)
  BY VisibleType DEF Apply, Idle, Visible, Return
<1>2. CASE s.tag \in Errors /\ s.kws = keywords
  BY <1>1, <1>2, SameIsNoEffect
<1>3. CASE s.tag = "ok" /\ Rewritten(keywords, s.kws)
  BY <1>1, <1>3, RewrittenIsRewrite
<1>4. CASE s.tag = "ok" /\ Extended(keywords, s.kws)
  BY <1>1, <1>4, ExtendedIsAddLast
<1>5. QED
  BY <1>2, <1>3, <1>4 DEF Edited

(* A read, a refused call, a call on properties. *)
LEMMA QuietStep ==
  ASSUME UNCHANGED <<keywords, call>>, res' \in {"ok", "none"} \cup Errors
  PROVE  Contract!Next
BY SameIsNoEffect DEF Visible

(* So is a call that returns early. *)
LEMMA RefuseStep ==
  ASSUME NEW tag \in {"ok", "none"} \cup Errors, Refuse(tag)
  PROVE  Contract!Next
BY QuietStep DEF Refuse, Return

-------------------------------------------------------------------------------
(* Calls that loop *)

(* The entries of the batch behind the cursor name class c. *)
Behind(c) == \E i \in 1 .. call.next - 1: i \in DOMAIN call.names /\ Canon[call.names[i]] = c

(* What set_many does to the occurrences of one class. *)
Assigned(was, is) ==
  \E v \in Values:
    \/ was = << >> /\ is = <<[value |-> v, comment |-> NoComment]>>
    \/ Len(was) = 1 /\ is = <<[was[1] EXCEPT !.value = v]>>

(* The header against the one the caller lent, class by class: only the    *)
(* ones the call names are touched, and the ones behind the cursor are as  *)
(* the contract wants them.  BatchProgress says nothing of that: it        *)
(* relates the header to the batch, not to the header lent.                *)
LoopInv ==
  /\ call.op = "remove_all" =>
       /\ 1 \in DOMAIN call.names
       /\ \A c \in Classes: c # Canon[call.names[1]] =>
            Occurrences(keywords, c) = Occurrences(call.start, c)
  /\ call.op = "remove_many" =>
       \A c \in Classes:
         /\ Behind(c) => Occurrences(keywords, c) = << >> /\ Len(Occurrences(call.start, c)) <= 1
         /\ ~Behind(c) => Occurrences(keywords, c) = Occurrences(call.start, c)
  /\ call.op = "set_many" =>
       \A c \in Classes:
         /\ Behind(c) => Assigned(Occurrences(call.start, c), Occurrences(keywords, c))
         /\ ~Behind(c) => Occurrences(keywords, c) = Occurrences(call.start, c)

(* Between calls there is no header lent. *)
LEMMA IdleLoopInv == ASSUME call' = NoCall PROVE LoopInv'
BY DEF LoopInv, NoCall

(* A loop that starts has touched nothing. *)
LEMMA BeginLoopInv ==
  ASSUME NEW op, NEW names, NEW values, Begin(op, names, values, 1), op = "remove_all" => 1 \in DOMAIN names
  PROVE  LoopInv'
<1>1. /\ call'.op = op /\ call'.names = names /\ call'.next = 1
      /\ call'.start = keywords /\ keywords' = keywords
  BY DEF Begin
<1>2. \A c: ~Behind(c)'
  BY <1>1 DEF Behind
<1>3. QED
  BY <1>1, <1>2 DEF LoopInv

(* A name that no two keywords share has one occurrence or none. *)
LEMMA Unrepeated ==
  ASSUME NEW kws \in Seq(Keyword), NEW name \in Names, ~Repeated(kws, name)
  PROVE  LET d == Canon[name]
             hits == Indices(kws, name)
         IN  /\ hits = {} => Occurrences(kws, d) = << >>
             /\ \A i \in hits: /\ Occurrences(kws, d) = <<Entry(kws[i])>>
                               /\ hits = {i} /\ i \in 1 .. Len(kws) /\ FirstOf(hits) = i
<1> DEFINE d == Canon[name]
           hits == Indices(kws, name)
<1>1. /\ DOMAIN kws = 1 .. Len(kws)
      /\ \A i \in 1 .. Len(kws): i \in hits <=> Canon[kws[i].name] = d
  BY KeywordsShape DEF Indices, SameName
<1>2. ASSUME hits = {} PROVE Occurrences(kws, d) = << >>
  <2>1. \A i \in 1 .. Len(kws): Canon[kws[i].name] # d
    BY <1>1, <1>2
  <2> HIDE DEF d
  <2>2. QED
    BY <2>1, AbsentHasNone
<1>3. ASSUME NEW i \in hits
      PROVE  /\ Occurrences(kws, d) = <<Entry(kws[i])>>
             /\ hits = {i} /\ i \in 1 .. Len(kws) /\ FirstOf(hits) = i
  <2>1. hits = {i}
    BY NotRepeatedIsUnique
  <2>2. i \in 1 .. Len(kws) /\ Canon[kws[i].name] = d
    BY <1>1 DEF Indices
  <2>3. \A j \in 1 .. Len(kws): j # i => Canon[kws[j].name] # d
    BY <1>1, <2>1
  <2>4. FirstOf(hits) = i
    BY <2>1, IndicesArePositions, FirstIsLeast
  <2> HIDE DEF d
  <2>5. Occurrences(kws, d) = <<Entry(kws[i])>>
    BY <2>2, <2>3, UniqueHasOne
  <2>6. QED
    BY <2>1, <2>2, <2>4, <2>5
<1>4. QED
  BY <1>2, <1>3

(* remove_all touches no other name. *)
LEMMA RemoveAllLoopInv ==
  ASSUME TypeOK, LoopInv, RemoveAllStep
  PROVE  LoopInv'
<1>1. keywords \in Seq(Keyword) /\ call.op = "remove_all" /\ call # NoCall /\ call \in Call
  BY DEF TypeOK, RemoveAllStep, NoCall
<1>2. CASE Finish
  BY <1>2, IdleLoopInv DEF Finish
<1>3. CASE call.next \in Indices(keywords, call.names[1]) /\ keywords' = DeleteAt(keywords, call.next)
           /\ UNCHANGED call
  <2>1. call.next \in 1 .. Len(keywords) /\ Canon[keywords[call.next].name] = Canon[call.names[1]]
    BY <1>1, <1>3, KeywordsShape DEF Indices, SameName
  <2> DEFINE i == call.next
             new == DeleteAt(keywords, i)
  <2>2. /\ new \in Seq(Keyword) /\ Len(new) = Len(keywords) - 1
        /\ \A j \in 1 .. Len(keywords) - 1: new[j] = IF j < i THEN keywords[j] ELSE keywords[j + 1]
    BY <1>1, <2>1, DeleteAtShape
  <2> HIDE DEF new, i
  <2>3. i \in 1 .. Len(keywords) /\ Canon[keywords[i].name] = Canon[call.names[1]]
    BY <2>1 DEF i
  <2>4. \A c: c # Canon[keywords[i].name] => Occurrences(new, c) = Occurrences(keywords, c)
    BY <1>1, <2>2, <2>3, OccurrencesAfterDelete
  <2>5. keywords' = new
    BY <1>3 DEF new, i
  <2>6. QED
    BY <1>1, <1>3, <2>3, <2>4, <2>5 DEF LoopInv
<1>4. CASE call' = [call EXCEPT !.next = @ + 1] /\ UNCHANGED keywords
  <2>1. call'.op = "remove_all" /\ call'.names = call.names /\ call'.start = call.start
    BY <1>1, <1>4, CallAdvances
  <2>2. QED
    BY <1>1, <1>4, <2>1 DEF LoopInv
<1>5. QED
  BY <1>2, <1>3, <1>4 DEF RemoveAllStep

(* The cursor passes one more entry. *)
LEMMA BehindAdvances ==
  ASSUME call.next \in Nat \ {0}, call.next \in DOMAIN call.names,
         call'.names = call.names, call'.next = call.next + 1
  PROVE  \A c: Behind(c)' <=> Behind(c) \/ c = Canon[call.names[call.next]]
<1>1. ASSUME NEW i PROVE i \in 1 .. call.next + 1 - 1 <=> i \in 1 .. call.next - 1 \/ i = call.next
  OBVIOUS
<1>2. QED
  BY <1>1 DEF Behind

(* remove_many leaves the names behind its cursor absent and the others as *)
(* they were.                                                              *)
LEMMA RemoveManyLoopInv ==
  ASSUME TypeOK, BatchProgress, LoopInv, RemoveManyStep
  PROVE  LoopInv'
<1> DEFINE name == call.names[call.next]
           d == Canon[name]
           hits == Indices(keywords, name)
<1>1. keywords \in Seq(Keyword) /\ call.op = "remove_many" /\ call # NoCall /\ call \in Call
  BY DEF TypeOK, RemoveManyStep, NoCall
<1>2. CASE Finish
  BY <1>2, IdleLoopInv DEF Finish
<1>3. ASSUME call.next \in DOMAIN call.names, ~Finish
      PROVE  LoopInv'
  <2>1. /\ call'.op = "remove_many" /\ call'.names = call.names /\ call'.start = call.start
        /\ call'.next = call.next + 1
    BY <1>1, <1>3, CallAdvances DEF RemoveManyStep
  <2>2. call.next \in Nat \ {0} /\ name \in Names
    BY <1>1, <1>3 DEF Call
  <2>3. d \in Classes /\ ~Repeated(keywords, name)
    BY <1>1, <1>3, <2>2 DEF Classes, BatchProgress
  <2>4. \A c \in Classes: c # d => Occurrences(keywords', c) = Occurrences(keywords, c)
    <3>1. CASE hits = {}
      BY <1>3, <3>1 DEF RemoveManyStep
    <3>2. ASSUME hits # {} PROVE \A c \in Classes: c # d => Occurrences(keywords', c) = Occurrences(keywords, c)
      <4>1. PICK i \in hits: TRUE
        BY <3>2
      <4>2. FirstOf(hits) = i /\ i \in 1 .. Len(keywords) /\ Canon[keywords[i].name] = d
        BY <1>1, <2>2, <2>3, <4>1, Unrepeated DEF Indices, SameName
      <4>3. keywords' = DeleteAt(keywords, i)
        BY <1>3, <3>2, <4>2 DEF RemoveManyStep
      <4> DEFINE new == DeleteAt(keywords, i)
      <4>4. /\ new \in Seq(Keyword) /\ Len(new) = Len(keywords) - 1
            /\ \A j \in 1 .. Len(keywords) - 1: new[j] = IF j < i THEN keywords[j] ELSE keywords[j + 1]
        BY <1>1, <4>2, DeleteAtShape
      <4> HIDE DEF new, d
      <4>5. \A c: c # Canon[keywords[i].name] => Occurrences(new, c) = Occurrences(keywords, c)
        BY <1>1, <4>2, <4>4, OccurrencesAfterDelete
      <4>6. QED
        BY <4>2, <4>3, <4>5 DEF new
    <3>3. QED
      BY <3>1, <3>2
  <2>5. Occurrences(keywords', d) = << >> /\ Len(Occurrences(keywords, d)) <= 1
    <3>1. CASE hits = {}
      <4>1. keywords' = keywords /\ Occurrences(keywords, d) = << >>
        BY <1>1, <1>3, <2>2, <2>3, <3>1, Unrepeated DEF RemoveManyStep
      <4>2. QED
        BY <4>1
    <3>2. ASSUME hits # {} PROVE Occurrences(keywords', d) = << >> /\ Len(Occurrences(keywords, d)) <= 1
      <4>1. PICK i \in hits: TRUE
        BY <3>2
      <4>2. /\ FirstOf(hits) = i /\ i \in 1 .. Len(keywords) /\ hits = {i}
            /\ Occurrences(keywords, d) = <<Entry(keywords[i])>>
        BY <1>1, <2>2, <2>3, <4>1, Unrepeated
      <4>3. keywords' = DeleteAt(keywords, i)
        BY <1>3, <3>2, <4>2 DEF RemoveManyStep
      <4> DEFINE new == DeleteAt(keywords, i)
      <4>4. /\ new \in Seq(Keyword) /\ Len(new) = Len(keywords) - 1 /\ Len(keywords) \in Nat
            /\ DOMAIN keywords = 1 .. Len(keywords)
            /\ \A j \in 1 .. Len(keywords) - 1: new[j] = IF j < i THEN keywords[j] ELSE keywords[j + 1]
        BY <1>1, <4>2, DeleteAtShape, KeywordsShape
      <4> HIDE DEF new
      <4>5. \A j \in 1 .. Len(keywords): j # i => Canon[keywords[j].name] # d
        BY <4>2, <4>4 DEF Indices, SameName
      <4>6. \A j \in 1 .. Len(new): Canon[new[j].name] # d
        <5>1. \A j \in 1 .. Len(new): /\ j < i => j \in 1 .. Len(keywords) /\ j # i
                                      /\ ~(j < i) => j + 1 \in 1 .. Len(keywords) /\ j + 1 # i
          BY <4>2, <4>4
        <5>2. QED
          BY <4>4, <4>5, <5>1
      <4> HIDE DEF d
      <4>7. Occurrences(new, d) = << >>
        BY <4>4, <4>6, AbsentHasNone
      <4>8. QED
        BY <4>2, <4>3, <4>7 DEF new
    <3>3. QED
      BY <3>1, <3>2
  <2>6. \A c: Behind(c)' <=> Behind(c) \/ c = d
    BY <1>3, <2>1, <2>2, BehindAdvances
  <2> HIDE DEF d
  <2>7. ASSUME NEW c \in Classes
        PROVE  /\ Behind(c)' => Occurrences(keywords', c) = << >> /\ Len(Occurrences(call.start, c)) <= 1
               /\ ~Behind(c)' => Occurrences(keywords', c) = Occurrences(call.start, c)
    <3>1. /\ Behind(c) => Occurrences(keywords, c) = << >> /\ Len(Occurrences(call.start, c)) <= 1
          /\ ~Behind(c) => Occurrences(keywords, c) = Occurrences(call.start, c)
      BY <1>1 DEF LoopInv
    <3>2. CASE c = d
      BY <2>5, <2>6, <3>1, <3>2
    <3>3. CASE c # d
      BY <2>4, <2>6, <3>1, <3>3
    <3>4. QED
      BY <3>2, <3>3
  <2>8. QED
    BY <2>1, <2>7 DEF LoopInv
<1>4. QED
  BY <1>2, <1>3 DEF RemoveManyStep

(* set_many gives the names behind its cursor one occurrence, and leaves   *)
(* the others as they were.                                                *)
LEMMA SetManyLoopInv ==
  ASSUME TypeOK, BatchProgress, LoopInv, SetManyStep
  PROVE  LoopInv'
<1> DEFINE name == call.names[call.next]
           value == call.values[call.next]
           d == Canon[name]
           hits == Indices(keywords, name)
<1>1. /\ keywords \in Seq(Keyword) /\ call.op = "set_many" /\ call # NoCall /\ call \in Call
      /\ Len(call.values) = Len(call.names)
  BY DEF TypeOK, SetManyStep, NoCall
<1>2. CASE Finish
  BY <1>2, IdleLoopInv DEF Finish
<1>3. ASSUME call.next \in DOMAIN call.names, ~Finish
      PROVE  LoopInv'
  <2>1. /\ call'.op = "set_many" /\ call'.names = call.names /\ call'.start = call.start
        /\ call'.next = call.next + 1
    BY <1>1, <1>3, CallAdvances DEF SetManyStep
  <2>2. call.next \in Nat \ {0} /\ name \in Names /\ value \in Values
    BY <1>1, <1>3 DEF Call
  <2>3. d \in Classes /\ ~Repeated(keywords, name)
    BY <1>1, <1>3, <2>2 DEF Classes, BatchProgress
  <2>4. CASE hits = {}
    <3> DEFINE kw == [name |-> name, value |-> value, comment |-> NoComment]
    <3>1. keywords' = Append(keywords, kw)
      BY <1>3, <2>4 DEF SetManyStep, Pushed
    <3>2. kw \in Keyword /\ Canon[kw.name] = d /\ Entry(kw) = [value |-> value, comment |-> NoComment]
      BY <2>2, ApiAssumption DEF Keyword, Entry
    <3>3. Occurrences(keywords, d) = << >>
      BY <1>1, <2>2, <2>3, <2>4, Unrepeated
    <3> HIDE DEF kw, d, hits
    <3>4. \A c: Occurrences(keywords', c) = IF c = d THEN Append(Occurrences(keywords, c), Entry(kw))
                                            ELSE Occurrences(keywords, c)
      BY <1>1, <3>1, <3>2, OccurrencesAfterPush
    <3>5. \A e: Append(<< >>, e) = <<e>>
      OBVIOUS
    <3>6. /\ \A c \in Classes: c # d => Occurrences(keywords', c) = Occurrences(keywords, c)
          /\ Occurrences(keywords', d) = <<[value |-> value, comment |-> NoComment]>>
      BY <3>2, <3>3, <3>4, <3>5
    <3>7. \A was: /\ Assigned(was, << >>) => FALSE
                  /\ was = << >> => Assigned(was, Occurrences(keywords', d))
      BY <2>2, <3>6 DEF Assigned
    <3>8. \A c: Behind(c)' <=> Behind(c) \/ c = d
      BY <1>3, <2>1, <2>2, BehindAdvances DEF d
    <3>9. ASSUME NEW c \in Classes
          PROVE  /\ Behind(c)' => Assigned(Occurrences(call.start, c), Occurrences(keywords', c))
                 /\ ~Behind(c)' => Occurrences(keywords', c) = Occurrences(call.start, c)
      <4>1. /\ Behind(c) => Assigned(Occurrences(call.start, c), Occurrences(keywords, c))
            /\ ~Behind(c) => Occurrences(keywords, c) = Occurrences(call.start, c)
        BY <1>1 DEF LoopInv
      <4>2. CASE c = d
        <5>1. ~Behind(c)
          BY <3>3, <3>7, <4>1, <4>2
        <5>2. Occurrences(call.start, c) = << >>
          BY <3>3, <4>1, <4>2, <5>1
        <5>3. QED
          BY <3>7, <3>8, <4>2, <5>2
      <4>3. CASE c # d
        BY <3>6, <3>8, <4>1, <4>3
      <4>4. QED
        BY <4>2, <4>3
    <3>10. QED
      BY <2>1, <3>9 DEF LoopInv
  <2>5. ASSUME hits # {} PROVE LoopInv'
    <3>1. PICK i \in hits: TRUE
      BY <2>5
    <3>2. /\ FirstOf(hits) = i /\ i \in 1 .. Len(keywords) /\ hits = {i}
          /\ Occurrences(keywords, d) = <<Entry(keywords[i])>>
      BY <1>1, <2>2, <2>3, <3>1, Unrepeated
    <3>3. keywords[i] \in Keyword /\ Canon[keywords[i].name] = d
      BY <1>1, <3>2, KeywordsShape DEF Indices, SameName
    <3> DEFINE kw == [keywords[i] EXCEPT !.value = value]
               new == [keywords EXCEPT ![i] = kw]
    <3>4. kw \in Keyword /\ kw.name = keywords[i].name /\ Entry(kw) = [Entry(keywords[i]) EXCEPT !.value = value]
      BY <2>2, <3>3 DEF Keyword, Entry
    <3>5. keywords' = new
      BY <1>3, <2>5, <3>2 DEF SetManyStep
    <3> HIDE DEF kw
    <3>6. new \in Seq(Keyword) /\ Len(new) = Len(keywords) /\ \A j \in 1 .. Len(keywords): new[j] = IF j = i THEN kw ELSE keywords[j]
      BY <1>1, <3>2, <3>4, ExceptSeq
    <3> HIDE DEF new
    <3>7. \A j \in 1 .. Len(keywords): j # i => Canon[keywords[j].name] # d
      <4>1. DOMAIN keywords = 1 .. Len(keywords)
        BY <1>1, KeywordsShape
      <4>2. QED
        BY <3>2, <4>1 DEF Indices, SameName
    <3> HIDE DEF d, hits
    <3>8. Occurrences(new, d) = <<Entry(kw)>>
      <4>1. i \in 1 .. Len(new) /\ Canon[new[i].name] = d /\ new[i] = kw
        BY <3>2, <3>3, <3>4, <3>6
      <4>2. \A j \in 1 .. Len(new): j # i => Canon[new[j].name] # d
        BY <3>6, <3>7
      <4>3. QED
        BY <3>6, <4>1, <4>2, UniqueHasOne
    <3>9. \A c: c # d => Occurrences(new, c) = Occurrences(keywords, c)
      <4>1. new[i].name = keywords[i].name /\ \A j \in 1 .. Len(keywords): j # i => new[j] = keywords[j]
        BY <3>2, <3>4, <3>6
      <4>2. \A c: c # Canon[keywords[i].name] => Occurrences(new, c) = Occurrences(keywords, c)
        BY <1>1, <3>2, <3>6, <4>1, OccurrencesAfterUpdate
      <4>3. QED
        BY <3>3, <4>2
    <3> DEFINE e == Entry(keywords[i])
    <3>10. \A was: Assigned(was, <<e>>) \/ was = <<e>> => Assigned(was, <<Entry(kw)>>)
      <4> HIDE DEF e
      <4>1. Entry(kw) = [e EXCEPT !.value = value] /\ <<e>>[1] = e /\ Len(<<e>>) = 1
        BY <3>4 DEF e
      <4>2. Assigned(<<e>>, <<Entry(kw)>>)
        BY <2>2, <4>1 DEF Assigned
      <4>3. ASSUME NEW was, NEW v \in Values, was = << >>, <<e>> = <<[value |-> v, comment |-> NoComment]>>
            PROVE  Assigned(was, <<Entry(kw)>>)
        <5>1. e = [value |-> v, comment |-> NoComment]
          BY <4>3
        <5>2. Entry(kw) = [value |-> value, comment |-> NoComment]
          BY <4>1, <5>1
        <5>3. QED
          BY <2>2, <4>3, <5>2 DEF Assigned
      <4>4. ASSUME NEW was, NEW v \in Values, Len(was) = 1, <<e>> = <<[was[1] EXCEPT !.value = v]>>
            PROVE  Assigned(was, <<Entry(kw)>>)
        <5>1. e = [was[1] EXCEPT !.value = v]
          BY <4>4
        <5>2. Entry(kw) = [was[1] EXCEPT !.value = value]
          BY <4>1, <5>1
        <5>3. QED
          BY <2>2, <4>4, <5>2 DEF Assigned
      <4>5. QED
        BY <4>2, <4>3, <4>4 DEF Assigned
    <3>11. \A c: Behind(c)' <=> Behind(c) \/ c = d
      BY <1>3, <2>1, <2>2, BehindAdvances DEF d
    <3>12. ASSUME NEW c \in Classes
           PROVE  /\ Behind(c)' => Assigned(Occurrences(call.start, c), Occurrences(new, c))
                  /\ ~Behind(c)' => Occurrences(new, c) = Occurrences(call.start, c)
      <4>1. /\ Behind(c) => Assigned(Occurrences(call.start, c), Occurrences(keywords, c))
            /\ ~Behind(c) => Occurrences(keywords, c) = Occurrences(call.start, c)
        BY <1>1 DEF LoopInv
      <4>2. CASE c = d
        <5>1. Occurrences(keywords, d) = <<e>>
          BY <3>2
        <5>2. QED
          BY <3>8, <3>10, <3>11, <4>1, <4>2, <5>1
      <4>3. CASE c # d
        BY <3>9, <3>11, <4>1, <4>3
      <4>4. QED
        BY <4>2, <4>3
    <3>13. QED
      BY <2>1, <3>5, <3>12 DEF LoopInv
  <2>6. QED
    BY <2>4, <2>5
<1>4. QED
  BY <1>2, <1>3 DEF SetManyStep

(* No call is in progress at first. *)
LEMMA InitLoopInv == Init => LoopInv
BY DEF Init, LoopInv, NoCall

(* Every step keeps it. *)
LEMMA LoopInvStep == IInv /\ LoopInv /\ [Next]_vars => LoopInv'
<1> SUFFICES ASSUME IInv, LoopInv, [Next]_vars PROVE LoopInv'
  OBVIOUS
<1>1. TypeOK /\ BatchProgress
  BY DEF IInv
<1>2. CASE UNCHANGED vars
  BY <1>2 DEF vars, LoopInv, Behind
<1>3. CASE LoopStep
  BY <1>1, <1>3, RemoveAllLoopInv, SetManyLoopInv, RemoveManyLoopInv DEF LoopStep
<1>4. CASE call' = NoCall
  BY <1>4, IdleLoopInv
<1>5. CASE PropertyCall
  BY <1>4, <1>5 DEF PropertyCall, RemoveProperty, SetProperty, SetPropertyWithType, Refuse, Idle
<1>6. ASSUME NEW name \in Names, RemoveAllBegin(name) PROVE LoopInv'
  <2>1. 1 \in DOMAIN <<name>>
    OBVIOUS
  <2>2. QED
    BY <1>6, <2>1, BeginLoopInv DEF RemoveAllBegin
<1>7. ASSUME NEW b \in SetBatches, SetManyBegin(b.names, b.values) PROVE LoopInv'
  BY <1>4, <1>7, BeginLoopInv DEF SetManyBegin, Refuse, Idle
<1>8. ASSUME NEW b \in RemoveBatches, RemoveManyBegin(b) PROVE LoopInv'
  BY <1>4, <1>8, BeginLoopInv DEF RemoveManyBegin, Refuse, Idle
<1>9. CASE KeywordCall
  BY <1>4, <1>6, <1>7, <1>8, <1>9
  DEF KeywordCall, Get, RemoveKey, Set, SetWithComment, SetComment, Apply, AppendKey, Refuse, Idle
<1>10. QED
  BY <1>2, <1>3, <1>5, <1>9 DEF Next

-------------------------------------------------------------------------------
(* Every step is one of the contract's *)

(* A call that loops is not seen to start. *)
LEMMA BeginIsUnseen ==
  ASSUME Idle, NEW op \in {"remove_all", "set_many", "remove_many"}, NEW names, NEW values,
         Begin(op, names, values, 1)
  PROVE  Contract!Next
<1>1. call'.start = keywords /\ call' # NoCall /\ res' = "ok"
  BY DEF Begin, NoCall, Return
<1>2. Visible' = Visible
  BY <1>1 DEF Idle, Visible
<1>3. QED
  BY <1>1, <1>2, SameIsNoEffect

(* Nor is it seen to go on. *)
LEMMA LoopIsUnseen ==
  ASSUME call # NoCall, call' # NoCall, call'.start = call.start, UNCHANGED res
  PROVE  UNCHANGED Contract!vars
BY DEF Contract!vars, Visible

(* When remove_all ends, the name is absent. *)
LEMMA RemoveAllIsDropAll ==
  ASSUME TypeOK, BatchProgress, LoopInv, call.op = "remove_all", call.next > Len(keywords), Finish
  PROVE  Contract!Next
<1> DEFINE name == call.names[1]
           d == Canon[name]
<1>1. call # NoCall /\ call \in Call /\ keywords \in Seq(Keyword)
  BY DEF TypeOK, NoCall
<1>2. call.next \in Nat \ {0} /\ name \in Names /\ d \in Classes /\ Len(keywords) \in Nat
  BY <1>1 DEF Call, LoopInv, Classes
<1>3. Visible = call.start /\ Visible' = keywords /\ res' = "ok"
  BY <1>1 DEF Visible, Finish, Return
<1>4. \A i \in 1 .. Len(keywords): Canon[keywords[i].name] # d
  <2>1. \A i \in 1 .. Len(keywords): i \in DOMAIN keywords /\ i \in 1 .. call.next - 1
    BY <1>1, <1>2
  <2>2. Indices(keywords, name) \cap (1 .. call.next - 1) = {}
    BY DEF BatchProgress
  <2>3. QED
    BY <2>1, <2>2 DEF Indices, SameName
<1> HIDE DEF d
<1>5. Occurrences(keywords, d) = << >>
  BY <1>1, <1>4, AbsentHasNone
<1>6. \A c \in Classes: c # d => Occurrences(keywords, c) = Occurrences(call.start, c)
  BY DEF LoopInv, d
<1>7. OccOf(keywords) = [OccOf(call.start) EXCEPT ![d] = << >>]
  BY <1>2, <1>5, <1>6 DEF OccOf
<1>8. Contract!DropAll(d)
  BY <1>3, <1>7 DEF Contract!DropAll, OccOf
<1>9. QED
  BY <1>2, <1>8 DEF Contract!Next

(* When remove_many ends, its names are absent. *)
LEMMA RemoveManyIsDropBatch ==
  ASSUME TypeOK, LoopInv, call.op = "remove_many", Finish
  PROVE  Contract!Next
<1> DEFINE C == {c \in Classes: Behind(c)}
<1>1. call # NoCall
  BY DEF NoCall
<1>2. Visible = call.start /\ Visible' = keywords /\ res' = "ok"
  BY <1>1 DEF Visible, Finish, Return
<1>3. C \in SUBSET Classes
  OBVIOUS
<1>4. \A c \in Classes: Occurrences(keywords, c) = IF c \in C THEN << >> ELSE Occurrences(call.start, c)
  BY DEF LoopInv
<1>5. \A c \in C: c \in Classes /\ Len(Occurrences(call.start, c)) <= 1
  BY DEF LoopInv
<1> HIDE DEF C
<1>6. Contract!DropBatch(C)
  BY <1>2, <1>3, <1>4, <1>5 DEF Contract!DropBatch
<1>7. QED
  BY <1>3, <1>6 DEF Contract!Next

(* When set_many ends, each of its names has its one occurrence. *)
LEMMA SetManyIsAssign ==
  ASSUME TypeOK, LoopInv, call.op = "set_many", Finish
  PROVE  Contract!Next
<1> DEFINE C == {c \in Classes: Behind(c)}
<1>1. call # NoCall
  BY DEF NoCall
<1>2. Visible = call.start /\ Visible' = keywords /\ res' = "ok"
  BY <1>1 DEF Visible, Finish, Return
<1>3. C \in SUBSET Classes
  OBVIOUS
<1>4. \A c \in Classes: c \notin C => Occurrences(keywords, c) = Occurrences(call.start, c)
  BY DEF LoopInv
<1>5. \A c \in C: c \in Classes /\ Assigned(Occurrences(call.start, c), Occurrences(keywords, c))
  BY DEF LoopInv
<1> HIDE DEF C
<1>6. Contract!Assign(C)
  BY <1>2, <1>3, <1>4, <1>5 DEF Contract!Assign, Assigned
<1>7. QED
  BY <1>3, <1>6 DEF Contract!Next

(* A call that does not loop, or starts to. *)
LEMMA KeywordCallStep ==
  ASSUME TypeOK, KeywordCall
  PROVE  Contract!Next
<1>1. keywords \in Seq(Keyword)
  BY DEF TypeOK
<1>2. ASSUME NEW key \in Key
      PROVE  /\ Resolve(keywords, key).tag \in {"some", "none"} \cup Errors
             /\ Resolve(keywords, key).tag = "some" => Resolve(keywords, key).i \in 1 .. Len(keywords)
  BY <1>1, KeyShape, ResolveType, IndicesArePositions
<1>3. ASSUME Idle, UNCHANGED call PROVE Visible = keywords /\ Visible' = keywords'
  BY <1>3 DEF Idle, Visible
<1>4. ASSUME NEW key \in Key, Get(key) PROVE Contract!Next
  BY <1>2, <1>4, RefuseStep DEF Get
<1>5. ASSUME NEW key \in Key, RemoveKey(key) PROVE Contract!Next
  <2> DEFINE r == Resolve(keywords, key)
  <2>1. CASE r.tag = "some" /\ keywords' = DeleteAt(keywords, r.i) /\ Return("ok")
             /\ UNCHANGED <<properties, call>>
    <3>1. Reduced(keywords, keywords')
      BY <1>1, <1>2, <2>1, DeleteIsReduced
    <3>2. Visible = keywords /\ Visible' = keywords' /\ res' = "ok"
      BY <1>3, <1>5, <2>1 DEF RemoveKey, Return
    <3>3. QED
      BY <1>1, <3>1, <3>2, ReducedIsDrop
  <2>2. CASE r.tag # "some" /\ Refuse(r.tag)
    BY <1>2, <2>2, RefuseStep
  <2>3. QED
    BY <1>5, <2>1, <2>2 DEF RemoveKey
<1>6. ASSUME NEW key \in Key, NEW v \in Values, Set(key, v) PROVE Contract!Next
  BY <1>6, SetIsEdit, EditStep DEF Set
<1>7. ASSUME NEW key \in Key, NEW k \in Comments, SetComment(key, k) PROVE Contract!Next
  <2> DEFINE r == Resolve(keywords, key)
  <2>1. CASE r.tag = "some" /\ keywords' = [keywords EXCEPT ![r.i].comment = k] /\ Return("ok")
             /\ UNCHANGED <<properties, call>>
    <3> DEFINE kw == [keywords[r.i] EXCEPT !.comment = k]
    <3>1. r.i \in 1 .. Len(keywords) /\ keywords[r.i] \in Keyword
      BY <1>1, <1>2, <2>1, KeywordsShape
    <3>2. kw \in Keyword /\ kw.name = keywords[r.i].name
      BY <3>1 DEF Keyword
    <3>3. Rewritten(keywords, [keywords EXCEPT ![r.i] = kw])
      BY <1>1, <3>1, <3>2, UpdateIsRewritten
    <3>4. Rewritten(keywords, keywords')
      BY <2>1, <3>3
    <3>5. Visible = keywords /\ Visible' = keywords' /\ res' = "ok"
      BY <1>3, <1>7, <2>1 DEF SetComment, Return
    <3>6. QED
      BY <1>1, <3>4, <3>5, RewrittenIsRewrite
  <2>2. CASE r.tag # "some" /\ Refuse(r.tag)
    BY <1>2, <2>2, RefuseStep
  <2>3. QED
    BY <1>7, <2>1, <2>2 DEF SetComment
<1>8. ASSUME NEW key \in Key, NEW v \in Values, NEW k \in Comments, SetWithComment(key, v, k)
      PROVE  Contract!Next
  BY <1>8, SetWithCommentIsEdit, EditStep DEF SetWithComment
<1>9. ASSUME NEW name \in Names, RemoveAllBegin(name) PROVE Contract!Next
  BY <1>9, BeginIsUnseen DEF RemoveAllBegin
<1>10. ASSUME NEW name \in Names, NEW v \in Values, AppendKey(name, v) PROVE Contract!Next
  <2>1. CASE keywords' = Pushed(keywords, name, v) /\ Return("ok") /\ UNCHANGED <<properties, call>>
    <3>1. Extended(keywords, keywords')
      BY <1>1, <2>1, PushIsExtended
    <3>2. Visible = keywords /\ Visible' = keywords' /\ res' = "ok"
      BY <1>3, <1>10, <2>1 DEF AppendKey, Return
    <3>3. QED
      BY <1>1, <3>1, <3>2, ExtendedIsAddLast
  <2>2. CASE Refuse("InvalidName")
    BY <2>2, RefuseStep DEF Errors
  <2>3. QED
    BY <1>10, <2>1, <2>2 DEF AppendKey
<1>11. ASSUME NEW b \in SetBatches, SetManyBegin(b.names, b.values) PROVE Contract!Next
  <2> DEFINE bad == {i \in DOMAIN b.names: SetManyError(b.names, i) # "ok"}
  <2>1. CASE Begin("set_many", b.names, b.values, 1)
    BY <1>11, <2>1, BeginIsUnseen DEF SetManyBegin
  <2>2. CASE bad # {} /\ Refuse(SetManyError(b.names, FirstOf(bad)))
    <3>1. \A i: SetManyError(b.names, i) \in {"ok", "none"} \cup Errors
      BY DEF SetManyError, Errors
    <3>2. QED
      BY <2>2, <3>1, RefuseStep
  <2>3. QED
    BY <1>11, <2>1, <2>2 DEF SetManyBegin
<1>12. ASSUME NEW b \in RemoveBatches, RemoveManyBegin(b) PROVE Contract!Next
  <2> DEFINE bad == {i \in DOMAIN b: RemoveManyError(b, i) # "ok"}
  <2>1. CASE Begin("remove_many", b, << >>, 1)
    BY <1>12, <2>1, BeginIsUnseen DEF RemoveManyBegin
  <2>2. CASE bad # {} /\ Refuse(RemoveManyError(b, FirstOf(bad)))
    <3>1. \A i: RemoveManyError(b, i) \in {"ok", "none"} \cup Errors
      BY DEF RemoveManyError, Errors
    <3>2. QED
      BY <2>2, <3>1, RefuseStep
  <2>3. QED
    BY <1>12, <2>1, <2>2 DEF RemoveManyBegin
<1>13. QED
  BY <1>4, <1>5, <1>6, <1>7, <1>8, <1>9, <1>10, <1>11, <1>12 DEF KeywordCall

(* A loop is seen when it ends. *)
LEMMA LoopStepStep ==
  ASSUME IInv, LoopInv, LoopStep
  PROVE  [Contract!Next]_Contract!vars
<1>1. TypeOK /\ BatchProgress /\ call \in Call
  BY DEF IInv, TypeOK
<1>2. call # NoCall
  BY DEF LoopStep, RemoveAllStep, SetManyStep, RemoveManyStep, NoCall
<1>3. ASSUME call' \in {call, [call EXCEPT !.next = @ + 1], [call EXCEPT !.next = @ + 1, !.count = @ + 1]},
             UNCHANGED res
      PROVE  UNCHANGED Contract!vars
  <2>1. /\ call' \in Call /\ call'.op = call.op /\ call'.start = call.start
    BY <1>1, <1>2, <1>3, CallAdvances
  <2>2. call.op # "idle"
    BY <1>1, <1>2 DEF Call
  <2>3. call' # NoCall
    BY <2>1, <2>2 DEF NoCall
  <2>4. QED
    BY <1>2, <1>3, <2>1, <2>3, LoopIsUnseen
<1>4. CASE RemoveAllStep
  BY <1>1, <1>3, <1>4, RemoveAllIsDropAll DEF RemoveAllStep
<1>5. CASE SetManyStep
  BY <1>1, <1>3, <1>5, SetManyIsAssign DEF SetManyStep
<1>6. CASE RemoveManyStep
  BY <1>1, <1>3, <1>6, RemoveManyIsDropBatch DEF RemoveManyStep
<1>7. QED
  BY <1>4, <1>5, <1>6 DEF LoopStep

(* Calls on properties are not the contract's. *)
LEMMA PropertyCallStep ==
  ASSUME PropertyCall
  PROVE  Contract!Next
<1>1. UNCHANGED <<keywords, call>> /\ res' \in {"ok", "none"} \cup Errors
  BY DEF PropertyCall, RemoveProperty, SetProperty, SetPropertyWithType, Refuse, Return, Errors
<1>2. QED
  BY <1>1, QuietStep

(* A header, however it was made, is a map from names to occurrences. *)
LEMMA InitIsContractInit == Init => Contract!Init
<1> SUFFICES ASSUME Init PROVE Contract!Init
  OBVIOUS
<1>1. keywords \in Seq(Keyword) /\ call = NoCall /\ res = "ok"
  BY DEF Init
<1>2. Visible = keywords
  BY <1>1 DEF Visible
<1>3. \A c \in Classes: Occurrences(keywords, c) \in Seq(Occurrence)
  BY <1>1, OccurrencesType
<1>4. [c \in Classes |-> Occurrences(keywords, c)] \in [Classes -> Seq(Occurrence)]
  BY <1>3
<1>5. Occurrence = Contract!Occurrence
  BY DEF Occurrence, Contract!Occurrence
<1>6. QED
  BY <1>1, <1>2, <1>4, <1>5 DEF Contract!Init

(* For headers of every length and batches of every size, with names       *)
(* repeated and spelled in any mix of letter cases: each call of the API   *)
(* changes the occurrences of the names it was given and no others, all at *)
(* once as far as its caller can see, or nothing.                          *)
THEOREM Refinement == Spec => Implements
<1>1. Spec => []IInv
  BY TypeCorrect, BatchesProgress, PTL DEF IInv
<1>2. Spec => []LoopInv
  BY <1>1, InitLoopInv, LoopInvStep, PTL DEF Spec
<1>3. IInv /\ LoopInv /\ [Next]_vars => [Contract!Next]_Contract!vars
  <2> SUFFICES ASSUME IInv, LoopInv, [Next]_vars PROVE [Contract!Next]_Contract!vars
    OBVIOUS
  <2>1. CASE UNCHANGED vars
    BY <2>1 DEF vars, Contract!vars, Visible
  <2>2. CASE Next
    BY <2>2, KeywordCallStep, LoopStepStep, PropertyCallStep DEF Next, IInv
  <2>3. QED
    BY <2>1, <2>2
<1>4. QED
  BY <1>1, <1>2, <1>3, InitIsContractInit, PTL DEF Spec, Implements, Contract!Spec
===============================================================================
