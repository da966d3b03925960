------------------------------- MODULE HeaderApi -------------------------------
(***************************************************************************)
(* The editing API of `Header` (src/src/header.rs): an ordered vector of   *)
(* keywords, names possibly repeated, and a map of properties.             *)
(*                                                                         *)
(* Every public call is an action.  The calls that loop over the vector or *)
(* over a batch (remove_all, set_many, remove_many) are modelled one       *)
(* iteration per step: `call` holds the loop's locals.  Nobody sees the    *)
(* header between those steps (the caller lends it with &mut self), which  *)
(* is what the refinement of HeaderContract states.                        *)
(***************************************************************************)
EXTENDS Integers, Sequences, FiniteSets

CONSTANTS
  Names,           \* spellings of keyword names
  Canon,           \* each spelling's case-insensitive identity
  LegalNames,      \* the spellings validate_name accepts
  Values,          \* keyword values (text and Str/Literal kind)
  Comments,        \* keyword comments
  NoComment,       \* the empty comment
  Nths,            \* occurrence numbers callers pass with a name
  SetBatches,      \* argument lists of set_many
  RemoveBatches,   \* argument lists of remove_many
  PropIds,         \* property ids
  LegalIds,        \* the ids validate_property_id accepts
  PropTexts,       \* property values
  NoText,          \* the empty property value
  PropTypes,       \* property types
  DefaultType,     \* "String" (Property::default)
  Extras,          \* comment and format of a property
  DefaultExtra,    \* both empty (Property::default)
  MaxEntries       \* bound on the keywords and properties of a header

ASSUME ApiAssumption ==
  /\ Canon \in [Names -> Names]
  /\ LegalNames \subseteq Names /\ LegalIds \subseteq PropIds
  /\ NoComment \in Comments /\ NoText \in PropTexts
  /\ DefaultType \in PropTypes /\ DefaultExtra \in Extras
  /\ Nths \subseteq Nat /\ MaxEntries \in Nat
  /\ \A b \in SetBatches: /\ b.names \in Seq(Names)
                          /\ b.values \in Seq(Values)
                          /\ Len(b.values) = Len(b.names)
  /\ RemoveBatches \subseteq Seq(Names)

VARIABLES
  keywords,    \* Header::keywords
  properties,  \* Header::properties
  call,        \* the loop in progress and its locals
  res          \* what the last call returned

vars == <<keywords, properties, call, res>>

Keyword == [name: Names, value: Values, comment: Comments]
Property == [value: PropTexts, type: PropTypes, extra: Extras]
Bare(name) == [name |-> name, bare |-> TRUE, n |-> 0]
Key == {Bare(name): name \in Names} \cup [name: Names, bare: {FALSE}, n: Nths]
Errors == {"Ambiguous", "IndexOutOfRange", "InvalidName"}

NoCall == [op |-> "idle", names |-> << >>, values |-> << >>, next |-> 1,
           count |-> 0, start |-> << >>]

-------------------------------------------------------------------------------
(* Lookup *)

(* eq_ignore_ascii_case *)
SameName(n, m) == Canon[n] = Canon[m]

Indices(kws, name) == {i \in DOMAIN kws: SameName(kws[i].name, name)}

(* count > 1 *)
Repeated(kws, name) == \E i, j \in Indices(kws, name): i # j

FirstOf(S) == CHOOSE i \in S: \A j \in S: i <= j

(* The element of S preceded by n others, if there is one. *)
NthOf(S, n) == {i \in S: Cardinality({j \in S: j < i}) = n}

Found(i) == [tag |-> "some", i |-> i]
Missing(tag) == [tag |-> tag, i |-> 0]

(* Slip: a bare name takes its first match. *)
SlipResolve(kws, key) ==
  LET hits == Indices(kws, key.name)
  IN  IF hits = {} THEN Missing("none") ELSE Found(FirstOf(hits))

Resolve(kws, key) ==
  LET hits == Indices(kws, key.name)
      nth == NthOf(hits, key.n)
  IN  CASE hits = {} -> Missing("none")
        [] hits # {} /\ key.bare ->
             IF Repeated(kws, key.name) THEN Missing("Ambiguous") ELSE Found(FirstOf(hits))
        [] hits # {} /\ ~key.bare ->
             IF nth = {} THEN Missing("IndexOutOfRange") ELSE Found(FirstOf(nth))

-------------------------------------------------------------------------------
(* Edits of the vector *)

(* What MaxEntries bounds. *)
Entries(kws, props) == Len(kws) + Cardinality(DOMAIN props)

(* Slip: Vec::swap_remove. *)
SlipDeleteAt(kws, i) ==
  [j \in 1 .. Len(kws) - 1 |-> IF j = i THEN kws[Len(kws)] ELSE kws[j]]

(* Vec::remove *)
DeleteAt(kws, i) ==
  [j \in 1 .. Len(kws) - 1 |-> IF j < i THEN kws[j] ELSE kws[j + 1]]

(* Vec::push of a keyword with no comment *)
Pushed(kws, name, value) ==
  Append(kws, [name |-> name, value |-> value, comment |-> NoComment])

Done(kws) == [tag |-> "ok", kws |-> kws]
Failed(tag) == [tag |-> tag, kws |-> keywords]

Return(tag) == res' = tag

Idle == call = NoCall

(* A call that returns an error or finds nothing to change. *)
Refuse(tag) == Return(tag) /\ UNCHANGED <<keywords, properties, call>>

-------------------------------------------------------------------------------
(* Calls on one keyword *)

(* get, get_raw, get_str, ...: strict lookup, no effect. *)
Get(key) ==
  LET r == Resolve(keywords, key) IN
  /\ Idle
  /\ Refuse(IF r.tag = "some" THEN "ok" ELSE r.tag)

(* What set leaves and returns: the found slot in place, or a push of a    *)
(* validated bare name, or an error.                                       *)
SetResult(key, value) ==
  LET r == Resolve(keywords, key)
      absent == r.tag = "none"
  IN  CASE r.tag = "some"     -> Done([keywords EXCEPT ![r.i].value = value])
        [] r.tag \in Errors   -> Failed(r.tag)
        [] absent /\ ~key.bare -> Failed("IndexOutOfRange")
        [] absent /\ key.bare  -> IF key.name \in LegalNames
                                 THEN Done(Pushed(keywords, key.name, value))
                                 ELSE Failed("InvalidName")

(* Slip: the comment goes to the slot resolved before the value was set. *)
SlipSetWithCommentResult(key, value, comment) ==
  LET s == SetResult(key, value)
      r == Resolve(keywords, key)
  IN  IF s.tag = "ok" /\ r.tag = "some"
      THEN Done([s.kws EXCEPT ![r.i].comment = comment]) ELSE s

(* set, then a second resolve of the same key, for the comment: were that *)
(* to fail, the value would already be in place.                           *)
SetWithCommentResult(key, value, comment) ==
  LET s == SetResult(key, value)
      r == Resolve(s.kws, key)
  IN  IF s.tag # "ok" THEN s
      ELSE CASE r.tag = "some"   -> Done([s.kws EXCEPT ![r.i].comment = comment])
             [] r.tag = "none"   -> s
             [] r.tag \in Errors -> [tag |-> r.tag, kws |-> s.kws]

(* The call returns what one of the two operators above computes. *)
Apply(s) ==
  /\ Idle
  /\ Entries(s.kws, properties) <= MaxEntries
  /\ keywords' = s.kws
  /\ Return(s.tag)
  /\ UNCHANGED <<properties, call>>

Set(key, value) == Apply(SetResult(key, value))

SetWithComment(key, value, comment) == Apply(SetWithCommentResult(key, value, comment))

SetComment(key, comment) ==
  LET r == Resolve(keywords, key) IN
  /\ Idle
  /\ \/ /\ r.tag = "some"
        /\ keywords' = [keywords EXCEPT ![r.i].comment = comment]
        /\ Return("ok")
        /\ UNCHANGED <<properties, call>>
     \/ r.tag # "some" /\ Refuse(r.tag)

AppendKey(name, value) ==
  /\ Idle
  /\ \/ /\ name \in LegalNames /\ Entries(keywords, properties) < MaxEntries
        /\ keywords' = Pushed(keywords, name, value)
        /\ Return("ok")
        /\ UNCHANGED <<properties, call>>
     \/ name \notin LegalNames /\ Refuse("InvalidName")

RemoveKey(key) ==
  LET r == Resolve(keywords, key) IN
  /\ Idle
  /\ \/ /\ r.tag = "some"
        /\ keywords' = DeleteAt(keywords, r.i)
        /\ Return("ok")
        /\ UNCHANGED <<properties, call>>
     \/ r.tag # "some" /\ Refuse(r.tag)

-------------------------------------------------------------------------------
(* Calls that loop *)

(* Slip: the cursor starts one entry too early. *)
SlipBegin(op, names, values, next) ==
  /\ call' = [op |-> op, names |-> names, values |-> values, next |-> next - 1,
              count |-> 0, start |-> keywords]
  /\ Return("ok")
  /\ UNCHANGED <<keywords, properties>>

Begin(op, names, values, next) ==
  /\ call' = [op |-> op, names |-> names, values |-> values, next |-> next,
              count |-> 0, start |-> keywords]
  /\ Return("ok")
  /\ UNCHANGED <<keywords, properties>>

Finish == call' = NoCall /\ Return("ok") /\ UNCHANGED <<keywords, properties>>

(* remove_all: Vec::retain visits the vector once, `next` is its cursor. *)
RemoveAllBegin(name) == Idle /\ Begin("remove_all", <<name>>, << >>, 1)

(* Slip: the cursor also moves past a deleted slot, skipping the next one. *)
SlipRemoveAllStep ==
  /\ call.op = "remove_all"
  /\ \/ call.next > Len(keywords) /\ Finish
     \/ /\ call.next \in DOMAIN keywords
        /\ keywords' = IF call.next \in Indices(keywords, call.names[1])
                       THEN DeleteAt(keywords, call.next) ELSE keywords
        /\ call' = [call EXCEPT !.next = @ + 1]
        /\ UNCHANGED <<properties, res>>

RemoveAllStep ==
  /\ call.op = "remove_all"
  /\ \/ /\ call.next > Len(keywords)
        /\ Finish
     \/ /\ call.next \in Indices(keywords, call.names[1])
        /\ keywords' = DeleteAt(keywords, call.next)
        /\ UNCHANGED <<properties, call, res>>
     \/ /\ call.next \in DOMAIN keywords \ Indices(keywords, call.names[1])
        /\ call' = [call EXCEPT !.next = @ + 1]
        /\ UNCHANGED <<keywords, properties, res>>

(* Slip: only the names are validated, not that they are unambiguous. *)
SlipSetManyError(names, i) == IF names[i] \notin LegalNames THEN "InvalidName" ELSE "ok"

(* The error of the validation pass at the i-th entry of a batch, if any. *)
SetManyError(names, i) ==
  IF names[i] \notin LegalNames THEN "InvalidName"
  ELSE IF Repeated(keywords, names[i]) THEN "Ambiguous" ELSE "ok"

RemoveManyError(names, i) ==
  IF Repeated(keywords, names[i]) THEN "Ambiguous" ELSE "ok"

(* The first bad entry ends the call, before anything is changed. *)
SetManyBegin(names, values) ==
  LET bad == {i \in DOMAIN names: SetManyError(names, i) # "ok"}
      new == {i \in DOMAIN names: Indices(keywords, names[i]) = {}}
  IN
  /\ Idle
  /\ \/ /\ bad = {} /\ Entries(keywords, properties) + Cardinality(new) <= MaxEntries
        /\ Begin("set_many", names, values, 1)
     \/ bad # {} /\ Refuse(SetManyError(names, FirstOf(bad)))

SetManyStep ==
  LET hits == Indices(keywords, call.names[call.next]) IN
  /\ call.op = "set_many"
  /\ \/ /\ call.next > Len(call.names)
        /\ Finish
     \/ /\ call.next \in DOMAIN call.names
        /\ \/ /\ hits # {}
              /\ keywords' = [keywords EXCEPT ![FirstOf(hits)].value = call.values[call.next]]
           \/ /\ hits = {}
              /\ keywords' = Pushed(keywords, call.names[call.next], call.values[call.next])
        /\ call' = [call EXCEPT !.next = @ + 1]
        /\ UNCHANGED <<properties, res>>

RemoveManyBegin(names) ==
  LET bad == {i \in DOMAIN names: RemoveManyError(names, i) # "ok"} IN
  /\ Idle
  /\ \/ bad = {} /\ Begin("remove_many", names, << >>, 1)
     \/ bad # {} /\ Refuse(RemoveManyError(names, FirstOf(bad)))

RemoveManyStep ==
  LET hits == Indices(keywords, call.names[call.next]) IN
  /\ call.op = "remove_many"
  /\ \/ /\ call.next > Len(call.names)
        /\ Finish
     \/ /\ call.next \in DOMAIN call.names
        /\ \/ /\ hits # {}
              /\ keywords' = DeleteAt(keywords, FirstOf(hits))
              /\ call' = [call EXCEPT !.next = @ + 1, !.count = @ + 1]
           \/ /\ hits = {}
              /\ call' = [call EXCEPT !.next = @ + 1]
              /\ UNCHANGED keywords
        /\ UNCHANGED <<properties, res>>

-------------------------------------------------------------------------------
(* Properties *)

DefaultProperty == [value |-> NoText, type |-> DefaultType, extra |-> DefaultExtra]

(* Slip: the property is inserted anew. *)
SlipEntryOrDefault(id) == DefaultProperty

(* BTreeMap::entry(id).or_default() *)
EntryOrDefault(id) == IF id \in DOMAIN properties THEN properties[id] ELSE DefaultProperty

PutProperty(id, p) ==
  /\ id \in DOMAIN properties \/ Entries(keywords, properties) < MaxEntries
  /\ properties' = [i \in DOMAIN properties \cup {id} |-> IF i = id THEN p ELSE properties[i]]

SetProperty(id, text) ==
  /\ Idle
  /\ \/ /\ id \in LegalIds
        /\ PutProperty(id, [EntryOrDefault(id) EXCEPT !.value = text])
        /\ Return("ok")
        /\ UNCHANGED <<keywords, call>>
     \/ id \notin LegalIds /\ Refuse("InvalidName")

SetPropertyWithType(id, text, type) ==
  /\ Idle
  /\ \/ /\ id \in LegalIds
        /\ PutProperty(id, [EntryOrDefault(id) EXCEPT !.value = text, !.type = type])
        /\ Return("ok")
        /\ UNCHANGED <<keywords, call>>
     \/ id \notin LegalIds /\ Refuse("InvalidName")

RemoveProperty(id) ==
  /\ Idle
  /\ \/ /\ id \in DOMAIN properties
        /\ properties' = [i \in DOMAIN properties \ {id} |-> properties[i]]
        /\ Return("ok")
        /\ UNCHANGED <<keywords, call>>
     \/ id \notin DOMAIN properties /\ Refuse("none")

-------------------------------------------------------------------------------
(* A header as the parser or Header::new leaves it: any keywords, legal    *)
(* names or not, repeated or not, and any properties.                      *)
Init ==
  /\ \E n \in 0 .. MaxEntries, ids \in SUBSET PropIds:
       /\ n + Cardinality(ids) <= MaxEntries
       /\ keywords \in [1 .. n -> Keyword] /\ properties \in [ids -> Property]
  /\ call = NoCall
  /\ res = "ok"

KeywordCall ==
  \/ \E key \in Key: \/ Get(key) \/ RemoveKey(key)
                     \/ \E v \in Values: Set(key, v)
                     \/ \E k \in Comments: SetComment(key, k)
                     \/ \E v \in Values, k \in Comments: SetWithComment(key, v, k)
  \/ \E n \in Names: \/ RemoveAllBegin(n)
                     \/ \E v \in Values: AppendKey(n, v)
  \/ \E b \in SetBatches: SetManyBegin(b.names, b.values)
  \/ \E b \in RemoveBatches: RemoveManyBegin(b)

LoopStep == RemoveAllStep \/ SetManyStep \/ RemoveManyStep

PropertyCall ==
  \E id \in PropIds:
     \/ RemoveProperty(id)
     \/ \E t \in PropTexts: \/ SetProperty(id, t)
                            \/ \E y \in PropTypes: SetPropertyWithType(id, t, y)

Next == KeywordCall \/ LoopStep \/ PropertyCall

Spec == Init /\ [][Next]_vars

-------------------------------------------------------------------------------
(* What is checked *)

Call == {NoCall} \cup
  [op: {"remove_all", "set_many", "remove_many"}, names: Seq(Names),
   values: Seq(Values), next: Nat \ {0}, count: Nat, start: Seq(Keyword)]

(* The header holds keywords and properties of the declared shape, the     *)
(* loop in progress has its arguments, and a result is one of the API's.   *)
TypeOK ==
  /\ keywords \in Seq(Keyword)
  /\ DOMAIN properties \subseteq PropIds
  /\ properties \in [DOMAIN properties -> Property]
  /\ call \in Call
  /\ call.op = "set_many" => Len(call.values) = Len(call.names)
  /\ res \in {"ok", "none"} \cup Errors

InPlace(old, new) ==
  /\ DOMAIN new = DOMAIN old
  /\ \E i \in DOMAIN old: /\ new[i].name = old[i].name
                         /\ \A j \in DOMAIN old \ {i}: new[j] = old[j]

OneGone(old, new) ==
  /\ Len(new) = Len(old) - 1
  /\ \E i \in DOMAIN old: /\ \A j \in 1 .. i - 1: new[j] = old[j]
                         /\ \A j \in i .. Len(old) - 1: new[j] = old[j + 1]

OneAtTail(old, new) ==
  /\ Len(new) = Len(old) + 1
  /\ \A j \in DOMAIN old: new[j] = old[j]
  /\ new[Len(new)].name \in LegalNames

(* "edits only update an existing slot in place, delete a slot, or push    *)
(* new slots to the tail -- never reorder or insert mid-vector"            *)
(* (splice.rs, match_keywords), whatever call makes the step, and only     *)
(* legal names are ever pushed.                                            *)
SlotDiscipline ==
  [][\/ InPlace(keywords, keywords')
     \/ OneGone(keywords, keywords')
     \/ OneAtTail(keywords, keywords')]_keywords

(* The loops: what set_many, remove_many and remove_all have established   *)
(* for the entries behind their cursor, whatever duplicates and spellings  *)
(* the batch mixes, and that an entry ahead of it is still legal and       *)
(* cannot have become ambiguous since the validation pass.                 *)
BatchProgress ==
  LET done == 1 .. call.next - 1
      Last(i) == \A j \in done: j > i => ~SameName(call.names[i], call.names[j])
  IN
  /\ call.op = "set_many" => \A i \in DOMAIN call.names: call.names[i] \in LegalNames
  /\ call.op \in {"set_many", "remove_many"} =>
       \A i \in DOMAIN call.names: ~Repeated(keywords, call.names[i])
  /\ call.op = "set_many" =>
       \A i \in done: \E k \in Indices(keywords, call.names[i]):
          Last(i) => keywords[k].value = call.values[i]
  /\ call.op = "remove_many" =>
       /\ \A i \in done: Indices(keywords, call.names[i]) = {}
       /\ call.count = Len(call.start) - Len(keywords)
  /\ call.op = "remove_all" => Indices(keywords, call.names[1]) \cap done = {}

BareCall(name) ==
  \/ Get(Bare(name)) \/ RemoveKey(Bare(name))
  \/ \E v \in Values: Set(Bare(name), v)
  \/ \E k \in Comments: SetComment(Bare(name), k)
  \/ \E v \in Values, k \in Comments: SetWithComment(Bare(name), v, k)
  \/ \E b \in SetBatches: name \in {b.names[i]: i \in DOMAIN b.names}
                           /\ SetManyBegin(b.names, b.values)
  \/ \E b \in RemoveBatches: name \in {b[i]: i \in DOMAIN b} /\ RemoveManyBegin(b)

(* A bare name that matches several keywords, in any mix of letter cases,  *)
(* never reads, writes or deletes one of them: the call fails and starts   *)
(* no batch.                                                               *)
StrictNames ==
  [][\A name \in Names:
       Repeated(keywords, name) /\ BareCall(name) =>
         res' \in Errors /\ UNCHANGED <<keywords, call>>]_vars

(* A set_with_comment that returns Ok can be read back through the same   *)
(* key: the key resolves, to a keyword holding both the value and the      *)
(* comment.  One that returns an error has changed nothing, although it    *)
(* writes the value before it resolves the key again.                      *)
ReadBack ==
  \A key \in Key, v \in Values, k \in Comments:
    LET s == SetWithCommentResult(key, v, k)
        r == Resolve(s.kws, key)
    IN  IF s.tag = "ok"
        THEN r.tag = "some" /\ s.kws[r.i].value = v /\ s.kws[r.i].comment = k
        ELSE s.kws = keywords

EditsOneProperty ==
  \E id \in PropIds:
    /\ \A i \in PropIds \ {id}:
         /\ i \in DOMAIN properties <=> i \in DOMAIN properties'
         /\ i \in DOMAIN properties => properties'[i] = properties[i]
    /\ id \in DOMAIN properties \cap DOMAIN properties' =>
         /\ properties'[id].extra = properties[id].extra
         /\ \/ properties'[id].type = properties[id].type
            \/ \E t \in PropTexts, y \in PropTypes: SetPropertyWithType(id, t, y)

(* An edit of a property leaves every other property alone and keeps the   *)
(* edited one's comment and format; its type changes only when the call    *)
(* gives one.                                                              *)
PropertyFrame == [][EditsOneProperty]_properties

-------------------------------------------------------------------------------
(* HeaderContract *)

Classes == {Canon[n]: n \in Names}
Entry(kw) == [value |-> kw.value, comment |-> kw.comment]

(* The keywords of one name, up to letter case, in document order. *)
Occurrences(kws, c) ==
  LET upto[i \in 0 .. Len(kws)] ==
        IF i = 0 THEN << >>
        ELSE IF Canon[kws[i].name] = c THEN Append(upto[i - 1], Entry(kws[i])) ELSE upto[i - 1]
  IN  upto[Len(kws)]

(* During a loop the caller still has the header it lent. *)
Visible == IF call = NoCall THEN keywords ELSE call.start

Contract == INSTANCE HeaderContract WITH
  Refusals <- Errors,
  occ <- [c \in Classes |-> Occurrences(Visible, c)],
  outcome <- res

(* Every call, loops included, is one of the contract's indivisible steps. *)
Implements == Contract!Spec
===============================================================================
