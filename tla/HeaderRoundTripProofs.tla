------------------------- MODULE HeaderRoundTripProofs -------------------------
(***************************************************************************)
(* Theorems about HeaderRoundTrip: the reader's indices on headers of any  *)
(* length and content, the round trip of any header through the writer,    *)
(* the event loop, and the writer and the event loop again, and the Rust   *)
(* values that its keywords are set to and read as.                        *)
(***************************************************************************)
EXTENDS HeaderRoundTrip, ElementTextProofs, SequenceTheorems, WellFoundedInduction

-------------------------------------------------------------------------------
(* Sequences *)

(* What Append leaves, element by element. *)
LEMMA Appended ==
  ASSUME NEW S, NEW s \in Seq(S), NEW e
  PROVE  /\ Append(s, e) \in Seq(S \cup {e})
         /\ e \in S => Append(s, e) \in Seq(S)
         /\ Len(s) \in Nat /\ DOMAIN s = 1 .. Len(s)
         /\ Len(Append(s, e)) = Len(s) + 1 /\ DOMAIN Append(s, e) = 1 .. Len(s) + 1
         /\ \A i \in 1 .. Len(s): Append(s, e)[i] = s[i]
         /\ Append(s, e)[Len(s) + 1] = e
<1>1. s \in Seq(S \cup {e})
  OBVIOUS
<1>2. QED
  BY <1>1

IsSequence(s) == \E S: s \in Seq(S)

(* The provers do not look into the name. *)
Joint(s, t) == s \o t

(* What joining two sequences leaves, element by element. *)
LEMMA Joined ==
  ASSUME NEW s, NEW t, NEW u, IsSequence(s), IsSequence(t), u = Joint(s, t)
  PROVE  /\ IsSequence(u) /\ Len(u) = Len(s) + Len(t)
         /\ \A i \in 1 .. Len(s): u[i] = s[i]
         /\ \A i \in 1 .. Len(t): u[Len(s) + i] = t[i]
<1> DEFINE m == Len(s)
           n == Len(t)
<1>1. PICK S: s \in Seq(S)
  BY DEF IsSequence
<1>2. PICK T: t \in Seq(T)
  BY DEF IsSequence
<1>3. s \in Seq(S \cup T) /\ t \in Seq(S \cup T)
  BY <1>1, <1>2
<1>4. /\ u \in Seq(S \cup T) /\ Len(u) = m + n /\ m \in Nat /\ n \in Nat
      /\ \A i \in 1 .. m + n: u[i] = IF i <= m THEN s[i] ELSE t[i - m]
  BY <1>3, ConcatProperties DEF Joint
<1>5. IsSequence(u)
  BY <1>4, Zenon DEF IsSequence
<1> HIDE DEF m, n
<1>6. \A i \in 1 .. m: i \in 1 .. m + n /\ i <= m
  BY <1>4
<1>7. \A i \in 1 .. n: m + i \in 1 .. m + n /\ ~(m + i <= m) /\ (m + i) - m = i
  BY <1>4
<1>8. (\A i \in 1 .. m: u[i] = s[i]) /\ \A i \in 1 .. n: u[m + i] = t[i]
  BY <1>4, <1>6, <1>7
<1>9. QED
  BY <1>4, <1>5, <1>8 DEF m, n

(* A function on 1 .. n is a sequence of length n. *)
LEMMA Listed ==
  ASSUME NEW S, NEW n \in Nat, NEW f \in [1 .. n -> S]
  PROVE  IsSequence(f) /\ Len(f) = n
<1>1. f \in Seq(S) /\ Len(f) = n
  BY SeqDef
<1>2. QED
  BY <1>1, Zenon DEF IsSequence

(* Appending adds one element. *)
LEMMA RangeOfAppended ==
  ASSUME NEW S, NEW s \in Seq(S), NEW e
  PROVE  Range(Append(s, e)) = Range(s) \cup {e}
BY Appended DEF Range

-------------------------------------------------------------------------------
(* What one event does *)

NamedKeyword(e) == Tagged(e, "FITSKeyword") /\ IsNamed(e.attrs)

(* Whatever the event, either the parse fails or the event is counted, and *)
(* only a named keyword adds to the keywords, only an image changes the    *)
(* geometry.                                                               *)
LEMMA EventEffect ==
  ASSUME NEW e, ReadEvent(e)
  PROVE  /\ phase = "reading"
         /\ \/ phase' = "error" /\ UNCHANGED readerVars
            \/ /\ phase' = "reading" /\ events' = Append(events, e)
               /\ \/ /\ NamedKeyword(e)
                     /\ keywords' = Append(keywords, ParseKeyword(e.attrs))
                     /\ keywordSpans' = Append(keywordSpans, Len(events) + 1)
                  \/ ~NamedKeyword(e) /\ UNCHANGED <<keywords, keywordSpans>>
               /\ geometry' = IF ~Tagged(e, "Image") THEN geometry
                              ELSE IF geometry = Unseen THEN GeometryAttr(e.attrs)
                              ELSE Geometry("multiple", << >>)
<1>1. CASE ReadImage(e)
  BY <1>1 DEF ReadImage, Advance, ObserveImage, Tagged, NamedKeyword
<1>2. CASE ReadKeyword(e)
  BY <1>2 DEF ReadKeyword, Advance, Tagged, NamedKeyword, Here
<1>3. CASE ReadEmptyProperty(e)
  BY <1>3 DEF ReadEmptyProperty, Advance, Tagged, NamedKeyword
<1>4. CASE OpenProperty(e)
  BY <1>4 DEF OpenProperty, Advance, Tagged, NamedKeyword
<1>5. CASE ReadOtherTag(e)
  BY <1>5 DEF ReadOtherTag, Advance, Tagged, NamedKeyword
<1>6. CASE ReadText(e)
  BY <1>6 DEF ReadText, Advance, Tagged, IsTag, NamedKeyword
<1>7. CASE CloseProperty(e)
  BY <1>7 DEF CloseProperty, Advance, Tagged, IsTag, NamedKeyword
<1>8. CASE CloseImage(e)
  BY <1>8 DEF CloseImage, Advance, Tagged, IsTag, NamedKeyword
<1>9. CASE SkipEvent(e)
  BY <1>9 DEF SkipEvent, Advance, Tagged, IsTag, NamedKeyword
<1>10. CASE RejectEvent(e)
  BY <1>10 DEF RejectEvent
<1>11. QED
  BY <1>1, <1>2, <1>3, <1>4, <1>5, <1>6, <1>7, <1>8, <1>9, <1>10 DEF ReadEvent

(* Properties come from their tags and end tags only; an empty one is      *)
(* entered at once.                                                        *)
LEMMA PropertyEffect ==
  ASSUME NEW e, ReadEvent(e), phase' = "reading"
  PROVE  /\ e.tag # "Property" => UNCHANGED properties
         /\ e.kind = "empty" /\ e.tag = "Property" /\ HasId(e.attrs) =>
              properties' = [id \in DOMAIN properties \cup {IdOf(e.attrs)} |->
                               IF id = IdOf(e.attrs) THEN ParseProperty(e.attrs) ELSE properties[id]]
<1>1. CASE ReadImage(e)
  BY <1>1 DEF ReadImage, Tagged
<1>2. CASE ReadKeyword(e)
  BY <1>2 DEF ReadKeyword, Tagged
<1>3. CASE ReadEmptyProperty(e)
  BY <1>3 DEF ReadEmptyProperty, Tagged, Insert
<1>4. CASE OpenProperty(e)
  BY <1>4 DEF OpenProperty, Tagged
<1>5. CASE ReadOtherTag(e)
  BY <1>5 DEF ReadOtherTag
<1>6. CASE ReadText(e)
  BY <1>6 DEF ReadText
<1>7. CASE CloseProperty(e)
  BY <1>7 DEF CloseProperty
<1>8. CASE CloseImage(e)
  BY <1>8 DEF CloseImage
<1>9. CASE SkipEvent(e)
  BY <1>9 DEF SkipEvent, IsTag
<1>10. CASE RejectEvent(e)
  BY <1>10 DEF RejectEvent
<1>11. QED
  BY <1>1, <1>2, <1>3, <1>4, <1>5, <1>6, <1>7, <1>8, <1>9, <1>10 DEF ReadEvent

-------------------------------------------------------------------------------
(* Types *)

(* The naturals are well-founded under <. *)
Below == {p \in Nat \X Nat: p[1] < p[2]}

(* No ascending chain of positions below a bound is infinite. *)
LEMMA BelowIsWellFounded == IsWellFoundedOn(Below, Nat)
<1>1. Below = OpToRel(<, Nat)
  BY Zenon DEF Below, OpToRel
<1>2. QED
  BY <1>1, NatLessThanWellFounded, Zenon

(* A set of naturals that is not empty has a first element. *)
LEMMA FirstExists ==
  ASSUME NEW T \in SUBSET Nat, T # {}
  PROVE  \E t \in T: \A u \in T: t <= u
<1>1. PICK t \in T: \A u \in T: <<u, t>> \notin Below
  BY BelowIsWellFounded, WFMin
<1>2. ASSUME NEW u \in T PROVE t <= u
  <2>1. <<u, t>> \in Nat \X Nat /\ <<u, t>> \notin Below /\ <<u, t>>[1] = u /\ <<u, t>>[2] = t
    BY <1>1
  <2>2. ~(u < t)
    BY <2>1 DEF Below
  <2>3. QED
    BY <2>2
<1>3. QED
  BY <1>2

(* The last of some positions. *)
LEMMA LastExists ==
  ASSUME NEW n \in Nat, NEW S \in SUBSET (1 .. n), S # {}
  PROVE  \E i \in S: \A j \in S: j <= i
<1> DEFINE T == {n - i: i \in S}
<1>1. T \subseteq Nat /\ T # {}
  <2>1. \A i \in S: n - i \in Nat
    OBVIOUS
  <2>2. QED
    BY <2>1
<1>2. PICK t \in T: \A y \in T: <<y, t>> \notin Below
  BY <1>1, BelowIsWellFounded, WFMin
<1>3. PICK i \in S: t = n - i
  OBVIOUS
<1>4. ASSUME NEW j \in S PROVE j <= i
  <2>1. n - j \in T /\ <<n - j, t>> \notin Below
    BY <1>2
  <2>2. n - j \in Nat /\ t \in Nat /\ ~(n - j < t)
    BY <1>1, <2>1 DEF Below
  <2>3. QED
    BY <1>3, <2>2
<1>5. QED
  BY <1>4

(* An attribute of an event is a text. *)
LEMMA AttrTextType ==
  ASSUME NEW e, IsEvent(e), NEW key, key # "geometry", NEW default \in Text
  PROVE  AttrText(e.attrs, key, default) \in Text
<1> DEFINE S == Having(e.attrs, key)
<1>1. Len(e.attrs) \in Nat /\ S \subseteq 1 .. Len(e.attrs)
  BY DEF IsEvent, Having
<1>2. CASE S = {}
  BY <1>2 DEF AttrText, Has
<1>3. CASE S # {}
  <2> DEFINE i == CHOOSE k \in S: \A j \in S: j <= k
  <2>1. i \in S
    BY <1>1, <1>3, LastExists
  <2>2. e.attrs[i].text \in Text
    BY <2>1 DEF Having, IsEvent
  <2>3. QED
    BY <1>3, <2>2, NormalizedText DEF AttrText, Has
<1>4. QED
  BY <1>2, <1>3

(* Whatever the attributes, parse_keyword makes a keyword. *)
LEMMA ParsedKeywordType ==
  ASSUME NEW e, IsEvent(e)
  PROVE  ParseKeyword(e.attrs) \in KeywordRecord
<1> DEFINE name == AttrText(e.attrs, "name", << >>)
           value == AttrText(e.attrs, "value", << >>)
           comment == AttrText(e.attrs, "comment", << >>)
<1>1. name \in Text /\ value \in Text /\ comment \in Text /\ << >> \in Text
  BY AttrTextType, EmptyText
<1>2. ClassifyValue(value) \in Value /\ Str(comment) \in Value
  <2>1. ASSUME Len(value) >= 2 PROVE SubSeq(value, 2, Len(value) - 1) \in Text
    BY <1>1, <2>1 DEF Text
  <2>2. QED
    BY <1>1, <2>1 DEF ClassifyValue, Value, Str, Literal
<1> HIDE DEF name, value, comment
<1>3. QED
  BY <1>1, <1>2 DEF ParseKeyword, KeywordRecord, name, value, comment

(* And parse_property a property with an id. *)
LEMMA ParsedPropertyType ==
  ASSUME NEW e, IsEvent(e)
  PROVE  ParseProperty(e.attrs) \in PropertyRecord /\ IdOf(e.attrs) \in Text
<1>1. << >> \in Text /\ <<String>> \in Text
  BY EmptyText, TextAssumption DEF Text
<1>2. QED
  BY <1>1, AttrTextType DEF ParseProperty, PropertyRecord, IdOf

(* Counting an event. *)
LEMMA AdvanceType ==
  ASSUME TypeOK, NEW e, IsEvent(e), Advance(e)
  PROVE  /\ events' \in Seq(Range(events'))
         /\ \A n \in DOMAIN events': IsEvent(events'[n])
         /\ Len(events) \in Nat /\ Len(events') = Len(events) + 1
         /\ DOMAIN events = 1 .. Len(events) /\ DOMAIN events' = 1 .. Len(events) + 1
         /\ stack' \in Seq(DOMAIN events')
         /\ keywordSpans \in Seq(DOMAIN events')
         /\ propertySpans \in Seq((DOMAIN events') \X (DOMAIN events'))
         /\ phase = "reading"
<1>1. events' = Append(events, e) /\ phase = "reading" /\ events \in Seq(Range(events))
  BY DEF Advance, TypeOK
<1>2. /\ events' \in Seq(Range(events) \cup {e})
      /\ Len(events) \in Nat /\ Len(events') = Len(events) + 1
      /\ DOMAIN events = 1 .. Len(events) /\ DOMAIN events' = 1 .. Len(events) + 1
      /\ \A n \in 1 .. Len(events): events'[n] = events[n]
      /\ events'[Len(events) + 1] = e
  BY <1>1, Appended
<1>3. events' \in Seq(Range(events'))
  BY <1>2, SeqOfRange
<1>4. \A n \in DOMAIN events': IsEvent(events'[n])
  <2>1. \A n \in DOMAIN events: IsEvent(events[n])
    BY DEF TypeOK
  <2>2. \A n \in DOMAIN events': n \in 1 .. Len(events) \/ n = Len(events) + 1
    BY <1>2
  <2>3. QED
    BY <1>2, <2>1, <2>2
<1>5. \A S, T, s: S \subseteq T /\ s \in Seq(S) => s \in Seq(T)
  OBVIOUS
<1>6. keywordSpans \in Seq(DOMAIN events') /\ stack \in Seq(DOMAIN events')
        /\ propertySpans \in Seq((DOMAIN events') \X (DOMAIN events'))
  <2>1. DOMAIN events \subseteq DOMAIN events'
          /\ (DOMAIN events) \X (DOMAIN events) \subseteq (DOMAIN events') \X (DOMAIN events')
    BY <1>2
  <2>2. QED
    BY <1>5, <2>1 DEF TypeOK
<1>7. stack' \in Seq(DOMAIN events')
  <2>1. CASE e.kind = "start"
    BY <1>2, <1>6, <2>1 DEF Advance, Here
  <2>2. CASE e.kind = "end"
    BY <1>6, <2>2, SubSeqProperties DEF Advance, Mismatched
  <2>3. CASE e.kind \notin {"start", "end"}
    BY <1>6, <2>3 DEF Advance
  <2>4. QED
    BY <2>1, <2>2, <2>3
<1>8. QED
  BY <1>1, <1>2, <1>3, <1>4, <1>6, <1>7

(* Inserting a property. *)
LEMMA InsertType ==
  ASSUME TypeOK, NEW id \in Text, NEW p \in PropertyRecord,
         NEW first \in 1 .. Len(events) + 1, NEW e, IsEvent(e), Advance(e), Insert(id, p, first, Here)
  PROVE  /\ DOMAIN properties' \subseteq Text
         /\ properties' \in [DOMAIN properties' -> PropertyRecord]
         /\ propertySpans' \in Seq((DOMAIN events') \X (DOMAIN events'))
<1>1. DOMAIN properties \subseteq Text /\ properties \in [DOMAIN properties -> PropertyRecord]
  BY DEF TypeOK
<1>2. DOMAIN properties' = DOMAIN properties \cup {id}
        /\ \A i \in DOMAIN properties': properties'[i] = IF i = id THEN p ELSE properties[i]
  BY DEF Insert
<1>3. \A i \in DOMAIN properties': properties'[i] \in PropertyRecord
  BY <1>1, <1>2
<1>4. properties' = [i \in DOMAIN properties' |-> properties'[i]]
  BY DEF Insert
<1>5. <<first, Here>> \in (DOMAIN events') \X (DOMAIN events')
  BY AdvanceType DEF Here
<1>6. propertySpans' \in Seq((DOMAIN events') \X (DOMAIN events'))
  BY <1>5, AdvanceType, AppendProperties DEF Insert
<1>7. QED
  BY <1>1, <1>2, <1>3, <1>4, <1>6

(* Everything that an event leaves alone keeps its type. *)
LEMMA KeptTypes ==
  ASSUME TypeOK, NEW e, IsEvent(e), Advance(e), UNCHANGED <<phase, cycles>>
  PROVE  /\ phase' = "reading" /\ cycles' \in 0 .. MaxCycles
         /\ UNCHANGED keywords => keywords' \in Seq(KeywordRecord)
         /\ UNCHANGED keywordSpans => keywordSpans' \in Seq(DOMAIN events')
         /\ UNCHANGED properties => /\ DOMAIN properties' \subseteq Text
                                   /\ properties' \in [DOMAIN properties' -> PropertyRecord]
         /\ UNCHANGED propertySpans => propertySpans' \in Seq((DOMAIN events') \X (DOMAIN events'))
         /\ UNCHANGED open => open' \in OpenProperties /\ (open'.isOpen => open'.first \in DOMAIN events')
         /\ UNCHANGED images => images' \in 0 .. Len(events')
         /\ UNCHANGED imageEnd => imageEnd' \in 0 .. Len(events')
<1>1. /\ Len(events') = Len(events) + 1 /\ Len(events) \in Nat
      /\ DOMAIN events = 1 .. Len(events) /\ DOMAIN events' = 1 .. Len(events) + 1
      /\ keywordSpans \in Seq(DOMAIN events')
      /\ propertySpans \in Seq((DOMAIN events') \X (DOMAIN events'))
      /\ phase = "reading"
  BY AdvanceType
<1>2. phase' = "reading" /\ cycles' \in 0 .. MaxCycles
  BY <1>1 DEF TypeOK
<1>3. /\ UNCHANGED keywords => keywords' \in Seq(KeywordRecord)
      /\ UNCHANGED keywordSpans => keywordSpans' \in Seq(DOMAIN events')
      /\ UNCHANGED properties => /\ DOMAIN properties' \subseteq Text
                                /\ properties' \in [DOMAIN properties' -> PropertyRecord]
      /\ UNCHANGED propertySpans => propertySpans' \in Seq((DOMAIN events') \X (DOMAIN events'))
  BY <1>1 DEF TypeOK
<1>4. UNCHANGED open => open' \in OpenProperties /\ (open'.isOpen => open'.first \in DOMAIN events')
  BY <1>1 DEF TypeOK
<1>5. /\ UNCHANGED images => images' \in 0 .. Len(events')
      /\ UNCHANGED imageEnd => imageEnd' \in 0 .. Len(events')
  BY <1>1 DEF TypeOK
<1>6. QED
  BY <1>2, <1>3, <1>4, <1>5

(* The placeholder of no open property is one, and not open. *)
LEMMA ClosedType == Closed \in OpenProperties /\ ~Closed.isOpen
<1>1. ParseProperty(<< >>) \in PropertyRecord
  <2>1. \A key, default: AttrText(<< >>, key, default) = default
    BY NoAttr
  <2>2. << >> \in Text /\ <<String>> \in Text
    BY EmptyText, TextAssumption DEF Text
  <2>3. QED
    BY <2>1, <2>2 DEF ParseProperty, PropertyRecord
<1>2. QED
  BY <1>1, EmptyText DEF Closed, OpenProperties

(* Each event keeps the types. *)
LEMMA EventType ==
  ASSUME TypeOK, NEW e, IsEvent(e), ReadEvent(e), UNCHANGED cycles
  PROVE  TypeOK'
<1>1. ASSUME Advance(e)
      PROVE  /\ events' \in Seq(Range(events')) /\ \A n \in DOMAIN events': IsEvent(events'[n])
             /\ stack' \in Seq(DOMAIN events')
             /\ Here \in DOMAIN events' /\ Here = Len(events') /\ Len(events) \in Nat
             /\ DOMAIN events' = 1 .. Len(events) + 1
  BY <1>1, AdvanceType DEF Here
<1>2. CASE ReadImage(e)
  <2>1. Advance(e) /\ UNCHANGED <<phase, keywords, keywordSpans, properties, propertySpans, open, imageEnd>>
    BY <1>2 DEF ReadImage
  <2>2. images' \in 0 .. Len(events')
    BY <1>1, <1>2, <2>1 DEF ReadImage, Here, TypeOK
  <2>3. QED
    BY <1>1, <2>1, <2>2, KeptTypes DEF TypeOK
<1>3. CASE ReadKeyword(e)
  <2>1. Advance(e) /\ UNCHANGED <<phase, properties, propertySpans, open, images, imageEnd>>
    BY <1>3 DEF ReadKeyword
  <2>2. keywords' \in Seq(KeywordRecord) /\ keywordSpans' \in Seq(DOMAIN events')
    <3>1. CASE UNCHANGED <<keywords, keywordSpans>>
      BY <2>1, <3>1, KeptTypes
    <3>2. CASE keywords' = Append(keywords, ParseKeyword(e.attrs)) /\ keywordSpans' = Append(keywordSpans, Here)
      BY <1>1, <2>1, <3>2, AdvanceType, ParsedKeywordType, AppendProperties DEF TypeOK
    <3>3. QED
      BY <1>3, <3>1, <3>2 DEF ReadKeyword
  <2>3. QED
    BY <1>1, <2>1, <2>2, KeptTypes DEF TypeOK
<1>4. CASE ReadEmptyProperty(e)
  <2>1. Advance(e) /\ UNCHANGED <<phase, keywords, keywordSpans, open, images, imageEnd>>
    BY <1>4 DEF ReadEmptyProperty
  <2>2. /\ DOMAIN properties' \subseteq Text
        /\ properties' \in [DOMAIN properties' -> PropertyRecord]
        /\ propertySpans' \in Seq((DOMAIN events') \X (DOMAIN events'))
    <3>1. CASE UNCHANGED <<properties, propertySpans>>
      BY <2>1, <3>1, KeptTypes
    <3>2. CASE Insert(IdOf(e.attrs), ParseProperty(e.attrs), Here, Here)
      <4>1. Here \in 1 .. Len(events) + 1
        BY <1>1, <2>1
      <4>2. QED
        BY <2>1, <3>2, <4>1, InsertType, ParsedPropertyType
    <3>3. QED
      BY <1>4, <3>1, <3>2 DEF ReadEmptyProperty
  <2>3. QED
    BY <1>1, <2>1, <2>2, KeptTypes DEF TypeOK
<1>5. CASE OpenProperty(e)
  <2>1. Advance(e) /\ UNCHANGED <<phase, keywords, keywordSpans, properties, propertySpans, images, imageEnd>>
    BY <1>5 DEF OpenProperty
  <2>2. open' \in OpenProperties /\ (open'.isOpen => open'.first \in DOMAIN events')
    <3>1. Here \in Nat /\ HasId(e.attrs) \in BOOLEAN /\ HasValue(e.attrs) \in BOOLEAN
      BY <1>1, <2>1 DEF HasId, HasValue, Has
    <3>2. QED
      BY <1>1, <1>5, <2>1, <3>1, ParsedPropertyType DEF OpenProperty, OpenProperties
  <2>3. QED
    BY <1>1, <2>1, <2>2, KeptTypes DEF TypeOK
<1>6. CASE ReadOtherTag(e)
  <2>1. Advance(e) /\ UNCHANGED <<phase, keywords, keywordSpans, properties, propertySpans, open, images, imageEnd>>
    BY <1>6 DEF ReadOtherTag
  <2>2. QED
    BY <1>1, <2>1, KeptTypes DEF TypeOK
<1>7. CASE ReadText(e)
  <2>1. Advance(e) /\ UNCHANGED <<phase, keywords, keywordSpans, properties, propertySpans, images, imageEnd>>
    BY <1>7 DEF ReadText
  <2>2. open' \in OpenProperties /\ (open'.isOpen => open'.first \in DOMAIN events')
    <3>1. CASE UNCHANGED open
      BY <2>1, <3>1, KeptTypes
    <3>2. CASE open' = [open EXCEPT !.prop.value = @ \o e.text]
      <4>1. open \in OpenProperties /\ (open.isOpen => open.first \in DOMAIN events)
        BY DEF TypeOK
      <4>2. open.prop.value \o e.text \in Text
        BY <4>1 DEF OpenProperties, PropertyRecord, IsEvent, Text
      <4>3. open' \in OpenProperties /\ open'.isOpen = open.isOpen /\ open'.first = open.first
        BY <3>2, <4>1, <4>2 DEF OpenProperties, PropertyRecord
      <4>4. DOMAIN events \subseteq DOMAIN events'
        BY <2>1, AdvanceType
      <4>5. QED
        BY <4>1, <4>3, <4>4
    <3>3. QED
      BY <1>7, <3>1, <3>2 DEF ReadText
  <2>3. QED
    BY <1>1, <2>1, <2>2, KeptTypes DEF TypeOK
<1>8. CASE CloseProperty(e)
  <2>1. Advance(e) /\ UNCHANGED <<phase, keywords, keywordSpans, images, imageEnd>> /\ open' = Closed
    BY <1>8 DEF CloseProperty
  <2>2. /\ DOMAIN properties' \subseteq Text
        /\ properties' \in [DOMAIN properties' -> PropertyRecord]
        /\ propertySpans' \in Seq((DOMAIN events') \X (DOMAIN events'))
    <3>1. CASE UNCHANGED <<properties, propertySpans>>
      BY <2>1, <3>1, KeptTypes
    <3>2. CASE open.isOpen /\ open.hasId /\ Insert(open.id, open.prop, open.first, Here)
      <4>1. open.id \in Text /\ open.prop \in PropertyRecord /\ open.first \in DOMAIN events
        BY <3>2 DEF TypeOK, OpenProperties
      <4>2. open.first \in 1 .. Len(events) + 1
        BY <2>1, <4>1, AdvanceType
      <4>3. QED
        BY <2>1, <3>2, <4>1, <4>2, InsertType
    <3>3. QED
      BY <1>8, <3>1, <3>2 DEF CloseProperty
  <2>3. QED
    BY <1>1, <2>1, <2>2, KeptTypes, ClosedType DEF TypeOK
<1>9. CASE CloseImage(e)
  <2>1. /\ Advance(e) /\ imageEnd' = Here
        /\ UNCHANGED <<phase, keywords, keywordSpans, properties, propertySpans, open, images>>
    BY <1>9 DEF CloseImage
  <2>2. imageEnd' \in 0 .. Len(events')
    BY <1>1, <2>1 DEF Here
  <2>3. QED
    BY <1>1, <2>1, <2>2, KeptTypes DEF TypeOK
<1>10. CASE SkipEvent(e)
  <2>1. Advance(e) /\ UNCHANGED <<phase, keywords, keywordSpans, properties, propertySpans, open, images, imageEnd>>
    BY <1>10 DEF SkipEvent
  <2>2. QED
    BY <1>1, <2>1, KeptTypes DEF TypeOK
<1>11. CASE RejectEvent(e)
  BY <1>11 DEF RejectEvent, readerVars, TypeOK
<1>12. QED
  BY <1>2, <1>3, <1>4, <1>5, <1>6, <1>7, <1>8, <1>9, <1>10, <1>11 DEF ReadEvent

-------------------------------------------------------------------------------
(* The document that the writer makes of a header *)

Ids(h) == InOrder(DOMAIN h.properties)

(* The ids of a header, each once, in map order. *)
LEMMA IdsShape ==
  ASSUME NEW h, IsHeader(h)
  PROVE  /\ Ids(h) \in Seq(DOMAIN h.properties) /\ DOMAIN h.properties = Range(Ids(h))
         /\ Len(Ids(h)) \in Nat /\ DOMAIN Ids(h) = 1 .. Len(Ids(h))
         /\ \A i, j \in 1 .. Len(Ids(h)): Ids(h)[i] = Ids(h)[j] => i = j
         /\ \A j \in 1 .. Len(Ids(h)):
              /\ Ids(h)[j] \in DOMAIN h.properties /\ Ids(h)[j] \in Text
              /\ Normalized(Ids(h)[j]) \in PropertyIds
              /\ h.properties[Ids(h)[j]] \in PropertyRecord
<1>1. DOMAIN h.properties \in SUBSET PropertyIds
  BY DEF IsHeader
<1>2. /\ Ids(h) \in Seq(DOMAIN h.properties) /\ DOMAIN h.properties = Range(Ids(h))
      /\ \A i, j \in DOMAIN Ids(h): Ids(h)[i] = Ids(h)[j] => i = j
  BY <1>1, HeaderAssumption DEF Ids
<1>3. Len(Ids(h)) \in Nat /\ DOMAIN Ids(h) = 1 .. Len(Ids(h))
  BY <1>2
<1>4. \A j \in 1 .. Len(Ids(h)): Ids(h)[j] \in DOMAIN h.properties
  BY <1>2, <1>3
<1>5. QED
  BY <1>1, <1>2, <1>3, <1>4, HeaderAssumption DEF IsHeader

KeywordElement(h, i) == Empty("FITSKeyword", RenderKeyword(h.keywords[i]))
PropertyElement(h, j) == Empty("Property", RenderProperty(Ids(h)[j], h.properties[Ids(h)[j]]))

(* A header is its two fields. *)
LEMMA HeaderShape ==
  ASSUME NEW h, IsHeader(h)
  PROVE  /\ h = [keywords |-> h.keywords, properties |-> h.properties]
         /\ h.keywords \in Seq(KeywordRecord)
         /\ Len(h.keywords) \in Nat /\ DOMAIN h.keywords = 1 .. Len(h.keywords)
         /\ \A i \in 1 .. Len(h.keywords): h.keywords[i] \in KeywordRecord /\ h.keywords[i].name # << >>
BY DEF IsHeader

(* All attributes that the writer makes hold texts, but for the geometry.  *)
LEMMA AttrsAre ==
  ASSUME NEW S, NEW e, e.attrs \in Seq(S), e.text = << >>,
         \A i \in DOMAIN e.attrs: e.attrs[i].key # "geometry" => e.attrs[i].text \in Text
  PROVE  IsEvent(e)
BY SeqOfRange, EmptyText DEF IsEvent

(* What the writer writes of a header are events a reader can meet. *)
LEMMA ElementsAreEvents ==
  ASSUME NEW h, IsHeader(h)
  PROVE  /\ \A i \in 1 .. Len(h.keywords): IsEvent(KeywordElement(h, i))
         /\ \A j \in 1 .. Len(Ids(h)): IsEvent(PropertyElement(h, j))
<1>1. ASSUME NEW kw \in KeywordRecord PROVE IsEvent(Empty("FITSKeyword", RenderKeyword(kw)))
  <2> DEFINE value == IF IsCommentary(kw.name) THEN << >> ELSE RenderedValue(kw.value)
             comment == IF IsCommentary(kw.name) THEN kw.value.text ELSE kw.comment
             name == Attr("name", kw.name)
             val == Attr("value", value)
             com == Attr("comment", comment)
             e == Empty("FITSKeyword", RenderKeyword(kw))
  <2>1. RenderKeyword(kw) = <<name, val, com>>
    BY DEF RenderKeyword
  <2>2. kw.name \in Text /\ value \in Text /\ comment \in Text
    BY KeywordShape, ValueShape, EmptyText
  <2>3. name.text \in Text /\ val.text \in Text /\ com.text \in Text
    BY <2>2 DEF Attr, SpelledAttr
  <2> HIDE DEF name, val, com
  <2>4. e.attrs = <<name, val, com>> /\ e.text = << >>
    BY <2>1 DEF Empty, Event
  <2> HIDE DEF e
  <2>5. e.attrs \in Seq({name, val, com}) /\ \A i \in DOMAIN e.attrs: e.attrs[i].text \in Text
    BY <2>3, <2>4
  <2>6. QED
    BY <2>4, <2>5, AttrsAre DEF e
<1>2. ASSUME NEW p \in PropertyRecord, NEW id \in Text PROVE IsEvent(Empty("Property", RenderProperty(id, p)))
  <2> DEFINE i == Attr("id", id)
             type == Attr("type", p.type)
             val == Attr("value", p.value)
             format == Attr("format", p.format)
             com == Attr("comment", p.comment)
             S == {i, type, val, format, com}
             e == Empty("Property", RenderProperty(id, p))
  <2>1. RenderProperty(id, p) = <<i, type, val>> \o (IF p.format = << >> THEN << >> ELSE <<format>>)
                                                \o (IF p.comment = << >> THEN << >> ELSE <<com>>)
    BY DEF RenderProperty
  <2>2. \A a \in S: a.text \in Text
    BY PropertyShape DEF Attr, SpelledAttr
  <2> HIDE DEF i, type, val, format, com
  <2>3. {i, type, val, format, com} \subseteq S
    OBVIOUS
  <2> HIDE DEF S
  <2>4. RenderProperty(id, p) \in Seq(S)
    <3>1. <<i, type, val>> \in Seq(S) /\ <<format>> \in Seq(S) /\ <<com>> \in Seq(S) /\ << >> \in Seq(S)
      BY <2>3
    <3>2. QED
      BY <2>1, <3>1
  <2>5. e.attrs \in Seq(S) /\ e.text = << >>
    BY <2>4 DEF Empty, Event
  <2> HIDE DEF e
  <2>6. \A k \in DOMAIN e.attrs: e.attrs[k].text \in Text
    BY <2>2, <2>5
  <2>7. QED
    BY <2>5, <2>6, AttrsAre DEF e
<1>3. QED
  BY <1>1, <1>2, HeaderShape, IdsShape DEF KeywordElement, PropertyElement

(* What encloses the keywords and properties of a document. *)
ImageTag(hint, location) ==
  Start("Image", <<Attr("geometry", hint.geometry), Attr("sampleFormat", << >>), Attr("colorSpace", << >>),
                   SpelledAttr("location", "location", << >>, location)>>)
Framed(doc, hint, location) ==
  /\ doc[1] = Event("other", "", << >>, << >>) /\ doc[2] = Start("xisf", << >>)
  /\ doc[3] = ImageTag(hint, location)
  /\ doc[Len(doc) - 1] = End("Image") /\ doc[Len(doc)] = End("xisf")

(* Three events open the document; the keywords, the properties and two    *)
(* end tags follow.                                                        *)
LEMMA DocumentShape ==
  ASSUME NEW h, IsHeader(h), NEW hint, NEW location
  PROVE  LET doc == Document(h, hint, location)
             K == Len(h.keywords)
             P == Len(Ids(h))
         IN  /\ Len(doc) = K + P + 5 /\ IsSequence(doc)
             /\ \A i \in 1 .. 3: doc[i].tag \notin {"FITSKeyword", "Property"} /\ IsEvent(doc[i])
             /\ \A i \in 1 .. K: doc[3 + i] = KeywordElement(h, i)
             /\ \A j \in 1 .. P: doc[3 + K + j] = PropertyElement(h, j)
             /\ \A i \in 4 + K + P .. 5 + K + P:
                  doc[i].tag \notin {"FITSKeyword", "Property"} /\ IsEvent(doc[i])
             /\ Framed(doc, hint, location)
<1> DEFINE K == Len(h.keywords)
           P == Len(Ids(h))
           first == Event("other", "", << >>, << >>)
           xisf == Start("xisf", << >>)
           image == ImageTag(hint, location)
           front == <<first, xisf, image>>
           kws == [i \in DOMAIN h.keywords |-> Empty("FITSKeyword", RenderKeyword(h.keywords[i]))]
           props == [i \in DOMAIN Ids(h) |-> Empty("Property", RenderProperty(Ids(h)[i], h.properties[Ids(h)[i]]))]
           back == <<End("Image"), End("xisf")>>
           S == {first, xisf, image, End("Image"), End("xisf")} \cup Range(kws) \cup Range(props)
<1>1. Document(h, hint, location) = Joint(Joint(Joint(front, kws), props), back)
  BY DEF Document, Ids, Joint, ImageTag
<1>2. /\ K \in Nat /\ DOMAIN h.keywords = 1 .. K
      /\ P \in Nat /\ DOMAIN Ids(h) = 1 .. P
  BY HeaderShape, IdsShape
<1>3. /\ first.tag = "" /\ xisf.tag = "xisf" /\ image.tag = "Image"
      /\ End("Image").tag = "Image" /\ End("xisf").tag = "xisf"
      /\ IsEvent(first) /\ IsEvent(xisf) /\ IsEvent(image) /\ IsEvent(End("Image")) /\ IsEvent(End("xisf"))
  <2>1. /\ first.tag = "" /\ xisf.tag = "xisf" /\ image.tag = "Image"
        /\ End("Image").tag = "Image" /\ End("xisf").tag = "xisf"
    BY DEF Event, Start, End, ImageTag
  <2>2. \A kind, tag: IsEvent(Event(kind, tag, << >>, << >>))
    BY EmptyText DEF IsEvent, Event
  <2>3. IsEvent(image)
    <3> DEFINE geo == Attr("geometry", hint.geometry)
               format == Attr("sampleFormat", << >>)
               color == Attr("colorSpace", << >>)
               loc == SpelledAttr("location", "location", << >>, location)
    <3>1. geo.key = "geometry" /\ format.text \in Text /\ color.text \in Text /\ loc.text \in Text
      BY EmptyText DEF Attr, SpelledAttr
    <3>2. image.attrs = <<geo, format, color, loc>> /\ image.text = << >>
      BY DEF Start, Event, ImageTag
    <3> HIDE DEF image, geo, format, color, loc
    <3>3. /\ image.attrs \in Seq({geo, format, color, loc})
          /\ \A i \in DOMAIN image.attrs: image.attrs[i].key # "geometry" => image.attrs[i].text \in Text
      BY <3>1, <3>2
    <3>4. QED
      BY <3>2, <3>3, AttrsAre
  <2>4. QED
    BY <2>1, <2>2, <2>3 DEF Start, End
<1>4. /\ \A i \in 1 .. K: kws[i] = KeywordElement(h, i)
      /\ \A j \in 1 .. P: props[j] = PropertyElement(h, j)
  BY <1>2 DEF KeywordElement, PropertyElement
<1>5. /\ kws \in [1 .. K -> S] /\ props \in [1 .. P -> S]
      /\ {first, xisf, image, End("Image"), End("xisf")} \subseteq S
  BY <1>2 DEF Range
<1> HIDE DEF first, xisf, image, kws, props, S, K, P
<1>6. IsSequence(kws) /\ Len(kws) = K /\ IsSequence(props) /\ Len(props) = P
  BY <1>2, <1>5, Listed
<1>7. IsSequence(front) /\ Len(front) = 3 /\ IsSequence(back) /\ Len(back) = 2
      /\ front[1] = first /\ front[2] = xisf /\ front[3] = image
      /\ back[1] = End("Image") /\ back[2] = End("xisf")
  <2>1. front \in Seq(S) /\ back \in Seq(S)
    BY <1>5
  <2>2. IsSequence(front) /\ IsSequence(back)
    BY <2>1, Zenon DEF IsSequence
  <2>3. QED
    BY <2>2
<1> DEFINE one == Joint(front, kws)
           two == Joint(one, props)
           doc == Joint(two, back)
<1>joints. one = Joint(front, kws) /\ two = Joint(one, props) /\ doc = Joint(two, back)
  OBVIOUS
<1> HIDE DEF front, back, one, two, doc
<1>8. /\ IsSequence(one) /\ Len(one) = 3 + K
      /\ \A i \in 1 .. 3: one[i] = front[i]
      /\ \A i \in 1 .. K: one[3 + i] = kws[i]
  <2>1. /\ IsSequence(one) /\ Len(one) = Len(front) + Len(kws)
        /\ \A i \in 1 .. Len(front): one[i] = front[i]
        /\ \A i \in 1 .. Len(kws): one[Len(front) + i] = kws[i]
    <3>1. IsSequence(front) /\ IsSequence(kws) /\ one = Joint(front, kws)
      BY <1>6, <1>7, <1>joints
    <3>2. QED
      BY <3>1, Joined
  <2>2. QED
    BY <1>6, <1>7, <2>1
<1>9. /\ IsSequence(two) /\ Len(two) = 3 + K + P
      /\ \A i \in 1 .. 3 + K: two[i] = one[i]
      /\ \A i \in 1 .. P: two[3 + K + i] = props[i]
  <2>1. /\ IsSequence(two) /\ Len(two) = Len(one) + Len(props)
        /\ \A i \in 1 .. Len(one): two[i] = one[i]
        /\ \A i \in 1 .. Len(props): two[Len(one) + i] = props[i]
    <3>1. IsSequence(one) /\ IsSequence(props) /\ two = Joint(one, props)
      BY <1>6, <1>8, <1>joints
    <3>2. QED
      BY <3>1, Joined
  <2>2. QED
    BY <1>6, <1>8, <2>1
<1>10. /\ IsSequence(doc) /\ Len(doc) = 3 + K + P + 2
       /\ \A i \in 1 .. 3 + K + P: doc[i] = two[i]
       /\ \A i \in 1 .. 2: doc[3 + K + P + i] = back[i]
  <2>1. /\ IsSequence(doc) /\ Len(doc) = Len(two) + Len(back)
        /\ \A i \in 1 .. Len(two): doc[i] = two[i]
        /\ \A i \in 1 .. Len(back): doc[Len(two) + i] = back[i]
    <3>1. IsSequence(two) /\ IsSequence(back) /\ doc = Joint(two, back)
      BY <1>7, <1>9, <1>joints
    <3>2. QED
      BY <3>1, Joined
  <2>2. QED
    BY <1>7, <1>9, <2>1
<1>firsts. doc[1] = first /\ doc[2] = xisf /\ doc[3] = image
  <2>1. \A i \in {1, 2, 3}: i \in 1 .. 3 /\ i \in 1 .. 3 + K /\ i \in 1 .. 3 + K + P
    BY <1>2
  <2>2. \A i \in {1, 2, 3}: doc[i] = front[i]
    BY <1>8, <1>9, <1>10, <2>1
  <2>3. QED
    BY <1>7, <2>2
<1>lasts. doc[3 + K + P + 1] = End("Image") /\ doc[3 + K + P + 2] = End("xisf")
  BY <1>7, <1>10
<1>11. \A i \in 1 .. 3: doc[i].tag \notin {"FITSKeyword", "Property"} /\ IsEvent(doc[i])
  <2>1. \A i \in 1 .. 3: i \in {1, 2, 3}
    OBVIOUS
  <2>2. QED
    BY <1>3, <1>firsts, <2>1
<1>12. \A i \in 1 .. K: doc[3 + i] = KeywordElement(h, i)
  <2>1. \A i \in 1 .. K: 3 + i \in 1 .. 3 + K /\ 3 + i \in 1 .. 3 + K + P
    BY <1>2
  <2>2. QED
    BY <1>4, <1>8, <1>9, <1>10, <2>1
<1>13. \A j \in 1 .. P: doc[3 + K + j] = PropertyElement(h, j)
  <2>1. \A j \in 1 .. P: 3 + K + j \in 1 .. 3 + K + P
    BY <1>2
  <2>2. QED
    BY <1>4, <1>9, <1>10, <2>1
<1>14. \A i \in 4 + K + P .. 5 + K + P: doc[i].tag \notin {"FITSKeyword", "Property"} /\ IsEvent(doc[i])
  <2>1. \A i \in 4 + K + P .. 5 + K + P: i = 3 + K + P + 1 \/ i = 3 + K + P + 2
    BY <1>2
  <2>2. QED
    BY <1>3, <1>lasts, <2>1
<1>15. Len(doc) = K + P + 5
  BY <1>2, <1>10
<1>16. Document(h, hint, location) = doc
  BY <1>1, <1>joints, Zenon
<1>17. Framed(doc, hint, location)
  <2>1. Len(doc) - 1 = 3 + K + P + 1 /\ Len(doc) = 3 + K + P + 2
    BY <1>2, <1>10
  <2>2. QED
    BY <1>firsts, <1>lasts, <2>1 DEF Framed, first, xisf, image
<1>18. QED
  BY <1>10, <1>11, <1>12, <1>13, <1>14, <1>15, <1>16, <1>17 DEF K, P

-------------------------------------------------------------------------------
(* The indices of the reader *)

(* The event that was counted is the last one; the others are as before. *)
LEMMA Counted ==
  ASSUME TypeOK, NEW e, events' = Append(events, e)
  PROVE  LET N == Len(events)
         IN  /\ N \in Nat /\ DOMAIN events = 1 .. N /\ DOMAIN events' = 1 .. N + 1
             /\ events'[N + 1] = e
             /\ \A n \in 1 .. N: events'[n] = events[n] /\ n \in 1 .. N + 1 /\ n < N + 1
             /\ \A n \in 1 .. N + 1: n \in 1 .. N \/ n = N + 1
<1> DEFINE N == Len(events)
<1>1. events \in Seq(Range(events))
  BY DEF TypeOK
<1>2. /\ N \in Nat /\ DOMAIN events = 1 .. N /\ DOMAIN events' = 1 .. N + 1
      /\ events'[N + 1] = e /\ \A n \in 1 .. N: events'[n] = events[n]
  BY <1>1, Appended
<1>3. QED
  BY <1>2

(* One more event read keeps the keyword spans in step with the keywords. *)
LEMMA SpansStep ==
  ASSUME TypeOK, SpansNameKeywords, NEW e, ReadEvent(e)
  PROVE  SpansNameKeywords'
<1> DEFINE N == Len(events)
           K == Len(keywords)
<1>1. CASE UNCHANGED readerVars
  BY <1>1 DEF SpansNameKeywords, IsKeyword, readerVars
<1>2. CASE events' = Append(events, e)
  <2>1. /\ N \in Nat /\ DOMAIN events = 1 .. N /\ DOMAIN events' = 1 .. N + 1
        /\ events'[N + 1] = e
        /\ \A n \in 1 .. N: events'[n] = events[n] /\ n \in 1 .. N + 1 /\ n < N + 1
        /\ \A n \in 1 .. N + 1: n \in 1 .. N \/ n = N + 1
    BY <1>2, Counted
  <2>2. /\ K \in Nat /\ DOMAIN keywords = 1 .. K /\ DOMAIN keywordSpans = 1 .. K
        /\ keywords \in Seq(KeywordRecord) /\ keywordSpans \in Seq(1 .. N)
        /\ \A i \in 1 .. K: keywordSpans[i] \in 1 .. N
    <3>1. /\ keywords \in Seq(KeywordRecord) /\ keywordSpans \in Seq(1 .. N)
          /\ DOMAIN keywordSpans = DOMAIN keywords
      BY <2>1 DEF TypeOK, SpansNameKeywords
    <3>2. QED
      BY <3>1
  <2>3. /\ \A i \in 1 .. K: /\ NamedKeyword(events[keywordSpans[i]])
                            /\ keywords[i] = ParseKeyword(events[keywordSpans[i]].attrs)
        /\ \A i, j \in 1 .. K: i < j => keywordSpans[i] < keywordSpans[j]
        /\ \A n \in 1 .. N: NamedKeyword(events[n]) => n \in Range(keywordSpans)
    BY <2>1, <2>2 DEF SpansNameKeywords, IsKeyword, NamedKeyword
  <2>4. SUFFICES
          /\ DOMAIN keywordSpans' = DOMAIN keywords'
          /\ \A i \in DOMAIN keywords': /\ NamedKeyword(events'[keywordSpans'[i]])
                                        /\ keywords'[i] = ParseKeyword(events'[keywordSpans'[i]].attrs)
          /\ \A i, j \in DOMAIN keywords': i < j => keywordSpans'[i] < keywordSpans'[j]
          /\ \A n \in DOMAIN events': NamedKeyword(events'[n]) => n \in Range(keywordSpans')
    BY DEF SpansNameKeywords, IsKeyword, NamedKeyword
  <2>5. CASE UNCHANGED <<keywords, keywordSpans>> /\ ~NamedKeyword(e)
    BY <2>1, <2>2, <2>3, <2>5
  <2>6. CASE /\ NamedKeyword(e)
             /\ keywords' = Append(keywords, ParseKeyword(e.attrs))
             /\ keywordSpans' = Append(keywordSpans, N + 1)
    <3>1. /\ DOMAIN keywords' = 1 .. K + 1 /\ DOMAIN keywordSpans' = 1 .. K + 1
          /\ \A i \in 1 .. K: keywords'[i] = keywords[i] /\ keywordSpans'[i] = keywordSpans[i]
          /\ keywords'[K + 1] = ParseKeyword(e.attrs) /\ keywordSpans'[K + 1] = N + 1
      <4>1. Len(keywordSpans) = K
        BY <2>2
      <4>2. QED
        BY <2>2, <2>6, <4>1, Appended
    <3>2. \A i \in 1 .. K + 1: i \in 1 .. K \/ i = K + 1
      BY <2>2
    <3>3. \A i \in DOMAIN keywords': /\ NamedKeyword(events'[keywordSpans'[i]])
                                    /\ keywords'[i] = ParseKeyword(events'[keywordSpans'[i]].attrs)
      <4>1. \A i \in 1 .. K: /\ NamedKeyword(events'[keywordSpans'[i]])
                            /\ keywords'[i] = ParseKeyword(events'[keywordSpans'[i]].attrs)
        BY <2>1, <2>2, <2>3, <3>1
      <4>2. QED
        BY <2>1, <2>6, <3>1, <3>2, <4>1
    <3>4. \A i, j \in DOMAIN keywords': i < j => keywordSpans'[i] < keywordSpans'[j]
      <4>1. \A i, j \in 1 .. K + 1: i < j => i \in 1 .. K
        BY <2>2
      <4>2. QED
        BY <2>1, <2>2, <2>3, <3>1, <3>2, <4>1
    <3>5. \A n \in DOMAIN events': NamedKeyword(events'[n]) => n \in Range(keywordSpans')
      <4>1. Range(keywordSpans') = Range(keywordSpans) \cup {N + 1}
        BY <2>2, <2>6, RangeOfAppended
      <4>2. QED
        BY <2>1, <2>3, <4>1
    <3>6. QED
      BY <3>1, <3>3, <3>4, <3>5
  <2>7. ~UNCHANGED readerVars
    BY <2>1 DEF readerVars
  <2>8. QED
    BY <2>5, <2>6, <2>7, EventEffect
<1>3. QED
  BY <1>1, <1>2, EventEffect

(* The geometry as a function of the images seen. *)
GeometryOf(evs, seen) ==
  IF seen = {} THEN Unseen
  ELSE IF \E m, n \in seen: m # n THEN Geometry("multiple", << >>)
  ELSE GeometryAttr(evs[CHOOSE n \in seen: TRUE].attrs)

(* A geometry that was seen is not unseen. *)
LEMMA GeometryStates ==
  /\ \A attrs: GeometryAttr(attrs) # Unseen
  /\ Geometry("multiple", << >>) # Unseen
<1>1. \A state, items: Geometry(state, items).state = state
  BY DEF Geometry
<1>2. \A attrs: GeometryAttr(attrs).state \in {"malformed", "missing", "ok"}
  BY <1>1 DEF GeometryAttr
<1>3. Unseen.state = "unseen" /\ Geometry("multiple", << >>).state = "multiple"
  BY <1>1 DEF Unseen
<1>4. QED
  BY <1>2, <1>3

(* One more event read keeps the geometry that of the images seen. *)
LEMMA GeometryStep ==
  ASSUME TypeOK, GeometryIsTheImages, NEW e, ReadEvent(e)
  PROVE  GeometryIsTheImages'
<1> DEFINE N == Len(events)
           Seen == {n \in DOMAIN events: Tagged(events[n], "Image")}
<1>1. CASE UNCHANGED readerVars
  BY <1>1 DEF GeometryIsTheImages, IsImage, readerVars
<1>2. CASE events' = Append(events, e)
  <2>1. /\ N \in Nat /\ DOMAIN events = 1 .. N /\ DOMAIN events' = 1 .. N + 1
        /\ events'[N + 1] = e
        /\ \A n \in 1 .. N: events'[n] = events[n] /\ n \in 1 .. N + 1 /\ n < N + 1
        /\ \A n \in 1 .. N + 1: n \in 1 .. N \/ n = N + 1
    BY <1>2, Counted
  <2>2. geometry = GeometryOf(events, Seen)
    BY DEF GeometryIsTheImages, IsImage, GeometryOf
  <2>3. Seen' = IF Tagged(e, "Image") THEN Seen \cup {N + 1} ELSE Seen
    BY <2>1
  <2>4. Seen \subseteq 1 .. N /\ N + 1 \notin Seen
    BY <2>1
  <2>5. geometry' = IF ~Tagged(e, "Image") THEN geometry
                    ELSE IF geometry = Unseen THEN GeometryAttr(e.attrs)
                    ELSE Geometry("multiple", << >>)
    <3>1. ~UNCHANGED readerVars
      BY <2>1 DEF readerVars
    <3>2. QED
      BY <3>1, EventEffect
  <2>6. SUFFICES geometry' = GeometryOf(events', Seen')
    BY DEF GeometryIsTheImages, IsImage, GeometryOf
  <2> HIDE DEF Seen
  <2>7. CASE ~Tagged(e, "Image")
    <3>1. Seen # {} => (CHOOSE n \in Seen: TRUE) \in 1 .. N
      BY <2>4
    <3>2. QED
      BY <2>1, <2>2, <2>3, <2>5, <2>7, <3>1 DEF GeometryOf
  <2>8. CASE Tagged(e, "Image") /\ Seen = {}
    <3>1. Seen' = {N + 1}
      BY <2>3, <2>8
    <3>2. (CHOOSE n \in Seen': TRUE) = N + 1 /\ ~\E m, n \in Seen': m # n
      BY <3>1
    <3>3. QED
      BY <2>1, <2>2, <2>5, <2>8, <3>1, <3>2 DEF GeometryOf
  <2>9. CASE Tagged(e, "Image") /\ Seen # {}
    <3>1. geometry # Unseen
      BY <2>2, <2>9, GeometryStates DEF GeometryOf
    <3>2. \E m, n \in Seen': m # n
      <4>1. PICK m \in Seen: TRUE
        BY <2>9
      <4>2. m \in Seen' /\ N + 1 \in Seen' /\ m # N + 1
        BY <2>3, <2>4, <2>9
      <4>3. QED
        BY <4>2, Zenon
    <3>3. QED
      BY <2>5, <2>9, <3>1, <3>2 DEF GeometryOf
  <2>10. QED
    BY <2>7, <2>8, <2>9
<1>3. QED
  BY <1>1, <1>2, EventEffect

-------------------------------------------------------------------------------
(* What has been read when n events of the document of h have been read *)

Min2(m, n) == IF m <= n THEN m ELSE n
KeywordsAmong(h, n) == IF n <= 3 THEN 0 ELSE Min2(n - 3, Len(h.keywords))
PropertiesAmong(h, n) ==
  IF n <= 3 + Len(h.keywords) THEN 0 ELSE Min2(n - 3 - Len(h.keywords), Len(Ids(h)))

HasRead(h, n, kws, props) ==
  /\ Len(kws) = KeywordsAmong(h, n)
  /\ \A i \in 1 .. KeywordsAmong(h, n): kws[i] = Reread(h.keywords[i])
  /\ \A j \in 1 .. PropertiesAmong(h, n): Normalized(Ids(h)[j]) \in DOMAIN props
  /\ \A x \in DOMAIN props: \E j \in 1 .. PropertiesAmong(h, n):
       x = Normalized(Ids(h)[j]) /\ props[x] = RereadProperty(Ids(h)[j], h.properties[Ids(h)[j]])

(* How many keywords and properties are among the first n events. *)
LEMMA Among ==
  ASSUME NEW h, IsHeader(h), NEW n \in Nat
  PROVE  LET K == Len(h.keywords)
             P == Len(Ids(h))
         IN  /\ K \in Nat /\ P \in Nat
             /\ KeywordsAmong(h, n) \in 0 .. K /\ PropertiesAmong(h, n) \in 0 .. P
             /\ n = 0 => KeywordsAmong(h, n) = 0 /\ PropertiesAmong(h, n) = 0
             /\ n = K + P + 5 => KeywordsAmong(h, n) = K /\ PropertiesAmong(h, n) = P
             /\ n < 3 \/ n >= 3 + K + P =>
                  /\ KeywordsAmong(h, n + 1) = KeywordsAmong(h, n)
                  /\ PropertiesAmong(h, n + 1) = PropertiesAmong(h, n)
             /\ n \in 3 .. 2 + K =>
                  /\ KeywordsAmong(h, n) = n - 3 /\ KeywordsAmong(h, n + 1) = n - 2
                  /\ PropertiesAmong(h, n) = 0 /\ PropertiesAmong(h, n + 1) = 0
             /\ n \in 3 + K .. 2 + K + P =>
                  /\ KeywordsAmong(h, n) = K /\ KeywordsAmong(h, n + 1) = K
                  /\ PropertiesAmong(h, n) = n - 3 - K /\ PropertiesAmong(h, n + 1) = n - 2 - K
<1> DEFINE K == Len(h.keywords)
           P == Len(Ids(h))
<1>1. K \in Nat /\ P \in Nat
  BY HeaderShape, IdsShape
<1> HIDE DEF K, P
<1>2. /\ KeywordsAmong(h, n) = IF n <= 3 THEN 0 ELSE Min2(n - 3, K)
      /\ KeywordsAmong(h, n + 1) = IF n + 1 <= 3 THEN 0 ELSE Min2(n + 1 - 3, K)
      /\ PropertiesAmong(h, n) = IF n <= 3 + K THEN 0 ELSE Min2(n - 3 - K, P)
      /\ PropertiesAmong(h, n + 1) = IF n + 1 <= 3 + K THEN 0 ELSE Min2(n + 1 - 3 - K, P)
  BY DEF KeywordsAmong, PropertiesAmong, K, P
<1>3. /\ KeywordsAmong(h, n) \in 0 .. K /\ PropertiesAmong(h, n) \in 0 .. P
      /\ n = 0 => KeywordsAmong(h, n) = 0 /\ PropertiesAmong(h, n) = 0
      /\ n = K + P + 5 => KeywordsAmong(h, n) = K /\ PropertiesAmong(h, n) = P
  BY <1>1, <1>2 DEF Min2
<1>4. ASSUME n < 3 \/ n >= 3 + K + P
      PROVE  /\ KeywordsAmong(h, n + 1) = KeywordsAmong(h, n)
             /\ PropertiesAmong(h, n + 1) = PropertiesAmong(h, n)
  BY <1>1, <1>2, <1>4 DEF Min2
<1>5. ASSUME n \in 3 .. 2 + K
      PROVE  /\ KeywordsAmong(h, n) = n - 3 /\ KeywordsAmong(h, n + 1) = n - 2
             /\ PropertiesAmong(h, n) = 0 /\ PropertiesAmong(h, n + 1) = 0
  BY <1>1, <1>2, <1>5 DEF Min2
<1>6. ASSUME n \in 3 + K .. 2 + K + P
      PROVE  /\ KeywordsAmong(h, n) = K /\ KeywordsAmong(h, n + 1) = K
             /\ PropertiesAmong(h, n) = n - 3 - K /\ PropertiesAmong(h, n + 1) = n - 2 - K
  BY <1>1, <1>2, <1>6 DEF Min2
<1>7. QED
  BY <1>1, <1>3, <1>4, <1>5, <1>6 DEF K, P

(* Reading one more event of the document. *)
LEMMA DocumentStep ==
  ASSUME TypeOK, NEW h, IsHeader(h), NEW hint, NEW location,
         Len(events) < Len(Document(h, hint, location)),
         ReadEvent(Document(h, hint, location)[Len(events) + 1]), phase' = "reading",
         HasRead(h, Len(events), keywords, properties)
  PROVE  HasRead(h, Len(events'), keywords', properties')
<1> DEFINE doc == Document(h, hint, location)
           K == Len(h.keywords)
           P == Len(Ids(h))
           N == Len(events)
           e == doc[N + 1]
<1>1. /\ Len(doc) = K + P + 5
      /\ \A i \in 1 .. 3: doc[i].tag \notin {"FITSKeyword", "Property"}
      /\ \A i \in 1 .. K: doc[3 + i] = KeywordElement(h, i)
      /\ \A j \in 1 .. P: doc[3 + K + j] = PropertyElement(h, j)
      /\ \A i \in 4 + K + P .. 5 + K + P: doc[i].tag \notin {"FITSKeyword", "Property"}
  BY DocumentShape
<1>2. K \in Nat /\ P \in Nat /\ N \in Nat /\ N < K + P + 5
  BY <1>1, HeaderShape, IdsShape DEF TypeOK
<1>3. /\ events' = Append(events, e) /\ Len(events') = N + 1
      /\ \/ NamedKeyword(e) /\ keywords' = Append(keywords, ParseKeyword(e.attrs))
         \/ ~NamedKeyword(e) /\ UNCHANGED keywords
      /\ e.tag # "Property" => UNCHANGED properties
      /\ e.kind = "empty" /\ e.tag = "Property" /\ HasId(e.attrs) =>
           properties' = [id \in DOMAIN properties \cup {IdOf(e.attrs)} |->
                            IF id = IdOf(e.attrs) THEN ParseProperty(e.attrs) ELSE properties[id]]
  <2>1. events' = Append(events, e)
    BY EventEffect
  <2>2. Len(events') = N + 1
    BY <2>1 DEF TypeOK
  <2>3. QED
    BY <2>1, <2>2, EventEffect, PropertyEffect
<1> HIDE DEF doc, e
<1>4. CASE N < 3 \/ N >= 3 + K + P
  <2>1. e.tag \notin {"FITSKeyword", "Property"}
    <3>1. N + 1 \in 1 .. 3 \/ N + 1 \in 4 + K + P .. 5 + K + P
      BY <1>2, <1>4
    <3>2. QED
      BY <1>1, <3>1 DEF e
  <2>2. UNCHANGED <<keywords, properties>>
    BY <1>3, <2>1 DEF NamedKeyword, Tagged
  <2>3. KeywordsAmong(h, N + 1) = KeywordsAmong(h, N) /\ PropertiesAmong(h, N + 1) = PropertiesAmong(h, N)
    BY <1>2, <1>4, Among
  <2>4. HasRead(h, N + 1, keywords, properties)
    BY <2>3 DEF HasRead
  <2>5. Len(events') = N + 1
    BY <1>3
  <2>6. keywords' = keywords /\ properties' = properties
    BY <2>2
  <2>7. QED
    BY <2>4, <2>5, <2>6, Zenon
<1>5. CASE N \in 3 .. 2 + K
  <2> DEFINE i == N - 2
             kw == h.keywords[i]
  <2>1. i \in 1 .. K /\ 3 + i = N + 1
    BY <1>2, <1>5
  <2>2. kw \in KeywordRecord /\ kw.name # << >> /\ e = Empty("FITSKeyword", RenderKeyword(kw))
    BY <1>1, <2>1, HeaderShape DEF e, KeywordElement
  <2>3. NamedKeyword(e) /\ ParseKeyword(e.attrs) = Reread(kw) /\ e.tag # "Property"
    BY <2>2, KeywordSettles DEF Empty, Event, NamedKeyword, Tagged, IsTag, Reread
  <2>4. keywords' = Append(keywords, Reread(kw)) /\ UNCHANGED properties
    BY <1>3, <2>3
  <2>5. Len(keywords) = N - 3 /\ \A k \in 1 .. N - 3: keywords[k] = Reread(h.keywords[k])
    BY <1>2, <1>5, Among DEF HasRead
  <2>6. /\ Len(keywords') = N - 2 /\ keywords'[N - 2] = Reread(kw)
        /\ \A k \in 1 .. N - 3: keywords'[k] = keywords[k]
    <3>1. keywords \in Seq(KeywordRecord) /\ (N - 3) + 1 = N - 2
      BY <1>2 DEF TypeOK
    <3>2. QED
      BY <2>4, <2>5, <3>1, Appended
  <2>7. \A k \in 1 .. N - 2: k \in 1 .. N - 3 \/ k = N - 2
    BY <1>2, <1>5
  <2>8. \A k \in 1 .. N - 2: keywords'[k] = Reread(h.keywords[k])
    BY <2>5, <2>6, <2>7
  <2>9. /\ KeywordsAmong(h, N + 1) = N - 2
        /\ PropertiesAmong(h, N) = 0 /\ PropertiesAmong(h, N + 1) = 0
    BY <1>2, <1>5, Among
  <2>10. properties' = properties /\ Len(keywords') = N - 2 /\ Len(events') = N + 1
    BY <1>3, <2>4, <2>6
  <2> HIDE DEF i, kw
  <2>11. HasRead(h, N + 1, keywords', properties')
    BY <2>8, <2>9, <2>10, Zenon DEF HasRead
  <2>12. QED
    BY <2>10, <2>11
<1>6. CASE N \in 3 + K .. 2 + K + P
  <2> DEFINE j == N - 2 - K
             id == Ids(h)[j]
             p == h.properties[id]
  <2>1. j \in 1 .. P /\ 3 + K + j = N + 1
    <3>1. \A m, k, q \in Nat: m \in 3 + k .. 2 + k + q =>
            m - 2 - k \in 1 .. q /\ 3 + k + (m - 2 - k) = m + 1
      OBVIOUS
    <3>2. QED
      BY <1>2, <1>6, <3>1
  <2>2. id \in Text /\ p \in PropertyRecord /\ e = Empty("Property", RenderProperty(id, p))
    BY <1>1, <2>1, IdsShape DEF e, PropertyElement
  <2>3. /\ e.kind = "empty" /\ e.tag = "Property" /\ HasId(e.attrs)
        /\ IdOf(e.attrs) = Normalized(id) /\ ParseProperty(e.attrs) = RereadProperty(id, p)
        /\ ~NamedKeyword(e)
    BY <2>2, PropertyAttrs DEF Empty, Event, NamedKeyword, Tagged, RereadProperty
  <2>4. /\ UNCHANGED keywords
        /\ properties' = [x \in DOMAIN properties \cup {Normalized(id)} |->
                            IF x = Normalized(id) THEN RereadProperty(id, p) ELSE properties[x]]
    BY <1>3, <2>3
  <2> HIDE DEF j, id, p
  <2>5. /\ \A k \in 1 .. N - 3 - K: Normalized(Ids(h)[k]) \in DOMAIN properties
        /\ \A x \in DOMAIN properties: \E k \in 1 .. N - 3 - K:
             x = Normalized(Ids(h)[k]) /\ properties[x] = RereadProperty(Ids(h)[k], h.properties[Ids(h)[k]])
    <3>1. PropertiesAmong(h, N) = N - 3 - K
      BY <1>2, <1>6, Among
    <3>2. QED
      BY <1>2, <3>1 DEF HasRead
  <2>6. /\ \A k \in 1 .. N - 3 - K: k \in 1 .. N - 2 - K
        /\ \A k \in 1 .. N - 2 - K: k \in 1 .. N - 3 - K \/ k = N - 2 - K
    <3>1. \A n, m \in Nat: LET q == n - m IN
            /\ \A k \in 1 .. q - 3: k \in 1 .. q - 2
            /\ \A k \in 1 .. q - 2: k \in 1 .. q - 3 \/ k = q - 2
      OBVIOUS
    <3>2. /\ N \in Nat /\ K \in Nat
          /\ N - K - 3 = N - 3 - K /\ N - K - 2 = N - 2 - K
      BY <1>2
    <3>3. QED
      BY <3>1, <3>2
  <2>7. \A k \in 1 .. N - 2 - K: Normalized(Ids(h)[k]) \in DOMAIN properties'
    BY <2>4, <2>5, <2>6 DEF j, id
  <2>8. \A x \in DOMAIN properties': \E k \in 1 .. N - 2 - K:
          x = Normalized(Ids(h)[k]) /\ properties'[x] = RereadProperty(Ids(h)[k], h.properties[Ids(h)[k]])
    <3>1. TAKE x \in DOMAIN properties'
    <3>2. CASE x = Normalized(id)
      <4>1. properties'[x] = RereadProperty(id, p) /\ j \in 1 .. N - 2 - K
        BY <2>1, <2>4, <3>2 DEF j
      <4>2. QED
        BY <3>2, <4>1, Zenon DEF id, p
    <3>3. CASE x # Normalized(id)
      <4>1. x \in DOMAIN properties /\ properties'[x] = properties[x]
        BY <2>4, <3>3
      <4>2. QED
        BY <2>5, <2>6, <4>1
    <3>4. QED
      BY <3>2, <3>3
  <2>9. /\ KeywordsAmong(h, N) = K /\ KeywordsAmong(h, N + 1) = K /\ PropertiesAmong(h, N + 1) = N - 2 - K
    BY <1>2, <1>6, Among
  <2>10. Len(keywords) = K /\ \A k \in 1 .. K: keywords[k] = Reread(h.keywords[k])
    BY <2>9 DEF HasRead
  <2>11. HasRead(h, N + 1, keywords', properties')
    <3>1. keywords' = keywords
      BY <2>4
    <3>2. QED
      BY <2>7, <2>8, <2>9, <2>10, <3>1, Zenon DEF HasRead
  <2>12. Len(events') = N + 1
    BY <1>3
  <2>13. QED
    BY <2>11, <2>12
<1>7. QED
  BY <1>2, <1>4, <1>5, <1>6

-------------------------------------------------------------------------------
(* The inductive invariant *)

ReadInv == SpansNameKeywords /\ GeometryIsTheImages

(* A header that is written is one that can be; what is written is its     *)
(* document; what is read, so far, is that of the document; and what has   *)
(* been read once is storable.                                             *)
OwnInv ==
  /\ IsHeader(memory)
  /\ Own /\ phase \in {"written", "reading", "done"} =>
       \E hint, location: written = Document(memory, hint, location)
  /\ Own /\ phase \in {"reading", "done"} => HasRead(memory, Len(events), keywords, properties)
  /\ Own /\ phase = "done" => Len(events) = Len(written)
  /\ cycles >= 2 \/ (cycles >= 1 /\ phase = "memory") => IsStorableHeader(memory)

(* A header in memory may still be written. *)
CycleInv == phase = "memory" => cycles < MaxCycles

IInv == TypeOK /\ CycleInv /\ ReadInv /\ OwnInv

(* A header of which every entry has been written and read has only        *)
(* entries that a file can hold, and is a header again.                    *)
LEMMA ReadHeader ==
  ASSUME NEW h, IsHeader(h), NEW kws \in Seq(KeywordRecord),
         NEW props, props \in [DOMAIN props -> PropertyRecord],
         HasRead(h, Len(h.keywords) + Len(Ids(h)) + 5, kws, props)
  PROVE  LET r == [keywords |-> kws, properties |-> props]
         IN  /\ IsHeader(r) /\ IsStorableHeader(r)
             /\ r = h <=> IsStorableHeader(h)
<1> DEFINE r == [keywords |-> kws, properties |-> props]
           K == Len(h.keywords)
           P == Len(Ids(h))
<1>1. /\ K \in Nat /\ P \in Nat
      /\ KeywordsAmong(h, K + P + 5) = K /\ PropertiesAmong(h, K + P + 5) = P
  <2>1. K \in Nat /\ P \in Nat
    BY HeaderShape, IdsShape
  <2>2. QED
    BY <2>1, Among
<1>2. /\ Len(kws) = K /\ DOMAIN kws = 1 .. K
      /\ \A i \in 1 .. K: kws[i] = Reread(h.keywords[i])
      /\ \A j \in 1 .. P: Normalized(Ids(h)[j]) \in DOMAIN props
      /\ \A x \in DOMAIN props: \E j \in 1 .. P:
           x = Normalized(Ids(h)[j]) /\ props[x] = RereadProperty(Ids(h)[j], h.properties[Ids(h)[j]])
  <2>1. Len(kws) = K
    BY <1>1 DEF HasRead
  <2>2. DOMAIN kws = 1 .. K
    BY <2>1
  <2>3. QED
    BY <1>1, <2>1, <2>2 DEF HasRead
<1>3. /\ h = [keywords |-> h.keywords, properties |-> h.properties]
      /\ h.keywords \in Seq(KeywordRecord) /\ DOMAIN h.keywords = 1 .. K
      /\ \A i \in 1 .. K: h.keywords[i] \in KeywordRecord /\ h.keywords[i].name # << >>
  BY HeaderShape
<1>4. /\ DOMAIN h.properties = {Ids(h)[j]: j \in 1 .. P}
      /\ h.properties \in [DOMAIN h.properties -> PropertyRecord]
      /\ \A j \in 1 .. P: /\ Ids(h)[j] \in DOMAIN h.properties /\ Ids(h)[j] \in Text
                          /\ Normalized(Ids(h)[j]) \in PropertyIds
                          /\ h.properties[Ids(h)[j]] \in PropertyRecord
  BY IdsShape DEF Range, IsHeader
<1>5. r.keywords = kws /\ r.properties = props
  OBVIOUS
<1> HIDE DEF K, P, r
<1>6. IsHeader(r)
  <2>1. \A i \in 1 .. K: kws[i].name # << >>
    BY <1>2, <1>3, KeywordSettles
  <2>2. DOMAIN props \subseteq PropertyIds
    BY <1>2, <1>4
  <2>3. r = [keywords |-> r.keywords, properties |-> r.properties]
    BY DEF r
  <2>4. QED
    BY <1>2, <1>5, <2>1, <2>2, <2>3 DEF IsHeader
<1>7. IsStorableHeader(r)
  <2>1. \A i \in 1 .. K: IsStorable(kws[i])
    BY <1>2, <1>3, KeywordSettles
  <2>2. \A x \in DOMAIN props: Smooth(x) /\ IsStorableProperty(props[x])
    BY <1>2, <1>4, NormalizedText, PropertyRoundTrip
  <2>3. QED
    BY <1>2, <1>5, <2>1, <2>2 DEF IsStorableHeader
<1>8. ASSUME IsStorableHeader(h) PROVE r = h
  <2>1. kws = h.keywords
    <3>1. \A i \in 1 .. K: kws[i] = h.keywords[i]
      BY <1>2, <1>3, <1>8, KeywordRoundTrip DEF IsStorableHeader
    <3>2. QED
      BY <1>2, <1>3, <3>1
  <2>2. \A j \in 1 .. P: /\ Normalized(Ids(h)[j]) = Ids(h)[j]
                        /\ RereadProperty(Ids(h)[j], h.properties[Ids(h)[j]]) = h.properties[Ids(h)[j]]
    BY <1>4, <1>8, NormalizedText, PropertyRoundTrip DEF IsStorableHeader
  <2>3. DOMAIN props = DOMAIN h.properties
    <3>1. \A x \in DOMAIN props: x \in DOMAIN h.properties
      BY <1>2, <1>4, <2>2
    <3>2. \A x \in DOMAIN h.properties: x \in DOMAIN props
      BY <1>2, <1>4, <2>2
    <3>3. QED
      BY <3>1, <3>2
  <2>4. \A x \in DOMAIN props: props[x] = h.properties[x]
    BY <1>2, <2>2
  <2>5. props = h.properties
    BY <1>4, <2>3, <2>4
  <2>6. QED
    BY <1>3, <2>1, <2>5 DEF r
<1>9. QED
  BY <1>6, <1>7, <1>8 DEF r

(* Every step keeps what is known of the writer's own documents. *)
LEMMA OwnStep ==
  ASSUME IInv, TypeOK', Next
  PROVE  OwnInv'
<1> USE DEF Own
<1>1. cycles \in Nat
  BY ForeignAssumption DEF IInv, TypeOK
<1>2. CASE ToHeaderBytes \/ WriteToFile
  <2>1. CASE \E size, data: phase = "memory" /\ WriteAs(size, data)
    <3>1. PICK size, data: phase = "memory" /\ WriteAs(size, data)
      BY <2>1
    <3>2. /\ cycles' = cycles + 1 /\ phase' = "written" /\ memory' = memory
          /\ written' = Document(memory, hints,
                         LocationAt(Preamble + XmlLength(Document(memory, hints, NoLocation), size, OffsetWidth), size))
      BY <3>1 DEF WriteAs, Render
    <3>3. cycles' >= 2 => cycles >= 1 /\ phase = "memory"
      BY <1>1, <3>1, <3>2
    <3>4. \E hint, location: written' = Document(memory', hint, location)
      BY <3>2, Zenon
    <3>5. IsStorableHeader(memory) => IsStorableHeader(memory)'
      BY <3>2 DEF IsStorableHeader
    <3>6. IsHeader(memory) => IsHeader(memory)'
      BY <3>2 DEF IsHeader
    <3>7. QED
      BY <3>2, <3>3, <3>4, <3>5, <3>6 DEF OwnInv, IInv
  <2>2. CASE phase = "memory" /\ phase' = "panic" /\ UNCHANGED <<readerVars, rtVars>>
    BY <2>2 DEF OwnInv, IInv, rtVars, readerVars, IsHeader, IsStorableHeader
  <2>3. QED
    BY <1>2, <2>1, <2>2 DEF ToHeaderBytes, WriteToFile
<1>3. CASE Parse \/ ReadFromFile
  <2>1. /\ phase = "written" /\ memory' = memory /\ written' = written /\ cycles' = cycles
        /\ \/ phase' = "reading" /\ StartReading
           \/ phase' = "error"
    BY <1>3 DEF Parse, ReadFromFile, Open
  <2>2. CASE phase' = "reading" /\ StartReading
    <3>1. /\ events' = << >> /\ keywords' = << >> /\ DOMAIN properties' = {}
          /\ Len(events') = 0 /\ Len(keywords') = 0
      BY <2>2 DEF StartReading
    <3>2. KeywordsAmong(memory, 0) = 0 /\ PropertiesAmong(memory, 0) = 0
      BY Among DEF OwnInv, IInv
    <3>3. HasRead(memory, Len(events'), keywords', properties')
      BY <3>1, <3>2 DEF HasRead
    <3>4. QED
      BY <2>1, <2>2, <3>3 DEF OwnInv, IInv, IsHeader, IsStorableHeader
  <2>3. CASE phase' = "error"
    BY <2>1, <2>3 DEF OwnInv, IInv, IsHeader, IsStorableHeader
  <2>4. QED
    BY <2>1, <2>2, <2>3
<1>4. CASE ReadOwn
  <2>1. /\ cycles > 0 /\ Len(events) < Len(written) /\ ReadEvent(written[Len(events) + 1])
        /\ UNCHANGED <<memory, written, cycles>>
    BY <1>4 DEF ReadOwn, Here, rtVars
  <2>2. phase = "reading" /\ phase' \in {"reading", "error"}
    BY <2>1, EventEffect
  <2>3. CASE phase' = "error"
    BY <2>1, <2>3 DEF OwnInv, IInv, IsHeader, IsStorableHeader
  <2>4. CASE phase' = "reading"
    <3>1. PICK hint, location: written = Document(memory, hint, location)
      BY <2>1, <2>2 DEF OwnInv, IInv
    <3>2. PICK h: h = memory
      OBVIOUS
    <3>3. IsHeader(h) /\ HasRead(h, Len(events), keywords, properties) /\ TypeOK
      BY <2>1, <2>2, <3>2 DEF OwnInv, IInv
    <3>4. HasRead(h, Len(events'), keywords', properties')
      BY <2>1, <2>4, <3>1, <3>2, <3>3, DocumentStep
    <3>5. HasRead(memory', Len(events'), keywords', properties')
      BY <2>1, <3>2, <3>4
    <3>6. QED
      BY <2>1, <2>2, <2>4, <3>5 DEF OwnInv, IInv, IsHeader, IsStorableHeader
  <2>5. QED
    BY <2>2, <2>3, <2>4
<1>5. CASE ReadForeign
  <2>1. cycles = 0 /\ UNCHANGED <<memory, cycles>>
    BY <1>1, <1>5 DEF ReadForeign, rtVars
  <2>2. QED
    BY <2>1 DEF OwnInv, IInv, IsHeader, IsStorableHeader
<1>6. CASE Finish
  <2>1. /\ phase = "reading" /\ phase' = "done" /\ UNCHANGED <<readerVars, memory, written, cycles>>
        /\ Own => Len(events) = Len(written)
    BY <1>6 DEF Finish, EndOfInput, rtVars
  <2>2. QED
    BY <2>1 DEF OwnInv, IInv, IsHeader, IsStorableHeader, readerVars
<1>7. CASE Again
  <2>1. /\ phase = "done" /\ cycles > 0 /\ phase' = "memory" /\ cycles' = cycles
        /\ memory' = [keywords |-> keywords, properties |-> properties]
    BY <1>7 DEF Again
  <2>2. PICK hint, location: written = Document(memory, hint, location)
    BY <2>1 DEF OwnInv, IInv
  <2>3. /\ IsHeader(memory) /\ Len(events) = Len(written)
        /\ HasRead(memory, Len(events), keywords, properties)
    BY <2>1 DEF OwnInv, IInv
  <2>4. Len(events) = Len(memory.keywords) + Len(Ids(memory)) + 5
    BY <2>2, <2>3, DocumentShape
  <2>5. keywords \in Seq(KeywordRecord) /\ properties \in [DOMAIN properties -> PropertyRecord]
    BY DEF IInv, TypeOK
  <2>6. PICK r: r = [keywords |-> keywords, properties |-> properties]
    OBVIOUS
  <2>7. IsHeader(r) /\ IsStorableHeader(r)
    BY <2>3, <2>4, <2>5, <2>6, ReadHeader
  <2>8. IsHeader(memory') /\ IsStorableHeader(memory')
    BY <2>1, <2>6, <2>7
  <2>9. QED
    BY <2>1, <2>8 DEF OwnInv
<1>8. QED
  BY <1>2, <1>3, <1>4, <1>5, <1>6, <1>7 DEF Next

(* The types before anything is read. *)
LEMMA NothingReadType ==
  ASSUME phase \in {"memory", "written"}, NothingRead, cycles \in 0 .. MaxCycles
  PROVE  TypeOK
<1>1. /\ events \in Seq(Range(events)) /\ DOMAIN events = {} /\ Len(events) = 0
      /\ stack \in Seq(DOMAIN events)
      /\ keywords \in Seq(KeywordRecord) /\ keywordSpans \in Seq(DOMAIN events)
      /\ propertySpans \in Seq((DOMAIN events) \X (DOMAIN events))
  BY DEF NothingRead
<1>2. DOMAIN properties \subseteq Text /\ properties \in [DOMAIN properties -> PropertyRecord]
  BY DEF NothingRead
<1>3. open \in OpenProperties /\ ~open.isOpen
  BY ClosedType DEF NothingRead
<1>4. images \in 0 .. Len(events) /\ imageEnd \in 0 .. Len(events)
  BY <1>1 DEF NothingRead
<1>5. QED
  BY <1>1, <1>2, <1>3, <1>4 DEF TypeOK

(* A reader that starts has the declared types. *)
LEMMA Started ==
  ASSUME StartReading, phase' = "reading", cycles' \in 0 .. MaxCycles
  PROVE  TypeOK'
<1>1. /\ events' \in Seq(Range(events')) /\ DOMAIN events' = {} /\ Len(events') = 0
      /\ stack' \in Seq(DOMAIN events')
      /\ keywords' \in Seq(KeywordRecord) /\ keywordSpans' \in Seq(DOMAIN events')
      /\ propertySpans' \in Seq((DOMAIN events') \X (DOMAIN events'))
  BY DEF StartReading
<1>2. DOMAIN properties' \subseteq Text /\ properties' \in [DOMAIN properties' -> PropertyRecord]
  BY DEF StartReading
<1>3. open' \in OpenProperties /\ ~open'.isOpen
  BY ClosedType DEF StartReading
<1>4. images' \in 0 .. Len(events') /\ imageEnd' \in 0 .. Len(events')
  BY <1>1 DEF StartReading
<1>5. QED
  BY <1>1, <1>2, <1>3, <1>4 DEF TypeOK

(* The events that are read are events. *)
LEMMA WrittenEvents ==
  ASSUME NEW h, IsHeader(h), NEW hint, NEW location, NEW n \in 1 .. Len(Document(h, hint, location))
  PROVE  IsEvent(Document(h, hint, location)[n])
<1> DEFINE doc == Document(h, hint, location)
           K == Len(h.keywords)
           P == Len(Ids(h))
<1>1. /\ Len(doc) = K + P + 5
      /\ \A i \in 1 .. 3: IsEvent(doc[i])
      /\ \A i \in 1 .. K: doc[3 + i] = KeywordElement(h, i)
      /\ \A j \in 1 .. P: doc[3 + K + j] = PropertyElement(h, j)
      /\ \A i \in 4 + K + P .. 5 + K + P: IsEvent(doc[i])
  BY DocumentShape
<1>2. K \in Nat /\ P \in Nat
  BY HeaderShape, IdsShape
<1>3. n \in 1 .. K + P + 5
  BY <1>1
<1>4. /\ \A i \in 1 .. K: IsEvent(KeywordElement(h, i))
      /\ \A j \in 1 .. P: IsEvent(PropertyElement(h, j))
  BY ElementsAreEvents
<1> HIDE DEF doc, K, P
<1>5. CASE n \in 1 .. 3
  BY <1>1, <1>5 DEF doc
<1>6. CASE n \in 4 + K + P .. 5 + K + P
  BY <1>1, <1>6 DEF doc
<1>7. CASE n \in 4 .. 3 + K
  <2>1. n - 3 \in 1 .. K /\ 3 + (n - 3) = n
    BY <1>2, <1>7
  <2>2. QED
    BY <1>1, <1>4, <2>1 DEF doc
<1>8. CASE n \in 4 + K .. 3 + K + P
  <2>1. n - 3 - K \in 1 .. P /\ 3 + K + (n - 3 - K) = n
    BY <1>2, <1>8
  <2>2. QED
    BY <1>1, <1>4, <2>1 DEF doc
<1>9. QED
  BY <1>2, <1>3, <1>5, <1>6, <1>7, <1>8

(* Every step keeps the types and the count of cycles. *)
LEMMA TypeStep ==
  ASSUME IInv, [Next]_vars
  PROVE  TypeOK' /\ CycleInv'
<1> USE DEF Own
<1>1. TypeOK /\ cycles \in 0 .. MaxCycles /\ MaxCycles \in Nat \ {0}
  BY ForeignAssumption DEF IInv, TypeOK
<1>2. ASSUME UNCHANGED readerVars, cycles' \in 0 .. MaxCycles,
             phase' \in {"memory", "written", "reading", "done", "error", "panic"}
      PROVE  TypeOK'
  BY <1>1, <1>2 DEF TypeOK, readerVars
<1>3. CASE ToHeaderBytes \/ WriteToFile
  <2>1. UNCHANGED readerVars /\ phase = "memory" /\ (cycles' = cycles + 1 \/ cycles' = cycles)
          /\ phase' \in {"written", "panic"}
    BY <1>3 DEF ToHeaderBytes, WriteToFile, WriteAs, rtVars
  <2>2. cycles' \in 0 .. MaxCycles
    BY <1>1, <2>1 DEF IInv, CycleInv
  <2>3. QED
    BY <1>2, <2>1, <2>2 DEF CycleInv
<1>4. CASE Parse \/ ReadFromFile
  <2>1. /\ cycles' = cycles
        /\ \/ phase' = "reading" /\ StartReading
           \/ phase' = "error" /\ UNCHANGED readerVars
    BY <1>4 DEF Parse, ReadFromFile, Open
  <2>2. QED
    BY <1>1, <1>2, <2>1, Started DEF CycleInv
<1>5. ASSUME NEW e, IsEvent(e), ReadEvent(e), UNCHANGED cycles PROVE TypeOK' /\ CycleInv'
  <2>1. phase' # "memory"
    BY <1>5, EventEffect
  <2>2. QED
    BY <1>1, <1>5, <2>1, EventType DEF CycleInv
<1>6. CASE ReadOwn
  <2>1. /\ cycles > 0 /\ Len(events) < Len(written) /\ ReadEvent(written[Len(events) + 1])
        /\ UNCHANGED cycles
    BY <1>6 DEF ReadOwn, Here, rtVars
  <2>2. phase = "reading"
    BY <2>1, EventEffect
  <2>3. PICK hint, location: written = Document(memory, hint, location)
    BY <2>1, <2>2 DEF OwnInv, IInv
  <2>4. Len(events) + 1 \in 1 .. Len(written)
    <3>1. Len(events) \in Nat /\ IsHeader(memory)
      BY <1>1 DEF TypeOK, IInv, OwnInv
    <3>2. Len(written) \in Nat
      BY <2>3, <3>1, DocumentShape, HeaderShape, IdsShape
    <3>3. QED
      BY <2>1, <3>1, <3>2
  <2>5. IsEvent(written[Len(events) + 1])
    BY <2>3, <2>4, WrittenEvents DEF IInv, OwnInv
  <2>6. QED
    BY <1>5, <2>1, <2>5
<1>7. CASE ReadForeign
  BY <1>5, <1>7, ForeignAssumption DEF ReadForeign, rtVars
<1>8. CASE Finish
  BY <1>1, <1>2, <1>8 DEF Finish, EndOfInput, rtVars, CycleInv
<1>9. CASE Again
  BY <1>1, <1>2, <1>9 DEF Again, CycleInv
<1>10. CASE UNCHANGED vars
  BY <1>10 DEF IInv, TypeOK, CycleInv, vars, readerVars, rtVars
<1>11. QED
  BY <1>3, <1>4, <1>6, <1>7, <1>8, <1>9, <1>10 DEF Next

(* Every step keeps what the reader has collected. *)
LEMMA ReadStep ==
  ASSUME IInv, [Next]_vars
  PROVE  ReadInv'
<1>1. TypeOK /\ SpansNameKeywords /\ GeometryIsTheImages
  BY DEF IInv, ReadInv
<1>2. ASSUME UNCHANGED readerVars PROVE ReadInv'
  BY <1>1, <1>2 DEF ReadInv, SpansNameKeywords, GeometryIsTheImages, IsKeyword, IsImage, readerVars
<1>3. ASSUME NEW e, ReadEvent(e) PROVE ReadInv'
  BY <1>1, <1>3, SpansStep, GeometryStep DEF ReadInv
<1>4. ASSUME StartReading PROVE ReadInv'
  BY <1>4 DEF StartReading, ReadInv, SpansNameKeywords, GeometryIsTheImages
<1>5. CASE Parse \/ ReadFromFile
  BY <1>2, <1>4, <1>5 DEF Parse, ReadFromFile, Open
<1>6. CASE ReadOwn \/ ReadForeign
  BY <1>3, <1>6 DEF ReadOwn, ReadForeign
<1>7. CASE ToHeaderBytes \/ WriteToFile \/ Finish \/ Again \/ UNCHANGED vars
  BY <1>2, <1>7 DEF ToHeaderBytes, WriteToFile, WriteAs, Finish, EndOfInput, Again, vars
<1>8. QED
  BY <1>5, <1>6, <1>7 DEF Next

(* The invariant holds at first ... *)
LEMMA InitInv == Init => IInv
<1> SUFFICES ASSUME Init PROVE IInv
  OBVIOUS
<1>1. /\ phase \in {"memory", "written"} /\ NothingRead /\ cycles = 0
      /\ memory \in Headers \/ memory = [keywords |-> << >>, properties |-> [id \in {} |-> Closed.prop]]
  BY DEF Init, InitOwn, InitForeign
<1>2. MaxCycles \in Nat \ {0}
  BY ForeignAssumption
<1>3. TypeOK /\ CycleInv
  BY <1>1, <1>2, NothingReadType DEF CycleInv
<1>4. ReadInv
  BY <1>1 DEF NothingRead, ReadInv, SpansNameKeywords, GeometryIsTheImages
<1>5. IsHeader(memory)
  <2>1. CASE memory \in Headers
    BY <2>1, HeaderAssumption
  <2>2. CASE memory = [keywords |-> << >>, properties |-> [id \in {} |-> Closed.prop]]
    BY <2>2 DEF IsHeader
  <2>3. QED
    BY <1>1, <2>1, <2>2
<1>6. QED
  BY <1>1, <1>3, <1>4, <1>5 DEF IInv, OwnInv, Own

(* ... every step keeps it ... *)
LEMMA InvStep == IInv /\ [Next]_vars => IInv'
<1> SUFFICES ASSUME IInv, [Next]_vars PROVE IInv'
  OBVIOUS
<1>1. TypeOK' /\ CycleInv' /\ ReadInv'
  BY TypeStep, ReadStep
<1>2. CASE Next
  BY <1>1, <1>2, OwnStep DEF IInv
<1>3. CASE UNCHANGED vars
  <2>1. OwnInv'
    BY <1>3 DEF IInv, OwnInv, Own, IsHeader, IsStorableHeader, vars, readerVars, rtVars
  <2>2. QED
    BY <1>1, <2>1 DEF IInv
<1>4. QED
  BY <1>2, <1>3

(* ... so it always holds. *)
LEMMA Invariant == Spec => []IInv
  BY InitInv, InvStep, PTL DEF Spec

-------------------------------------------------------------------------------
(* Values *)

(* A product grows with its factors. *)
LEMMA Products ==
  /\ \A a, b, c \in Nat: a <= b => c * a <= c * b
  /\ \A a, b, c \in Nat: (2 * a) * b = a * (2 * b)
<1>1. \A a, b, c \in Nat: a <= b => c * a <= c * b
  OBVIOUS
<1>2. \A a, b, c \in Nat: (2 * a) * b = a * (2 * b)
  OBVIOUS
<1>3. QED
  BY <1>1, <1>2

(* The distance between floats as large as m. *)
Ulp(m) == CHOOSE u \in Steps: m < Significand * u /\ (u = 1 \/ m >= Significand * (u \div 2))

(* Among the steps there is the distance between floats of that size. *)
LEMMA UlpExists ==
  ASSUME NEW m \in Nat, \E u \in Steps: m < Significand * u
  PROVE  /\ Ulp(m) \in Steps /\ m < Significand * Ulp(m)
         /\ Ulp(m) = 1 \/ m >= Significand * (Ulp(m) \div 2)
<1> DEFINE S == {u \in Steps: m < Significand * u}
<1>1. S \in SUBSET Nat /\ S # {}
  BY FloatAssumption
<1>2. PICK u \in S: \A v \in S: u <= v
  BY <1>1, FirstExists
<1>3. u # 1 => u \div 2 \notin S
  <2>1. u \in Nat \ {0}
    BY FloatAssumption
  <2>2. \A k \in Nat \ {0}: ~(k <= k \div 2)
    OBVIOUS
  <2>3. QED
    BY <1>2, <2>1, <2>2
<1>4. u = 1 \/ m >= Significand * (u \div 2)
  <2>1. CASE u # 1
    <3>1. PICK h \in Nat: h = u \div 2
      BY FloatAssumption, <2>1
    <3>2. ~(m < Significand * h)
      BY <1>3, <2>1, <3>1, FloatAssumption
    <3>3. PICK s \in Nat: s = Significand * h
      BY <3>1, FloatAssumption
    <3>4. QED
      BY <3>1, <3>2, <3>3
  <2>2. QED
    BY <2>1
<1>5. QED
  BY <1>2, <1>4 DEF Ulp

(* Steps are powers of two. *)
LEMMA StepsDouble ==
  ASSUME NEW u \in Steps
  PROVE  /\ u \in Nat \ {0}
         /\ u \in {1, 2, 4} \/ (u % 2 = 0 /\ u \div 2 \in Nat /\ u \div 2 >= 4)
<1>1. \A v \in Steps: v \in Nat \ {0} /\ (v = 1 \/ (v % 2 = 0 /\ v \div 2 \in Steps))
  BY FloatAssumption
<1>2. \A v \in Steps: v = 1 \/ v >= 2
  BY <1>1
<1>3. \A v \in Steps: v \in {1, 2} \/ v >= 4
  <2>1. TAKE v \in Steps
  <2>2. CASE v # 1
    <3>1. PICK h \in Steps: h = v \div 2
      BY <1>1, <2>2
    <3>2. v = 2 * h /\ h \in Nat
      BY <1>1, <2>2, <3>1
    <3>3. QED
      BY <1>2, <3>1, <3>2
  <2>3. QED
    BY <2>2
<1>4. CASE u \notin {1, 2, 4}
  <2>1. PICK h \in Steps: h = u \div 2 /\ u % 2 = 0
    BY <1>1, <1>4
  <2>2. u = 2 * h /\ h \in Nat
    BY <1>1, <2>1
  <2>3. h >= 4
    BY <1>3, <1>4, <2>1, <2>2
  <2>4. QED
    BY <1>1, <2>1, <2>2, <2>3
<1>5. QED
  BY <1>1, <1>4

(* A float below 2^53 that is next to an integer is that integer. *)
LEMMA NearestInteger ==
  ASSUME NEW n \in Int, n % 4 = 0, \E u \in Steps: Abs(n) < Significand * u
  PROVE  /\ Nearest(n) \in Int
         /\ Abs(Nearest(n)) < 4 * Significand => Nearest(n) = n
<1> DEFINE m == Abs(n)
           u == Ulp(m)
           below == m \div u
           rest == m % u
           up == 2 * rest > u \/ (2 * rest = u /\ below % 2 = 1)
           nearest == u * (IF up THEN below + 1 ELSE below)
<1>1. m \in Nat /\ m % 4 = 0 /\ (n < 0 => n = -m) /\ (~(n < 0) => n = m)
  BY DEF Abs
<1>2. Nearest(n) = IF n < 0 THEN -nearest ELSE nearest
  BY DEF Nearest, Ulp
<1> HIDE DEF m
<1>3. u \in Steps /\ (u = 1 \/ m >= Significand * (u \div 2))
  BY <1>1, UlpExists DEF m
<1> HIDE DEF u
<1>4. u \in Nat \ {0} /\ (u \in {1, 2, 4} \/ (u % 2 = 0 /\ u \div 2 \in Nat /\ u \div 2 >= 4))
  BY <1>3, StepsDouble
<1>5. CASE u \in {1, 2, 4}
  <2>1. rest = 0 /\ u * below = m /\ below \in Nat
    BY <1>1, <1>5
  <2>2. ~up
    BY <1>5, <2>1
  <2>3. nearest = m
    BY <2>1, <2>2
  <2>4. QED
    BY <1>1, <1>2, <2>3
<1>6. CASE u \notin {1, 2, 4}
  <2>1. PICK h \in Nat: u = 2 * h /\ h >= 4 /\ h = u \div 2
    BY <1>4, <1>6
  <2>2. PICK s \in Nat: Significand = 2 * s
    BY FloatAssumption
  <2>3. m >= u * s
    <3>1. m >= Significand * h
      BY <1>3, <1>6, <2>1
    <3>2. Significand * h = u * s
      BY <2>1, <2>2
    <3>3. QED
      BY <3>1, <3>2
  <2>4. below \in Nat /\ below >= s
    <3>1. \A a, b, c \in Nat: b > 0 /\ a >= b * c => a \div b \in Nat /\ a \div b >= c
      OBVIOUS
    <3>2. QED
      BY <1>1, <1>4, <2>2, <2>3, <3>1
  <2> HIDE DEF below, rest
  <2>5. PICK k \in Nat: nearest = u * k /\ k >= s
    <3>1. CASE up
      BY <2>2, <2>4, <3>1
    <3>2. CASE ~up
      BY <2>4, <3>2
    <3>3. QED
      BY <3>1, <3>2
  <2> HIDE DEF nearest
  <2>6. nearest \in Nat /\ nearest >= u * s
    BY <1>4, <2>2, <2>5, Products
  <2>7. u * s >= 4 * Significand
    BY <2>1, <2>2
  <2>8. Abs(Nearest(n)) = nearest /\ Nearest(n) \in Int
    BY <1>2, <2>6 DEF Abs
  <2>9. u * s \in Nat /\ Significand \in Nat
    BY <1>4, <2>2
  <2>10. QED
    BY <2>6, <2>7, <2>8, <2>9
<1>7. QED
  BY <1>5, <1>6

(* A text that denotes an integer is read as that integer or not at all. *)
LEMMA IntegerText ==
  ASSUME NEW text, IsNumber(Trimmed(text)), NumberOf(Trimmed(text)).quarters % 4 = 0
  PROVE  LET n == NumberOf(Trimmed(text)).quarters
         IN  /\ n \in Int /\ FieldI64(text) \in {None, Some(n \div 4)}
             /\ IsI64(Trimmed(text)) => FieldI64(text).some
<1> DEFINE t == Trimmed(text)
           n == NumberOf(t).quarters
           float == FieldF64(text)
<1>1. n \in Int /\ n % 4 = 0 /\ \E u \in Steps: Abs(n) < Significand * u
  <2>1. t[1] \in DOMAIN Number
    BY DEF IsNumber
  <2>2. Number[t[1]].quarters \in Int /\ \E u \in Steps: Abs(Number[t[1]].quarters) < Significand * u
    BY <2>1, ValueAssumption, FloatAssumption
  <2>3. QED
    BY <2>2 DEF NumberOf
<1>2. float = Some(Nearest(n))
  BY DEF FieldF64
<1>3. float.is = Nearest(n) /\ float.some
  BY <1>2 DEF Some
<1>4. FieldI64(text) = IF IsI64(t) THEN Some(n \div 4)
                       ELSE IF float.some /\ float.is % 4 = 0 /\ Abs(float.is) < 4 * Significand
                       THEN Some(float.is \div 4) ELSE None
  BY DEF FieldI64
<1>5. Some(n \div 4).some
  BY DEF Some
<1> HIDE DEF n, t, float
<1>6. Abs(Nearest(n)) < 4 * Significand => Nearest(n) = n
  BY <1>1, NearestInteger
<1>7. FieldI64(text) \in {None, Some(n \div 4)}
  BY <1>3, <1>4, <1>6
<1>8. IsI64(t) => FieldI64(text).some
  BY <1>4, <1>5
<1>9. QED
  BY <1>1, <1>7, <1>8 DEF n, t

(* A word is written and read without change. *)
LEMMA PlainValue ==
  ASSUME NEW kw \in KeywordRecord, NEW w \in Tokens \ {Quote, Space, Break},
         kw.value = Literal(<<w>>)
  PROVE  Reread(kw).value.text = <<w>>
<1>1. <<w>> \in Text /\ Len(<<w>>) = 1 /\ <<w>> # << >> /\ DOMAIN <<w>> = {1} /\ <<w>>[1] = w
  BY DEF Text
<1>2. Smooth(<<w>>) /\ ~IsQuoted(<<w>>) /\ Normalized(<<w>>) = <<w>>
  <2>1. Smooth(<<w>>) /\ ~IsQuoted(<<w>>)
    BY <1>1 DEF Smooth, IsQuoted
  <2>2. QED
    BY <1>1, <2>1, NormalizedText
<1>3. kw.value.text = <<w>> /\ kw.value \in Value
  BY KeywordShape DEF Literal
<1>4. IsCommentary(Normalized(kw.name)) <=> IsCommentary(kw.name)
  BY KeywordShape, NormalizedIsCommentary
<1>5. CASE ~IsCommentary(kw.name)
  <2>1. Reread(kw).value = ClassifyValue(Normalized(RenderedValue(kw.value)))
    BY <1>4, <1>5, KeywordAttrs DEF Reread, ParseKeyword
  <2>2. ClassifyValue(Normalized(RenderedValue(kw.value))) = kw.value
    BY <1>2, <1>3, ClassifiedValue
  <2>3. QED
    BY <1>3, <2>1, <2>2
<1>6. CASE IsCommentary(kw.name)
  <2>1. Reread(kw).value = Str(<<w>>)
    BY <1>1, <1>2, <1>3, <1>4, <1>6, KeywordAttrs DEF Reread, ParseKeyword
  <2>2. QED
    BY <2>1 DEF Str
<1>7. QED
  BY <1>5, <1>6

(* Nothing is trimmed off a word. *)
LEMMA TrimmedWord ==
  ASSUME NEW w \in Tokens \ {Quote, Space, Break}
  PROVE  Trimmed(<<w>>) = <<w>>
<1> DEFINE full == {i \in DOMAIN <<w>>: <<w>>[i] \notin {Space, Break}}
           first == CHOOSE i \in full: \A j \in full: i <= j
           last == CHOOSE i \in full: \A j \in full: j <= i
<1>1. full = {1}
  <2>1. DOMAIN <<w>> = {1} /\ <<w>>[1] = w /\ w \notin {Space, Break}
    OBVIOUS
  <2>2. \A i \in full: i = 1
    BY <2>1
  <2>3. 1 \in full
    BY <2>1
  <2> HIDE DEF full
  <2>4. QED
    BY <2>2, <2>3
<1>2. Trimmed(<<w>>) = IF full = {} THEN << >> ELSE SubSeq(<<w>>, first, last)
  BY DEF Trimmed
<1> HIDE DEF full
<1>3. first = 1 /\ last = 1
  BY <1>1
<1>4. SubSeq(<<w>>, 1, 1) = <<w>>
  <2>1. <<w>> \in Text /\ Len(<<w>>) = 1
    BY DEF Text
  <2>2. PICK s: s = SubSeq(<<w>>, 1, 1)
    OBVIOUS
  <2>3. s \in Text /\ Len(s) = 1 /\ s[1] = w
    BY <2>1, <2>2 DEF Text
  <2>4. /\ Len(<<w>>) = Len(s) /\ <<w>>[1] = w
        /\ \A i \in 1 .. Len(s): i = 1
    BY <2>3
  <2>5. \A i \in 1 .. Len(s): s[i] = <<w>>[i]
    BY <2>3, <2>4
  <2>6. s = <<w>>
    BY <2>1, <2>3, <2>4, <2>5, SameText
  <2>7. QED
    BY <2>2, <2>6
<1> HIDE DEF first, last
<1>5. QED
  BY <1>1, <1>2, <1>3, <1>4

(* A value of a Rust type is printed as one word, which reads as the value. *)
LEMMA TypedText ==
  ASSUME NEW v \in Typed
  PROVE  \E w \in Tokens \ {Quote, Space, Break}:
           IntoValue(v.type, v.is) = Literal(<<w>>) /\ Field(v.type, <<w>>) = Some(v.is)
<1> DEFINE Words == Tokens \ {Quote, Space, Break}
<1>1. IsTyped(v) /\ v.type \in {"i64", "u32", "f64", "bool"}
  BY TypedAssumption
<1>2. ASSUME NEW q, NEW p, IsPrinted(q, p)
      PROVE  LET w == Printed(q, p)
             IN  /\ w \in Words /\ Trimmed(<<w>>) = <<w>> /\ IsNumber(<<w>>)
                 /\ NumberOf(<<w>>).quarters = q /\ NumberOf(<<w>>).pointed = p
  <2> DEFINE w == Printed(q, p)
  <2>1. w \in DOMAIN Number /\ Number[w] = [quarters |-> q, pointed |-> p]
    BY <1>2 DEF IsPrinted, Printed
  <2> HIDE DEF w
  <2>2. w \in Words
    BY <2>1, ValueAssumption
  <2>3. <<w>>[1] = w /\ Len(<<w>>) = 1
    OBVIOUS
  <2>4. QED
    BY <2>1, <2>2, <2>3, TrimmedWord DEF w, IsNumber, NumberOf
<1>3. ASSUME NEW n \in -(MaxI64 + 1) .. MaxI64, IsPrinted(4 * n, FALSE)
      PROVE  LET w == Printed(4 * n, FALSE) IN w \in Words /\ FieldI64(<<w>>) = Some(n)
  <2> DEFINE w == Printed(4 * n, FALSE)
  <2>1. /\ w \in Words /\ Trimmed(<<w>>) = <<w>> /\ IsNumber(<<w>>)
        /\ NumberOf(<<w>>).quarters = 4 * n /\ NumberOf(<<w>>).pointed = FALSE
    BY <1>2, <1>3
  <2> HIDE DEF w
  <2>2. 4 * n \in -4 * (MaxI64 + 1) .. 4 * MaxI64 /\ (4 * n) \div 4 = n
    BY ValueAssumption
  <2>3. IsI64(<<w>>)
    BY <2>1, <2>2 DEF IsI64
  <2>4. FieldI64(<<w>>) = Some(n)
    BY <2>1, <2>2, <2>3 DEF FieldI64
  <2>5. QED
    BY <2>1, <2>4 DEF w
<1>4. CASE v.type = "i64"
  <2>1. v.is \in -(MaxI64 + 1) .. MaxI64 /\ IsPrinted(4 * v.is, FALSE)
    BY <1>1, <1>4 DEF IsTyped
  <2>2. IntoValue(v.type, v.is) = Literal(<<Printed(4 * v.is, FALSE)>>)
    BY <1>4 DEF IntoValue
  <2>3. \A text: Field(v.type, text) = FieldI64(text)
    BY <1>4 DEF Field
  <2>4. QED
    BY <1>3, <2>1, <2>2, <2>3
<1>5. CASE v.type = "u32"
  <2>1. v.is \in 0 .. MaxU32 /\ IsPrinted(4 * v.is, FALSE)
    BY <1>1, <1>5 DEF IsTyped
  <2>2. IntoValue(v.type, v.is) = Literal(<<Printed(4 * v.is, FALSE)>>)
    BY <1>5 DEF IntoValue
  <2>3. \A text: Field(v.type, text) = FieldU32(text)
    BY <1>5 DEF Field
  <2>4. v.is \in -(MaxI64 + 1) .. MaxI64
    BY <2>1, ValueAssumption, GeometryAssumption
  <2>5. Some(v.is).some /\ Some(v.is).is = v.is
    BY DEF Some
  <2>6. \A text: FieldI64(text) = Some(v.is) => FieldU32(text) = Some(v.is)
    BY <2>1, <2>5 DEF FieldU32
  <2>7. QED
    BY <1>3, <2>1, <2>2, <2>3, <2>4, <2>6
<1>6. CASE v.type = "f64"
  <2>1. Nearest(v.is) = v.is /\ IsPrinted(v.is, TRUE)
    BY <1>1, <1>6 DEF IsTyped
  <2>2. IntoValue(v.type, v.is) = Literal(<<Printed(v.is, TRUE)>>)
    BY <1>6 DEF IntoValue
  <2>3. \A text: Field(v.type, text) = FieldF64(text)
    BY <1>6 DEF Field
  <2> DEFINE w == Printed(v.is, TRUE)
  <2>4. w \in Words /\ Trimmed(<<w>>) = <<w>> /\ IsNumber(<<w>>) /\ NumberOf(<<w>>).quarters = v.is
    BY <1>2, <2>1
  <2> HIDE DEF w
  <2>5. FieldF64(<<w>>) = Some(v.is)
    BY <2>1, <2>4 DEF FieldF64
  <2>6. QED
    BY <2>2, <2>3, <2>4, <2>5 DEF w
<1>7. CASE v.type = "bool"
  <2> DEFINE w == IF v.is = 1 THEN "T" ELSE "F"
  <2>1. v.is \in {0, 1}
    BY <1>1, <1>7 DEF IsTyped
  <2>2. IntoValue(v.type, v.is) = Literal(<<w>>)
    BY <1>7 DEF IntoValue
  <2>3. w \in Words
    <3>1. DOMAIN Number \cup TrueWords \cup FalseWords \subseteq Words
      BY ValueAssumption
    <3>2. "T" \in TrueWords /\ "F" \in FalseWords
      BY ValueAssumption
    <3> HIDE DEF Words
    <3>3. TrueWords \subseteq Words /\ FalseWords \subseteq Words
      BY <3>1, Zenon
    <3>4. QED
      BY <3>2, <3>3
  <2>4. \A text: Field(v.type, text) = FieldBool(text)
    BY <1>7 DEF Field
  <2>5. v.is = 1 => w \in TrueWords
    BY ValueAssumption
  <2>6. v.is = 0 => w \in FalseWords /\ w \notin TrueWords
    BY ValueAssumption
  <2> HIDE DEF w
  <2>7. Trimmed(<<w>>) = <<w>> /\ Len(<<w>>) = 1 /\ <<w>>[1] = w
    BY <2>3, TrimmedWord
  <2>8. FieldBool(<<w>>) = Some(v.is)
    BY <2>1, <2>5, <2>6, <2>7 DEF FieldBool
  <2>9. QED
    BY <2>2, <2>3, <2>4, <2>8
<1>8. QED
  BY <1>1, <1>4, <1>5, <1>6, <1>7

-------------------------------------------------------------------------------
(* The theorems *)

(* Whatever is read, the reader's state keeps its type. *)
THEOREM TypeCorrect == Spec => []TypeOK
<1>1. IInv => TypeOK
  BY DEF IInv
<1>2. QED
  BY <1>1, Invariant, PTL

(* In any file, each keyword goes with the tag it was read from. *)
THEOREM SpansAligned == Spec => []SpansNameKeywords
<1>1. IInv => SpansNameKeywords
  BY DEF IInv, ReadInv
<1>2. QED
  BY <1>1, Invariant, PTL

(* In any file, the geometry is that of the only image. *)
THEOREM GeometryCorrect == Spec => []GeometryIsTheImages
<1>1. IInv => GeometryIsTheImages
  BY DEF IInv, ReadInv
<1>2. QED
  BY <1>1, Invariant, PTL

(* What reading one of the writer's own documents to its end gives. *)
LEMMA DoneOwn ==
  ASSUME IInv, phase = "done", Own
  PROVE  /\ HeaderRead = memory <=> IsStorableHeader(memory)
         /\ cycles >= 2 => HeaderRead = memory
<1>1. PICK hint, location: written = Document(memory, hint, location)
  BY DEF IInv, OwnInv
<1>2. /\ IsHeader(memory) /\ Len(events) = Len(written)
      /\ HasRead(memory, Len(events), keywords, properties)
  BY DEF IInv, OwnInv
<1>3. Len(events) = Len(memory.keywords) + Len(Ids(memory)) + 5
  BY <1>1, <1>2, DocumentShape
<1>4. keywords \in Seq(KeywordRecord) /\ properties \in [DOMAIN properties -> PropertyRecord]
  BY DEF IInv, TypeOK
<1>5. HeaderRead = memory <=> IsStorableHeader(memory)
  BY <1>2, <1>3, <1>4, ReadHeader DEF HeaderRead
<1>6. QED
  BY <1>5 DEF IInv, OwnInv

(* Any header that the crate writes comes back as it was if, and only if,  *)
(* each of its entries is storable.                                        *)
THEOREM RoundTripExact == Spec => []RoundTripsExactly
<1>1. IInv => RoundTripsExactly
  BY DoneOwn DEF RoundTripsExactly
<1>2. QED
  BY <1>1, Invariant, PTL

(* What has been written and read once is written and read without change. *)
THEOREM Settled == Spec => []SettlesAfterOneCycle
<1>1. IInv => SettlesAfterOneCycle
  <2> SUFFICES ASSUME IInv, phase = "done", cycles >= 2 PROVE HeaderRead = memory
    BY DEF SettlesAfterOneCycle
  <2>1. Own
    BY DEF IInv, TypeOK, Own
  <2>2. QED
    BY <2>1, DoneOwn
<1>2. QED
  BY <1>1, Invariant, PTL

(* Whatever texts the keywords of a file hold, a text that denotes an      *)
(* integer is read as no other integer (lenient_int), at any precision     *)
(* that floats may have.                                                   *)
THEOREM IntegersRead == Spec => []IntegersReadExactly
<1>1. ASSUME NEW text, IsNumber(Trimmed(text)), NumberOf(Trimmed(text)).quarters % 4 = 0
      PROVE  LET n == NumberOf(Trimmed(text)).quarters
             IN  /\ FieldI64(text) \in {None, Some(n \div 4)}
                 /\ IsI64(Trimmed(text)) => FieldI64(text).some
                 /\ FieldU32(text) \in {None, Some(n \div 4)}
                 /\ FieldU32(text).some => n \div 4 \in 0 .. MaxU32
  <2> DEFINE n == NumberOf(Trimmed(text)).quarters
  <2>1. /\ n \in Int /\ FieldI64(text) \in {None, Some(n \div 4)}
        /\ IsI64(Trimmed(text)) => FieldI64(text).some
    BY <1>1, IntegerText
  <2>2. ~None.some /\ Some(n \div 4).is = n \div 4
    BY DEF None, Some
  <2> HIDE DEF n
  <2>3. FieldU32(text) \in {None, Some(n \div 4)} /\ (FieldU32(text).some => n \div 4 \in 0 .. MaxU32)
    BY <2>1, <2>2 DEF FieldU32
  <2>4. QED
    BY <2>1, <2>3 DEF n
<1>2. IntegersReadExactly
  BY <1>1 DEF IntegersReadExactly
<1>3. QED
  BY <1>2, PTL

(* A keyword set to a Rust value has that value after the file has been    *)
(* written and read, any number of times (IntoValue, FromField).           *)
THEOREM TypedValues == Spec => []TypedSurvives
<1>1. IInv => TypedSurvives
  <2> SUFFICES ASSUME IInv, phase = "done", Own,
                      NEW i \in DOMAIN memory.keywords, NEW v \in Typed,
                      memory.keywords[i].value = IntoValue(v.type, v.is)
               PROVE  Field(v.type, keywords[i].value.text) = Some(v.is)
    BY DEF TypedSurvives
  <2>1. PICK hint, location: written = Document(memory, hint, location)
    BY DEF IInv, OwnInv
  <2>2. /\ IsHeader(memory) /\ Len(events) = Len(written)
        /\ HasRead(memory, Len(events), keywords, properties)
    BY DEF IInv, OwnInv
  <2> DEFINE K == Len(memory.keywords)
             P == Len(Ids(memory))
             kw == memory.keywords[i]
  <2>3. /\ Len(events) = K + P + 5 /\ K \in Nat /\ P \in Nat
        /\ i \in 1 .. K /\ kw \in KeywordRecord
    BY <2>1, <2>2, DocumentShape, HeaderShape, IdsShape
  <2>4. KeywordsAmong(memory, K + P + 5) = K
    <3>1. K + P + 5 \in Nat
      BY <2>3
    <3>2. QED
      BY <2>2, <3>1, Among
  <2>5. keywords[i] = Reread(kw)
    BY <2>2, <2>3, <2>4 DEF HasRead
  <2>6. PICK w \in Tokens \ {Quote, Space, Break}:
          IntoValue(v.type, v.is) = Literal(<<w>>) /\ Field(v.type, <<w>>) = Some(v.is)
    BY TypedText
  <2>7. Reread(kw).value.text = <<w>>
    BY <2>3, <2>6, PlainValue
  <2>8. QED
    BY <2>5, <2>6, <2>7
<1>2. QED
  BY <1>1, Invariant, PTL
===============================================================================
