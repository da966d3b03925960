------------------------------ MODULE ReaderProofs ------------------------------
(***************************************************************************)
(* Theorems about what the event loop of HeaderRoundTrip collects from any *)
(* document, its locations and its properties, nested ones included, and   *)
(* about the documents that the crate itself writes: that it can read      *)
(* them, that they lead to the data, and that the size of the data is the  *)
(* image's.                                                                *)
(***************************************************************************)
EXTENDS HeaderRoundTripProofs

-------------------------------------------------------------------------------
(* Steps of the reader *)

(* Whatever the step, the reader is left alone, starts, or reads an event. *)
LEMMA StepKinds ==
  ASSUME IInv, [Next]_vars
  PROVE  \/ UNCHANGED readerVars
         \/ StartReading
         \/ \E e: ReadEvent(e)
<1>1. CASE Parse \/ ReadFromFile
  BY <1>1 DEF Parse, ReadFromFile, Open
<1>2. CASE ReadOwn \/ ReadForeign
  BY <1>2 DEF ReadOwn, ReadForeign
<1>3. CASE ToHeaderBytes \/ WriteToFile \/ Finish \/ Again \/ UNCHANGED vars
  BY <1>3 DEF ToHeaderBytes, WriteToFile, WriteAs, Finish, EndOfInput, Again, vars
<1>4. QED
  BY <1>1, <1>2, <1>3 DEF Next

(* An event that is counted is an event. *)
LEMMA CountedEvent ==
  ASSUME TypeOK, TypeOK', NEW e, events' = Append(events, e)
  PROVE  IsEvent(e)
<1>1. Len(events) + 1 \in DOMAIN events' /\ events'[Len(events) + 1] = e
  BY Counted
<1>2. \A n \in DOMAIN events': IsEvent(events'[n])
  BY DEF TypeOK
<1>3. QED
  BY <1>1, <1>2

-------------------------------------------------------------------------------
(* Locations *)

(* What event n is recorded as. *)
Record(e, n) ==
  IF IsTag(e) /\ e.tag # "FITSKeyword"
  THEN {[event |-> n, attr |-> i, isImage |-> e.tag = "Image", is |-> e.attrs[i].location]:
          i \in {k \in Scanned(e.attrs): e.attrs[k].location.form \in {"attachment", "malformed"}}}
  ELSE {}

(* Every event so far is recorded as what it is, and nothing else is. *)
LocationsInv ==
  /\ IsSequence(locations)
  /\ \A l \in Range(locations): l.event \in DOMAIN events
  /\ \A n \in DOMAIN events: {l \in Range(locations): l.event = n} = Record(events[n], n)

(* A sequence that is continued by nothing, or by one element. *)
LEMMA JoinedRange ==
  ASSUME NEW s, IsSequence(s), NEW r
  PROVE  /\ IsSequence(s \o << >>) /\ Range(s \o << >>) = Range(s)
         /\ IsSequence(s \o <<r>>) /\ Range(s \o <<r>>) = Range(s) \cup {r}
<1>1. PICK S: s \in Seq(S)
  BY DEF IsSequence
<1>2. s \o << >> = s /\ s \o <<r>> = Append(s, r)
  BY <1>1
<1>3. Append(s, r) \in Seq(S \cup {r})
  BY <1>1, Appended
<1>4. IsSequence(Append(s, r))
  BY <1>3, Zenon DEF IsSequence
<1>5. QED
  BY <1>1, <1>2, <1>4, RangeOfAppended

(* The first attribute that reads as a location is the only one scanned. *)
LEMMA RecordedLocation ==
  ASSUME NEW e, IsEvent(e), IsTag(e), e.tag # "FITSKeyword", RecordLocation(e), IsSequence(locations)
  PROVE  /\ IsSequence(locations')
         /\ Range(locations') = Range(locations) \cup Record(e, Here)
<1> DEFINE good(i) == e.attrs[i].location.form \in {"attachment", "malformed"}
           rec(i) == [event |-> Here, attr |-> i, isImage |-> e.tag = "Image", is |-> e.attrs[i].location]
<1>1. \A i, j \in Scanned(e.attrs): i = j
  <2>1. DOMAIN e.attrs \subseteq Int
    BY DEF IsEvent
  <2>2. QED
    BY <2>1 DEF Scanned
<1>2. CASE \E i \in Scanned(e.attrs): good(i)
  <2>1. PICK i \in Scanned(e.attrs): good(i)
    BY <1>2
  <2>2. (CHOOSE k \in Scanned(e.attrs): TRUE) = i
    BY <1>1
  <2>3. locations' = locations \o <<rec(i)>>
    BY <1>2, <2>2 DEF RecordLocation
  <2>4. Record(e, Here) = {rec(i)}
    BY <1>1, <2>1 DEF Record
  <2> HIDE DEF rec
  <2>5. QED
    BY <2>3, <2>4, JoinedRange
<1>3. CASE ~\E i \in Scanned(e.attrs): good(i)
  <2>1. locations' = locations \o << >>
    BY <1>3 DEF RecordLocation
  <2>2. Record(e, Here) = {}
    BY <1>3 DEF Record
  <2>3. QED
    BY <2>1, <2>2, JoinedRange
<1>4. QED
  BY <1>2, <1>3

(* Of any event, what it is to be recorded as is added to the locations.   *)
LEMMA LocationEffect ==
  ASSUME NEW e, IsEvent(e), ReadEvent(e), IsSequence(locations), events' = Append(events, e)
  PROVE  /\ IsSequence(locations')
         /\ Range(locations') = Range(locations) \cup Record(e, Here) \/ UNCHANGED readerVars
<1>1. ASSUME UNCHANGED locations, ~(IsTag(e) /\ e.tag # "FITSKeyword")
      PROVE  IsSequence(locations') /\ Range(locations') = Range(locations) \cup Record(e, Here)
  BY <1>1 DEF Record
<1>2. CASE ReadImage(e)
  BY <1>2, RecordedLocation DEF ReadImage, Tagged
<1>3. CASE ReadKeyword(e)
  BY <1>1, <1>3 DEF ReadKeyword, Tagged
<1>4. CASE ReadEmptyProperty(e)
  BY <1>4, RecordedLocation DEF ReadEmptyProperty, Tagged
<1>5. CASE OpenProperty(e)
  BY <1>5, RecordedLocation DEF OpenProperty, Tagged
<1>6. CASE ReadOtherTag(e)
  BY <1>6, RecordedLocation DEF ReadOtherTag
<1>7. CASE ReadText(e)
  BY <1>1, <1>7 DEF ReadText, IsTag
<1>8. CASE CloseProperty(e)
  BY <1>1, <1>8 DEF CloseProperty, IsTag
<1>9. CASE CloseImage(e)
  BY <1>1, <1>9 DEF CloseImage, IsTag
<1>10. CASE SkipEvent(e)
  BY <1>1, <1>10 DEF SkipEvent
<1>11. CASE RejectEvent(e)
  BY <1>11 DEF RejectEvent, readerVars
<1>12. QED
  BY <1>2, <1>3, <1>4, <1>5, <1>6, <1>7, <1>8, <1>9, <1>10, <1>11 DEF ReadEvent

(* Reading an event keeps the invariant. *)
LEMMA LocationsStep ==
  ASSUME TypeOK, TypeOK', LocationsInv, NEW e, ReadEvent(e)
  PROVE  LocationsInv'
<1> DEFINE N == Len(events)
<1>1. CASE UNCHANGED readerVars
  BY <1>1 DEF LocationsInv, readerVars
<1>2. CASE events' = Append(events, e) /\ ~UNCHANGED readerVars
  <2>1. /\ N \in Nat /\ DOMAIN events = 1 .. N /\ DOMAIN events' = 1 .. N + 1
        /\ events'[N + 1] = e
        /\ \A n \in 1 .. N: events'[n] = events[n] /\ n \in 1 .. N + 1 /\ n < N + 1
        /\ \A n \in 1 .. N + 1: n \in 1 .. N \/ n = N + 1
    BY <1>2, Counted
  <2>2. IsEvent(e)
    BY <1>2, CountedEvent
  <2>3. IsSequence(locations') /\ Range(locations') = Range(locations) \cup Record(e, N + 1)
    BY <1>2, <2>2, LocationEffect DEF LocationsInv, Here
  <2>4. \A l \in Record(e, N + 1): l.event = N + 1
    BY DEF Record
  <2>5. \A l \in Range(locations): l.event \in 1 .. N
    BY <2>1 DEF LocationsInv
  <2>6. \A l \in Range(locations'): l.event \in DOMAIN events'
    BY <2>1, <2>3, <2>4, <2>5
  <2>7. ASSUME NEW n \in DOMAIN events'
        PROVE  {l \in Range(locations'): l.event = n} = Record(events'[n], n)
    <3>1. CASE n \in 1 .. N
      <4>1. {l \in Range(locations'): l.event = n} = {l \in Range(locations): l.event = n}
        BY <2>1, <2>3, <2>4, <3>1
      <4>2. QED
        BY <2>1, <3>1, <4>1 DEF LocationsInv
    <3>2. CASE n = N + 1
      <4>1. {l \in Range(locations'): l.event = n} = Record(e, N + 1)
        BY <2>1, <2>3, <2>4, <2>5, <3>2
      <4>2. QED
        BY <2>1, <3>2, <4>1
    <3>3. QED
      BY <2>1, <3>1, <3>2
  <2>8. QED
    BY <2>3, <2>6, <2>7 DEF LocationsInv
<1>3. QED
  BY <1>1, <1>2, EventEffect

(* Unless another attribute looks alike, what is recorded is the location. *)
LEMMA RecordIsLocation ==
  ASSUME NEW n, IsEvent(events[n]), IsTag(events[n]), ~LooksAlike(n)
  PROVE  {l.is: l \in Record(events[n], n)}
           = IF events[n].tag = "FITSKeyword" THEN {} ELSE {events[n].attrs[i].location: i \in Located(n)}
<1> DEFINE attrs == events[n].attrs
           R == Reads(attrs)
<1>1. \A i \in R: attrs[i].key = "location" /\ R = {i}
  BY DEF LooksAlike
<1>2. Scanned(attrs) \subseteq R /\ Located(n) \subseteq R
  BY DEF Scanned, Reads, Located, Having
<1>3. \A i \in R: i \in Scanned(attrs)
  <2>1. DOMAIN attrs \subseteq Int
    BY DEF IsEvent
  <2>2. QED
    BY <1>1, <2>1 DEF Scanned, Reads
<1>4. \A i \in R: i \in Located(n) <=> attrs[i].location.form \in {"attachment", "malformed"}
  BY <1>1 DEF Located, Having, Reads
<1>5. Located(n) = {k \in Scanned(attrs): attrs[k].location.form \in {"attachment", "malformed"}}
  BY <1>2, <1>3, <1>4
<1>6. CASE events[n].tag # "FITSKeyword"
  <2> DEFINE L == Located(n)
             rec(i) == [event |-> n, attr |-> i, isImage |-> events[n].tag = "Image", is |-> attrs[i].location]
  <2>1. Record(events[n], n) = {rec(i): i \in L}
    BY <1>5, <1>6 DEF Record
  <2>2. \A i: rec(i).is = attrs[i].location
    OBVIOUS
  <2> HIDE DEF L, rec
  <2>3. {l.is: l \in {rec(i): i \in L}} = {attrs[i].location: i \in L}
    BY <2>2
  <2>4. QED
    BY <1>6, <2>1, <2>3 DEF L
<1>7. CASE events[n].tag = "FITSKeyword"
  BY <1>7 DEF Record
<1>8. QED
  BY <1>6, <1>7


-------------------------------------------------------------------------------
(* Contents *)

(* f[i] is the first i texts in a row, up to n. *)
RowUpTo(n, texts, f) ==
  f = [i \in 1 .. n |-> IF i = 1 THEN texts[i] ELSE f[i - 1] \o texts[i]]

(* However many texts there are, they can be put in a row. *)
LEMMA RowsExist ==
  ASSUME NEW m \in Nat, NEW texts
  PROVE  \E f: RowUpTo(m, texts, f)
<1> DEFINE T == {n \in Nat: ~\E f: RowUpTo(n, texts, f)}
<1>1. SUFFICES ASSUME T # {} PROVE FALSE
  OBVIOUS
<1>2. PICK n \in T: \A u \in T: n <= u
  BY <1>1, FirstExists
<1>3. CASE n = 0
  <2>1. RowUpTo(0, texts, [i \in 1 .. 0 |-> 0])
    BY DEF RowUpTo
  <2>2. QED
    BY <1>3, <2>1
<1>4. CASE n # 0
  <2>1. n - 1 \in Nat /\ n - 1 \notin T
    BY <1>2, <1>4
  <2>2. PICK f: RowUpTo(n - 1, texts, f)
    BY <2>1
  <2> DEFINE r == [i \in 1 .. n |-> IF i = 1 THEN texts[i] ELSE f[i - 1] \o texts[i]]
  <2>3. \A i \in 1 .. n - 1: r[i] = f[i]
    <3>1. \A i \in 1 .. n - 1: i \in 1 .. n
      BY <2>1
    <3>2. QED
      BY <2>2, <3>1 DEF RowUpTo
  <2>4. \A i \in 1 .. n: i # 1 => i - 1 \in 1 .. n - 1
    BY <2>1
  <2>5. \A i \in 1 .. n: i # 1 => f[i - 1] = r[i - 1]
    BY <2>3, <2>4
  <2>6. r = [i \in 1 .. n |-> IF i = 1 THEN texts[i] ELSE r[i - 1] \o texts[i]]
    BY <2>5
  <2>7. RowUpTo(n, texts, r)
    BY <2>6 DEF RowUpTo
  <2>8. QED
    BY <2>7
<1>5. QED
  BY <1>3, <1>4

(* FlattenSeq is the last of these rows. *)
LEMMA FlattenIsRow ==
  ASSUME NEW texts, Len(texts) \in Nat, Len(texts) # 0
  PROVE  \E f: RowUpTo(Len(texts), texts, f) /\ FlattenSeq(texts) = f[Len(texts)]
<1> DEFINE row == CHOOSE f: RowUpTo(Len(texts), texts, f)
<1>1. RowUpTo(Len(texts), texts, row)
  BY RowsExist
<1>2. FlattenSeq(texts) = row[Len(texts)]
  BY DEF FlattenSeq, RowUpTo
<1>3. QED
  BY <1>1, <1>2

(* Rows of texts that begin alike begin alike. *)
LEMMA RowsAgree ==
  ASSUME NEW m \in Nat, NEW n \in Nat, NEW s, NEW t, NEW f, NEW g, RowUpTo(m, s, f), RowUpTo(n, t, g),
         m <= n, \A i \in 1 .. m: s[i] = t[i], NEW k \in 1 .. m
  PROVE  f[k] = g[k]
<1> DEFINE T == {i \in 1 .. m: f[i] # g[i]}
<1>1. SUFFICES ASSUME T # {} PROVE FALSE
  OBVIOUS
<1>10. T \in SUBSET Nat
  OBVIOUS
<1>2. PICK i \in T: \A u \in T: i <= u
  BY <1>1, <1>10, FirstExists
<1>3. i \in 1 .. m /\ i \in 1 .. n /\ (i # 1 => i - 1 \in 1 .. m)
  BY <1>2
<1>4. /\ f[i] = IF i = 1 THEN s[i] ELSE f[i - 1] \o s[i]
      /\ g[i] = IF i = 1 THEN t[i] ELSE g[i - 1] \o t[i]
  BY <1>3 DEF RowUpTo
<1>5. i # 1 => i - 1 \notin T
  BY <1>2, <1>3
<1>6. i # 1 => f[i - 1] = g[i - 1]
  BY <1>3, <1>5
<1>7. s[i] = t[i]
  BY <1>3
<1>8. f[i] = g[i]
  BY <1>4, <1>6, <1>7
<1>9. QED
  BY <1>2, <1>8

(* Texts in a row are a text. *)
LEMMA FlattenedText ==
  ASSUME NEW n \in Nat, NEW s \in [1 .. n -> Text]
  PROVE  FlattenSeq(s) \in Text /\ (n = 0 => FlattenSeq(s) = << >>)
<1>1. Len(s) = n
  BY Listed
<1>2. CASE n = 0
  <2>1. s = << >>
    BY <1>1, <1>2
  <2>2. QED
    BY <1>2, <2>1, EmptyText DEF FlattenSeq
<1>3. CASE n # 0
  <2>1. PICK f: RowUpTo(n, s, f) /\ FlattenSeq(s) = f[n]
    BY <1>1, <1>3, FlattenIsRow
  <2> DEFINE T == {i \in 1 .. n: f[i] \notin Text}
  <2>2. ASSUME T # {} PROVE FALSE
    <3>10. T \in SUBSET Nat
      OBVIOUS
    <3>1. PICK i \in T: \A u \in T: i <= u
      BY <2>2, <3>10, FirstExists
    <3>2. f[i] = IF i = 1 THEN s[i] ELSE f[i - 1] \o s[i]
      BY <2>1 DEF RowUpTo
    <3>3. i # 1 => i - 1 \in 1 .. n /\ i - 1 \notin T
      BY <3>1
    <3>4. s[i] \in Text /\ (i # 1 => f[i - 1] \in Text)
      BY <3>3
    <3>5. f[i] \in Text
      BY <3>2, <3>4 DEF Text
    <3>6. QED
      BY <3>5
  <2>3. n \in 1 .. n
    BY <1>3
  <2>4. f[n] \in Text
    BY <2>2, <2>3
  <2>5. QED
    BY <1>3, <2>1, <2>4
<1>4. QED
  BY <1>2, <1>3

(* One more text is put behind the others. *)
LEMMA FlattenedGrows ==
  ASSUME NEW n \in Nat, NEW s \in [1 .. n -> Text], NEW t \in [1 .. n + 1 -> Text],
         \A i \in 1 .. n: s[i] = t[i]
  PROVE  FlattenSeq(t) = FlattenSeq(s) \o t[n + 1]
<1>0. PICK m \in Nat: m = n + 1 /\ m \in 1 .. m /\ m # 0 /\ m - 1 = n
  OBVIOUS
<1>1. Len(s) = n /\ Len(t) = m
  BY <1>0, Listed
<1>2. PICK g: RowUpTo(m, t, g) /\ FlattenSeq(t) = g[m]
  BY <1>0, <1>1, FlattenIsRow
<1>3. g[m] = IF m = 1 THEN t[m] ELSE g[m - 1] \o t[m]
  BY <1>0, <1>2 DEF RowUpTo
<1>4. CASE n = 0
  <2>1. FlattenSeq(s) = << >>
    BY <1>4, FlattenedText
  <2>2. t[m] \in Text
    BY <1>0
  <2>3. << >> \o t[m] = t[m]
    BY <2>2 DEF Text
  <2>4. QED
    BY <1>0, <1>2, <1>3, <1>4, <2>1, <2>3
<1>5. CASE n # 0
  <2>1. PICK f: RowUpTo(n, s, f) /\ FlattenSeq(s) = f[n]
    BY <1>1, <1>5, FlattenIsRow
  <2>2. n \in 1 .. n /\ n <= m
    BY <1>0, <1>5
  <2>3. f[n] = g[n]
    BY <1>0, <1>2, <2>1, <2>2, RowsAgree
  <2>4. m # 1
    BY <1>0, <1>5
  <2>5. QED
    BY <1>0, <1>2, <1>3, <2>1, <2>3, <2>4
<1>6. QED
  BY <1>4, <1>5

-------------------------------------------------------------------------------
(* Properties *)

(* What events m + 1 to n say. *)
Kinds == {"text", "cdata"}
Piece(e) == IF e.kind \in Kinds THEN e.text ELSE << >>
Pieces(evs, m, n) == [k \in 1 .. n - m |-> Piece(evs[m + k])]
Said(evs, m, n) == FlattenSeq(Pieces(evs, m, n))

SpanId(evs, s) == IdOf(evs[s[1]].attrs)
ReadAs(evs, s) ==
  LET attrs == evs[s[1]].attrs
  IN  IF HasValue(attrs) THEN ParseProperty(attrs)
      ELSE [ParseProperty(attrs) EXCEPT !.value = Said(evs, s[1], s[2])]

(* PropertiesFollowSpans, as an operator. *)
Follow(evs, props, spans) ==
  /\ DOMAIN props = {SpanId(evs, s): s \in Range(spans)}
  /\ \A i \in DOMAIN spans:
       (\A j \in DOMAIN spans: SpanId(evs, spans[j]) = SpanId(evs, spans[i]) => j <= i) =>
         props[SpanId(evs, spans[i])] = ReadAs(evs, spans[i])
  /\ \A i, j \in DOMAIN spans: i < j => spans[i][2] < spans[j][2]

(* The property in progress is its tag and what was said since. *)
Opening(evs, n, op) ==
  op.isOpen =>
    LET attrs == evs[op.first].attrs
    IN  /\ op.first \in 1 .. n
        /\ op.id = IdOf(attrs) /\ op.hasId = HasId(attrs) /\ op.hasValue = HasValue(attrs)
        /\ op.prop = ReadAs(evs, <<op.first, n>>)

PropertiesInv == PropertiesFollowSpans /\ Opening(events, Len(events), open)

(* The property in the state's terms, before a step ... *)
LEMMA FollowIs == PropertiesFollowSpans <=> Follow(events, properties, propertySpans)
BY DEF PropertiesFollowSpans, Follow, LastOfItsId, IdOfSpan, AttrsOf, SpanId, ReadAs, Said, Pieces,
       Piece, Kinds, Content

(* ... and after it. *)
LEMMA FollowIsNext == PropertiesFollowSpans' <=> Follow(events', properties', propertySpans')
BY DEF PropertiesFollowSpans, Follow, LastOfItsId, IdOfSpan, AttrsOf, SpanId, ReadAs, Said, Pieces,
       Piece, Kinds, Content

(* Further events change nothing about what was said before. *)
LEMMA SaidKept ==
  ASSUME NEW evs, NEW more, NEW m \in Nat, NEW n \in Nat, more[m] = evs[m],
         \A k \in 1 .. n - m: more[m + k] = evs[m + k]
  PROVE  /\ Said(more, m, n) = Said(evs, m, n)
         /\ ReadAs(more, <<m, n>>) = ReadAs(evs, <<m, n>>) /\ SpanId(more, <<m, n>>) = SpanId(evs, <<m, n>>)
<1>2. Pieces(more, m, n) = Pieces(evs, m, n)
  BY DEF Pieces
<1>3. Said(more, m, n) = Said(evs, m, n)
  BY <1>2 DEF Said
<1>4. <<m, n>>[1] = m /\ <<m, n>>[2] = n /\ more[m] = evs[m]
  OBVIOUS
<1>5. QED
  BY <1>3, <1>4 DEF ReadAs, SpanId

(* One more event adds what it says. *)
LEMMA SaidGrows ==
  ASSUME NEW evs, NEW n \in Nat, NEW m \in 0 .. n, \A i \in 1 .. n + 1: IsEvent(evs[i])
  PROVE  /\ Said(evs, m, n + 1) = Said(evs, m, n) \o Piece(evs[n + 1])
         /\ Said(evs, m, n) \in Text
<1>1. PICK d \in Nat: d = n - m
  OBVIOUS
<1>2. \A k \in 1 .. d + 1: m + k \in 1 .. n + 1
  BY <1>1
<1>3. \A k \in 1 .. d + 1: Piece(evs[m + k]) \in Text
  BY <1>2, EmptyText DEF Piece, IsEvent
<1>4. n + 1 - m = d + 1 /\ n - m = d /\ m + (d + 1) = n + 1
  BY <1>1
<1>5. Pieces(evs, m, n + 1) \in [1 .. d + 1 -> Text]
  BY <1>3, <1>4 DEF Pieces
<1>6. Pieces(evs, m, n) \in [1 .. d -> Text]
  BY <1>3, <1>4 DEF Pieces
<1>7. \A k \in 1 .. d: Pieces(evs, m, n)[k] = Pieces(evs, m, n + 1)[k]
  BY <1>4 DEF Pieces
<1>8. Pieces(evs, m, n + 1)[d + 1] = Piece(evs[n + 1])
  <2>1. d + 1 \in 1 .. d + 1
    OBVIOUS
  <2>2. QED
    BY <1>4, <2>1 DEF Pieces
<1>9. Said(evs, m, n + 1) = Said(evs, m, n) \o Pieces(evs, m, n + 1)[d + 1]
  BY <1>5, <1>6, <1>7, FlattenedGrows DEF Said
<1>10. QED
  BY <1>6, <1>8, <1>9, FlattenedText DEF Said

(* An event that is neither text nor character data says nothing. *)
LEMMA SaidNothing ==
  ASSUME NEW evs, NEW n \in Nat, NEW m \in 0 .. n, \A i \in 1 .. n + 1: IsEvent(evs[i]),
         evs[n + 1].kind \notin Kinds
  PROVE  Said(evs, m, n + 1) = Said(evs, m, n)
<1>1. Piece(evs[n + 1]) = << >>
  BY DEF Piece
<1>2. \A t \in Text: t \o << >> = t
  BY DEF Text
<1>3. QED
  BY <1>1, <1>2, SaidGrows

(* A tag says nothing yet, so that it reads as its attributes do. *)
LEMMA ReadAsTag ==
  ASSUME NEW evs, NEW n \in Nat
  PROVE  ReadAs(evs, <<n, n>>) = ParseProperty(evs[n].attrs)
<1> DEFINE p == ParseProperty(evs[n].attrs)
<1>1. Pieces(evs, n, n) \in [1 .. 0 -> Text]
  BY DEF Pieces
<1>2. Said(evs, n, n) = << >>
  BY <1>1, FlattenedText DEF Said
<1>3. ~HasValue(evs[n].attrs) => p.value = << >>
  BY DEF HasValue, ParseProperty, AttrText
<1>4. [p EXCEPT !.value = p.value] = p
  BY DEF ParseProperty
<1>5. <<n, n>>[1] = n /\ <<n, n>>[2] = n
  OBVIOUS
<1> HIDE DEF p
<1>6. QED
  BY <1>2, <1>3, <1>4, <1>5 DEF ReadAs, p

(* Spans of events that came before are read from them. *)
LEMMA FollowKept ==
  ASSUME NEW N \in Nat, NEW evs, NEW more, \A i \in 1 .. N: more[i] = evs[i],
         NEW props, NEW spans \in Seq((1 .. N) \X (1 .. N)), Follow(evs, props, spans)
  PROVE  Follow(more, props, spans)
<1>1. ASSUME NEW s \in (1 .. N) \X (1 .. N)
      PROVE  SpanId(more, s) = SpanId(evs, s) /\ ReadAs(more, s) = ReadAs(evs, s)
  <2>1. PICK m \in 1 .. N, n \in 1 .. N: s = <<m, n>>
    OBVIOUS
  <2>2. \A k \in 1 .. n - m: m + k \in 1 .. N
    BY <2>1
  <2>3. m \in Nat /\ n \in Nat /\ more[m] = evs[m] /\ \A k \in 1 .. n - m: more[m + k] = evs[m + k]
    BY <2>1, <2>2
  <2>4. /\ Said(more, m, n) = Said(evs, m, n)
        /\ ReadAs(more, <<m, n>>) = ReadAs(evs, <<m, n>>) /\ SpanId(more, <<m, n>>) = SpanId(evs, <<m, n>>)
    BY <2>3, SaidKept
  <2>5. QED
    BY <2>1, <2>4, Zenon
<1>2. \A i \in DOMAIN spans: spans[i] \in (1 .. N) \X (1 .. N)
  OBVIOUS
<1>3. \A i \in DOMAIN spans: SpanId(more, spans[i]) = SpanId(evs, spans[i]) /\ ReadAs(more, spans[i]) = ReadAs(evs, spans[i])
  BY <1>1, <1>2
<1>4. \A s \in Range(spans): SpanId(more, s) = SpanId(evs, s)
  BY <1>3 DEF Range
<1>5. {SpanId(more, s): s \in Range(spans)} = {SpanId(evs, s): s \in Range(spans)}
  BY <1>4
<1>6. QED
  BY <1>3, <1>5 DEF Follow

(* A property whose end comes last is entered. *)
LEMMA FollowInserted ==
  ASSUME NEW evs, NEW props, NEW spans, IsSequence(spans), Follow(evs, props, spans), NEW s,
         \A i \in DOMAIN spans: spans[i][2] < s[2],
         NEW id, id = SpanId(evs, s), NEW p, p = ReadAs(evs, s),
         NEW now, DOMAIN now = DOMAIN props \cup {id}, now[id] = p,
         \A i \in DOMAIN props: i # id => now[i] = props[i],
         NEW more, more = Append(spans, s)
  PROVE  Follow(evs, now, more)
<1> DEFINE P == Len(spans)
<1>1. /\ P \in Nat /\ DOMAIN spans = 1 .. P /\ DOMAIN more = 1 .. P + 1
      /\ \A i \in 1 .. P: more[i] = spans[i]
      /\ more[P + 1] = s
      /\ Range(more) = Range(spans) \cup {s}
  <2>1. PICK S: spans \in Seq(S)
    BY DEF IsSequence
  <2>2. Range(Append(spans, s)) = Range(spans) \cup {s}
    BY <2>1, RangeOfAppended
  <2>3. /\ Len(spans) \in Nat /\ DOMAIN spans = 1 .. Len(spans) /\ DOMAIN Append(spans, s) = 1 .. Len(spans) + 1
        /\ \A i \in 1 .. Len(spans): Append(spans, s)[i] = spans[i]
        /\ Append(spans, s)[Len(spans) + 1] = s
    BY <2>1, Appended
  <2>4. QED
    BY <2>2, <2>3
<1>3. /\ DOMAIN props = {SpanId(evs, t): t \in Range(spans)}
      /\ \A i \in DOMAIN spans:
           (\A j \in DOMAIN spans: SpanId(evs, spans[j]) = SpanId(evs, spans[i]) => j <= i) =>
             props[SpanId(evs, spans[i])] = ReadAs(evs, spans[i])
      /\ \A i, j \in DOMAIN spans: i < j => spans[i][2] < spans[j][2]
  BY DEF Follow
<1>4. \A i \in 1 .. P + 1: i \in 1 .. P \/ i = P + 1
  BY <1>1
<1>5. \A i \in 1 .. P: i \in 1 .. P + 1 /\ i < P + 1 /\ ~(P + 1 <= i) /\ ~(P + 1 < i)
  BY <1>1
<1>6. P + 1 \in 1 .. P + 1 /\ ~(P + 1 < P + 1)
  BY <1>1
<1> HIDE DEF P
<1>7. DOMAIN now = {SpanId(evs, t): t \in Range(more)}
  BY <1>1, <1>3
<1>8. ASSUME NEW i \in DOMAIN more,
             \A j \in DOMAIN more: SpanId(evs, more[j]) = SpanId(evs, more[i]) => j <= i
      PROVE  now[SpanId(evs, more[i])] = ReadAs(evs, more[i])
  <2>1. CASE i = P + 1
    BY <1>1, <2>1
  <2>2. CASE i \in 1 .. P
    <3>1. SpanId(evs, spans[i]) # id
      BY <1>1, <1>5, <1>6, <1>8, <2>2
    <3>2. \A j \in DOMAIN spans: SpanId(evs, spans[j]) = SpanId(evs, spans[i]) => j <= i
      BY <1>1, <1>5, <1>8, <2>2
    <3>3. props[SpanId(evs, spans[i])] = ReadAs(evs, spans[i])
      BY <1>1, <1>3, <2>2, <3>2
    <3>4. SpanId(evs, spans[i]) \in DOMAIN props
      BY <1>1, <1>3, <2>2 DEF Range
    <3>5. QED
      BY <1>1, <2>2, <3>1, <3>3, <3>4
  <2>3. QED
    BY <1>1, <1>4, <2>1, <2>2
<1>9. ASSUME NEW i \in DOMAIN more, NEW j \in DOMAIN more, i < j
      PROVE  more[i][2] < more[j][2]
  <2>1. i \in 1 .. P
    BY <1>1, <1>4, <1>5, <1>6, <1>9
  <2>2. CASE j = P + 1
    BY <1>1, <2>1, <2>2
  <2>3. CASE j \in 1 .. P
    BY <1>1, <1>3, <1>9, <2>1, <2>3
  <2>4. QED
    BY <1>1, <1>4, <2>2, <2>3
<1>10. QED
  BY <1>7, <1>8, <1>9 DEF Follow

(* What an event does to the properties and to the one in progress. *)
LEMMA PropertiesEffect ==
  ASSUME NEW e, ReadEvent(e)
  PROVE  \/ UNCHANGED readerVars
         \/ /\ UNCHANGED <<properties, propertySpans, open>>
            /\ e.kind \in Kinds => ~open.isOpen \/ open.hasValue
         \/ /\ e.kind \in Kinds /\ open.isOpen /\ ~open.hasValue
            /\ open' = [open EXCEPT !.prop.value = @ \o e.text]
            /\ UNCHANGED <<properties, propertySpans>>
         \/ /\ e.kind = "empty" /\ UNCHANGED open
            /\ Insert(IdOf(e.attrs), ParseProperty(e.attrs), Here, Here)
         \/ /\ e.kind = "start" /\ UNCHANGED <<properties, propertySpans>>
            /\ open' = [isOpen |-> TRUE, first |-> Here, id |-> IdOf(e.attrs), hasId |-> HasId(e.attrs),
                        hasValue |-> HasValue(e.attrs), prop |-> ParseProperty(e.attrs)]
         \/ /\ e.kind = "end" /\ open' = Closed
            /\ \/ UNCHANGED <<properties, propertySpans>>
               \/ open.isOpen /\ Insert(open.id, open.prop, open.first, Here)
<1>1. CASE ReadImage(e) \/ ReadKeyword(e)
  BY <1>1 DEF ReadImage, ReadKeyword, Tagged, IsTag, Kinds
<1>2. CASE ReadEmptyProperty(e)
  BY <1>2 DEF ReadEmptyProperty, Kinds
<1>3. CASE OpenProperty(e)
  BY <1>3 DEF OpenProperty
<1>4. CASE ReadOtherTag(e)
  BY <1>4 DEF ReadOtherTag, IsTag, Kinds
<1>5. CASE ReadText(e)
  BY <1>5 DEF ReadText, Kinds
<1>6. CASE CloseProperty(e)
  BY <1>6 DEF CloseProperty
<1>7. CASE CloseImage(e) \/ SkipEvent(e)
  BY <1>7 DEF CloseImage, SkipEvent, Kinds
<1>8. CASE RejectEvent(e)
  BY <1>8 DEF RejectEvent
<1>9. QED
  BY <1>1, <1>2, <1>3, <1>4, <1>5, <1>6, <1>7, <1>8 DEF ReadEvent

(* The property in progress is still in progress, having gained what the   *)
(* event says if it has no value of its own.                               *)
LEMMA StillOpening ==
  ASSUME NEW N \in Nat, NEW evs, NEW more, \A i \in 1 .. N: more[i] = evs[i],
         \A i \in 1 .. N + 1: IsEvent(more[i]),
         NEW op, NEW next, Opening(evs, N, op), op.isOpen,
         /\ next.isOpen = op.isOpen /\ next.first = op.first /\ next.id = op.id
         /\ next.hasId = op.hasId /\ next.hasValue = op.hasValue,
         next.prop = IF op.hasValue \/ more[N + 1].kind \notin Kinds THEN op.prop
                     ELSE [op.prop EXCEPT !.value = @ \o more[N + 1].text]
  PROVE  Opening(more, N + 1, next)
<1>0. PICK m: m = op.first
  OBVIOUS
<1> DEFINE attrs == evs[m].attrs
           e == more[N + 1]
<1>1. /\ m \in 1 .. N /\ m \in 0 .. N /\ N \in 1 .. N /\ more[m] = evs[m]
      /\ op.id = IdOf(attrs) /\ op.hasId = HasId(attrs) /\ op.hasValue = HasValue(attrs)
      /\ op.prop = ReadAs(evs, <<m, N>>)
  BY <1>0 DEF Opening
<1>2. ReadAs(evs, <<m, N>>) = ReadAs(more, <<m, N>>)
  <2>1. \A k \in 1 .. N - m: m + k \in 1 .. N
    BY <1>1
  <2>2. m \in Nat /\ \A k \in 1 .. N - m: more[m + k] = evs[m + k]
    BY <1>1, <2>1
  <2>3. /\ Said(more, m, N) = Said(evs, m, N)
        /\ ReadAs(more, <<m, N>>) = ReadAs(evs, <<m, N>>) /\ SpanId(more, <<m, N>>) = SpanId(evs, <<m, N>>)
    BY <1>1, <2>2, SaidKept
  <2>4. QED
    BY <2>3
<1>3. /\ <<m, N>>[1] = m /\ <<m, N>>[2] = N
      /\ <<m, N + 1>>[1] = m /\ <<m, N + 1>>[2] = N + 1
  OBVIOUS
<1>4. Said(more, m, N + 1) = Said(more, m, N) \o Piece(e)
  BY <1>1, SaidGrows
<1>5. e.kind \notin Kinds => Said(more, m, N + 1) = Said(more, m, N)
  BY <1>1, SaidNothing
<1> DEFINE p == ParseProperty(attrs)
<1>6. \A v, w: [[p EXCEPT !.value = v] EXCEPT !.value = @ \o w] = [p EXCEPT !.value = v \o w]
  BY DEF ParseProperty
<1> HIDE DEF p, e
<1>7. next.prop = ReadAs(more, <<m, N + 1>>)
  <2>1. CASE HasValue(attrs)
    BY <1>1, <1>2, <1>3, <2>1 DEF ReadAs, p
  <2>2. CASE ~HasValue(attrs) /\ e.kind \notin Kinds
    BY <1>1, <1>2, <1>3, <1>5, <2>2 DEF ReadAs, e
  <2>3. CASE ~HasValue(attrs) /\ e.kind \in Kinds
    <3>1. op.prop = [p EXCEPT !.value = Said(more, m, N)]
      BY <1>1, <1>2, <1>3, <2>3 DEF ReadAs, p
    <3>2. next.prop = [op.prop EXCEPT !.value = @ \o e.text]
      BY <1>1, <2>3 DEF e
    <3>3. next.prop = [p EXCEPT !.value = Said(more, m, N) \o e.text]
      BY <1>6, <3>1, <3>2
    <3>4. Said(more, m, N + 1) = Said(more, m, N) \o e.text
      BY <1>4, <2>3 DEF Piece
    <3>5. ReadAs(more, <<m, N + 1>>) = [p EXCEPT !.value = Said(more, m, N + 1)]
      BY <1>1, <1>3, <2>3 DEF ReadAs, p
    <3>6. QED
      BY <3>3, <3>4, <3>5
  <2>4. QED
    BY <2>1, <2>2, <2>3
<1>8. m \in 1 .. N + 1
  BY <1>1
<1>9. QED
  BY <1>0, <1>1, <1>7, <1>8 DEF Opening

(* Reading an event keeps the invariant. *)
LEMMA PropertiesStep ==
  ASSUME TypeOK, TypeOK', PropertiesInv, NEW e, ReadEvent(e)
  PROVE  PropertiesInv'
<1> DEFINE N == Len(events)
<1>1. CASE UNCHANGED readerVars
  BY <1>1, FollowIs, FollowIsNext DEF PropertiesInv, readerVars
<1>2. CASE events' = Append(events, e) /\ ~UNCHANGED readerVars
  <2>1. /\ N \in Nat /\ DOMAIN events = 1 .. N /\ DOMAIN events' = 1 .. N + 1
        /\ events'[N + 1] = e
        /\ \A n \in 1 .. N: events'[n] = events[n] /\ n \in 1 .. N + 1 /\ n < N + 1
    BY <1>2, Counted
  <2>2. Len(events') = N + 1 /\ Here = N + 1 /\ N + 1 \in Nat /\ N + 1 \in 1 .. N + 1 /\ N \in 0 .. N
    <3>1. events \in Seq(Range(events))
      BY DEF TypeOK
    <3>2. QED
      BY <1>2, <3>1 DEF Here
  <2>3. \A i \in 1 .. N + 1: IsEvent(events'[i])
    BY <2>1 DEF TypeOK
  <2>4. propertySpans \in Seq((1 .. N) \X (1 .. N)) /\ propertySpans \in Seq((1 .. N + 1) \X (1 .. N + 1))
    <3>1. (1 .. N) \X (1 .. N) \subseteq (1 .. N + 1) \X (1 .. N + 1)
      BY <2>1
    <3>2. \A S, T, s: S \subseteq T /\ s \in Seq(S) => s \in Seq(T)
      OBVIOUS
    <3>3. QED
      BY <2>1, <3>1, <3>2 DEF TypeOK
  <2>5. Follow(events', properties, propertySpans)
    BY <2>1, <2>4, FollowKept, FollowIs DEF PropertiesInv
  <2>6. \A i \in DOMAIN propertySpans: propertySpans[i][2] < N + 1
    <3>1. \A i \in DOMAIN propertySpans: propertySpans[i] \in (1 .. N) \X (1 .. N)
      BY <2>4
    <3>2. QED
      BY <2>1, <3>1
  <2>7. Opening(events, N, open)
    BY DEF PropertiesInv
  <2>8. ASSUME UNCHANGED <<properties, propertySpans>>
        PROVE  PropertiesFollowSpans'
    BY <2>5, <2>8, FollowIsNext
  <2>9. ASSUME NEW id, NEW p, NEW first \in 1 .. N + 1, Insert(id, p, first, Here),
               id = SpanId(events', <<first, N + 1>>), p = ReadAs(events', <<first, N + 1>>)
        PROVE  PropertiesFollowSpans'
    <3> DEFINE span == <<first, N + 1>>
    <3>1. span[2] = N + 1 /\ span = <<first, N + 1>>
      OBVIOUS
    <3>2. /\ DOMAIN properties' = DOMAIN properties \cup {id} /\ properties'[id] = p
          /\ \A i \in DOMAIN properties: i # id => properties'[i] = properties[i]
          /\ propertySpans' = Append(propertySpans, span)
      BY <2>2, <2>9 DEF Insert
    <3> HIDE DEF span
    <3>3. /\ IsSequence(propertySpans) /\ \A i \in DOMAIN propertySpans: propertySpans[i][2] < span[2]
          /\ id = SpanId(events', span) /\ p = ReadAs(events', span)
      <4>1. IsSequence(propertySpans)
        BY <2>4, Zenon DEF IsSequence
      <4>2. QED
        BY <2>6, <2>9, <3>1, <4>1
    <3>4. Follow(events', properties', propertySpans')
      BY <2>5, <3>2, <3>3, FollowInserted
    <3>5. QED
      BY <3>4, FollowIsNext, Zenon
  <2>10. ASSUME UNCHANGED open, e.kind \in Kinds => ~open.isOpen \/ open.hasValue
         PROVE  Opening(events', N + 1, open')
    <3>1. CASE open.isOpen
      BY <2>1, <2>3, <2>7, <2>10, <3>1, StillOpening
    <3>2. CASE ~open.isOpen
      BY <2>10, <3>2 DEF Opening
    <3>3. QED
      BY <3>1, <3>2
  <2>11. CASE /\ UNCHANGED <<properties, propertySpans, open>>
              /\ e.kind \in Kinds => ~open.isOpen \/ open.hasValue
    BY <2>2, <2>8, <2>10, <2>11 DEF PropertiesInv
  <2>12. CASE /\ e.kind \in Kinds /\ open.isOpen /\ ~open.hasValue
              /\ open' = [open EXCEPT !.prop.value = @ \o e.text]
              /\ UNCHANGED <<properties, propertySpans>>
    <3>1. open \in OpenProperties
      BY DEF TypeOK
    <3>2. /\ open'.isOpen = open.isOpen /\ open'.first = open.first /\ open'.id = open.id
          /\ open'.hasId = open.hasId /\ open'.hasValue = open.hasValue
          /\ open'.prop = [open.prop EXCEPT !.value = @ \o e.text]
      BY <2>12, <3>1 DEF OpenProperties
    <3>3. Opening(events', N + 1, open')
      BY <2>1, <2>3, <2>7, <2>12, <3>2, StillOpening
    <3>4. QED
      BY <2>2, <2>8, <2>12, <3>3 DEF PropertiesInv
  <2>13. CASE /\ e.kind = "empty" /\ UNCHANGED open
              /\ Insert(IdOf(e.attrs), ParseProperty(e.attrs), Here, Here)
    <3>1. SpanId(events', <<N + 1, N + 1>>) = IdOf(e.attrs)
      BY <2>1 DEF SpanId
    <3>2. ReadAs(events', <<N + 1, N + 1>>) = ParseProperty(e.attrs)
      BY <2>1, <2>2, ReadAsTag
    <3>3. PropertiesFollowSpans'
      BY <2>2, <2>9, <2>13, <3>1, <3>2
    <3>4. Opening(events', N + 1, open')
      BY <2>10, <2>13 DEF Kinds
    <3>5. QED
      BY <2>2, <3>3, <3>4 DEF PropertiesInv
  <2>14. CASE /\ e.kind = "start" /\ UNCHANGED <<properties, propertySpans>>
              /\ open' = [isOpen |-> TRUE, first |-> Here, id |-> IdOf(e.attrs), hasId |-> HasId(e.attrs),
                          hasValue |-> HasValue(e.attrs), prop |-> ParseProperty(e.attrs)]
    <3>1. ReadAs(events', <<N + 1, N + 1>>) = ParseProperty(e.attrs)
      BY <2>1, <2>2, ReadAsTag
    <3>2. Opening(events', N + 1, open')
      BY <2>1, <2>2, <2>14, <3>1 DEF Opening
    <3>3. QED
      BY <2>2, <2>8, <2>14, <3>2 DEF PropertiesInv
  <2>15. CASE /\ e.kind = "end" /\ open' = Closed
              /\ \/ UNCHANGED <<properties, propertySpans>>
                 \/ open.isOpen /\ Insert(open.id, open.prop, open.first, Here)
    <3>1. Opening(events', N + 1, open')
      BY <2>15 DEF Opening, Closed
    <3>2. ASSUME open.isOpen, Insert(open.id, open.prop, open.first, Here)
          PROVE  PropertiesFollowSpans'
      <4>1. Opening(events', N + 1, open)
        BY <2>1, <2>3, <2>7, <2>15, <3>2, StillOpening DEF Kinds
      <4>2. /\ open.first \in 1 .. N + 1 /\ open.prop = ReadAs(events', <<open.first, N + 1>>)
            /\ open.id = SpanId(events', <<open.first, N + 1>>)
        BY <3>2, <4>1 DEF Opening, SpanId
      <4>3. QED
        BY <2>9, <3>2, <4>2
    <3>3. PropertiesFollowSpans'
      BY <2>8, <2>15, <3>2
    <3>4. QED
      BY <2>2, <3>1, <3>3 DEF PropertiesInv
  <2>16. QED
    BY <1>2, <2>11, <2>12, <2>13, <2>14, <2>15, PropertiesEffect
<1>3. QED
  BY <1>1, <1>2, EventEffect

-------------------------------------------------------------------------------
(* The inductive invariant *)

Collected == IInv /\ LocationsInv /\ PropertiesInv

(* Nothing has been read yet. *)
LEMMA NothingCollected ==
  ASSUME NothingRead
  PROVE  LocationsInv /\ PropertiesInv
<1>1. LocationsInv
  BY DEF NothingRead, LocationsInv, Range, IsSequence
<1>2. PropertiesFollowSpans
  BY DEF NothingRead, PropertiesFollowSpans, Range
<1>3. ~open.isOpen
  BY ClosedType DEF NothingRead
<1>4. QED
  BY <1>1, <1>2, <1>3 DEF PropertiesInv, Opening

(* A reader that starts has collected nothing. *)
LEMMA StartedCollected ==
  ASSUME StartReading
  PROVE  LocationsInv' /\ PropertiesInv'
<1>1. LocationsInv'
  BY DEF StartReading, LocationsInv, Range, IsSequence
<1>2. PropertiesFollowSpans'
  BY DEF StartReading, PropertiesFollowSpans, Range
<1>3. ~open'.isOpen
  BY ClosedType DEF StartReading
<1>4. QED
  BY <1>1, <1>2, <1>3 DEF PropertiesInv, Opening

(* Every step keeps what is collected in line with the events. *)
LEMMA CollectedStep == Collected /\ [Next]_vars => Collected'
<1> SUFFICES ASSUME Collected, [Next]_vars PROVE Collected'
  OBVIOUS
<1>1. IInv /\ LocationsInv /\ PropertiesInv /\ IInv' /\ TypeOK /\ TypeOK'
  BY InvStep DEF Collected, IInv
<1>2. CASE UNCHANGED readerVars
  BY <1>1, <1>2, FollowIs, FollowIsNext DEF Collected, LocationsInv, PropertiesInv, readerVars
<1>3. CASE StartReading
  BY <1>1, <1>3, StartedCollected DEF Collected
<1>4. CASE \E e: ReadEvent(e)
  BY <1>1, <1>4, LocationsStep, PropertiesStep DEF Collected
<1>5. QED
  BY <1>1, <1>2, <1>3, <1>4, StepKinds

(* So it always is. *)
LEMMA CollectedInvariant == Spec => []Collected
<1>1. Init => Collected
  BY InitInv, NothingCollected DEF Init, Collected
<1>2. QED
  BY <1>1, CollectedStep, PTL DEF Spec

-------------------------------------------------------------------------------
(* The crate's own documents, event by event *)

(* Nothing in the attributes reads as a location. *)
Unlocated(attrs) == \A i \in DOMAIN attrs: attrs[i].location = NoLocation

(* Where no attribute reads as a location, none is recorded. *)
LEMMA NoneRecorded ==
  ASSUME NEW e, Unlocated(e.attrs), RecordLocation(e), IsSequence(locations)
  PROVE  locations' = locations
<1>1. Scanned(e.attrs) = {}
  BY DEF Unlocated, NoLocation, Scanned
<1>2. locations' = locations \o << >>
  BY <1>1 DEF RecordLocation
<1>3. PICK S: locations \in Seq(S)
  BY DEF IsSequence
<1>4. locations \o << >> = locations
  BY <1>3
<1>5. QED
  BY <1>2, <1>4

(* An event that opens and closes nothing. *)
LEMMA EnclosedEffect ==
  ASSUME NEW e, ReadEvent(e), IsSequence(locations),
         e.kind = "other" \/ (e.kind = "empty" /\ e.tag \in {"FITSKeyword", "Property"}),
         ~Duplicated(e.attrs), Unlocated(e.attrs)
  PROVE  /\ phase' = "reading" /\ events' = Append(events, e)
         /\ UNCHANGED <<stack, images, imageEnd, locations, geometry>>
<1>1. e.kind \notin {"start", "end", "text", "cdata"}
  OBVIOUS
<1>2. CASE ReadImage(e)
  BY <1>2 DEF ReadImage, Tagged, IsTag
<1>3. CASE ReadKeyword(e)
  BY <1>1, <1>3 DEF ReadKeyword, Advance
<1>4. CASE ReadEmptyProperty(e)
  BY <1>1, <1>4, NoneRecorded DEF ReadEmptyProperty, Advance
<1>5. CASE OpenProperty(e)
  BY <1>1, <1>5 DEF OpenProperty
<1>6. CASE ReadOtherTag(e)
  BY <1>6 DEF ReadOtherTag, IsTag
<1>7. CASE ReadText(e) \/ CloseProperty(e) \/ CloseImage(e)
  BY <1>1, <1>7 DEF ReadText, CloseProperty, CloseImage
<1>8. CASE SkipEvent(e)
  BY <1>1, <1>8 DEF SkipEvent, Advance
<1>9. CASE RejectEvent(e)
  BY <1>1, <1>9 DEF RejectEvent, Mismatched
<1>10. QED
  BY <1>2, <1>3, <1>4, <1>5, <1>6, <1>7, <1>8, <1>9 DEF ReadEvent

(* The start of an element that the reader does not know. *)
LEMMA StartEffect ==
  ASSUME NEW e, ReadEvent(e), IsSequence(locations),
         e.kind = "start", e.tag \notin {"Image", "FITSKeyword", "Property"}, Unlocated(e.attrs)
  PROVE  /\ phase' = "reading" /\ events' = Append(events, e) /\ stack' = Append(stack, Len(events) + 1)
         /\ UNCHANGED <<images, imageEnd, locations, geometry>>
<1>1. CASE ReadOtherTag(e)
  BY <1>1, NoneRecorded DEF ReadOtherTag, Advance, Here
<1>2. ~ReadImage(e) /\ ~ReadKeyword(e) /\ ~ReadEmptyProperty(e) /\ ~OpenProperty(e)
  BY DEF ReadImage, ReadKeyword, ReadEmptyProperty, OpenProperty, Tagged
<1>3. ~ReadText(e) /\ ~CloseProperty(e) /\ ~CloseImage(e) /\ ~SkipEvent(e) /\ ~RejectEvent(e)
  BY DEF ReadText, CloseProperty, CloseImage, SkipEvent, RejectEvent, Mismatched, Tagged, IsTag
<1>4. QED
  BY <1>1, <1>2, <1>3 DEF ReadEvent

(* The start of the image that the writer writes. *)
LEMMA ImageEffect ==
  ASSUME NEW e, NEW hint, NEW location, e = ImageTag(hint, location), ReadEvent(e),
         location.form = "attachment"
  PROVE  /\ phase' = "reading" /\ events' = Append(events, e) /\ stack' = Append(stack, Len(events) + 1)
         /\ images' = images + 1
         /\ geometry' = IF geometry = Unseen THEN GeometryAttr(e.attrs) ELSE Geometry("multiple", << >>)
         /\ locations' = locations \o <<[event |-> Len(events) + 1, attr |-> 4, isImage |-> TRUE, is |-> location]>>
         /\ UNCHANGED imageEnd
<1>1. /\ e.kind = "start" /\ e.tag = "Image" /\ DOMAIN e.attrs = 1 .. 4
      /\ e.attrs[1].location = NoLocation /\ e.attrs[2].location = NoLocation
      /\ e.attrs[3].location = NoLocation /\ e.attrs[4].location = location
  BY DEF ImageTag, Start, Event, Attr, SpelledAttr
<1>2. Scanned(e.attrs) = {4}
  <2> DEFINE found == {i \in DOMAIN e.attrs: e.attrs[i].location.form # "none"}
  <2>1. found = {4}
    <3>1. \A i \in 1 .. 4: i \in {1, 2, 3, 4}
      OBVIOUS
    <3>2. \A i \in {1, 2, 3}: ~(e.attrs[i].location.form # "none")
      BY <1>1 DEF NoLocation
    <3>3. e.attrs[4].location.form # "none" /\ 4 \in DOMAIN e.attrs
      BY <1>1
    <3>4. QED
      BY <1>1, <3>1, <3>2, <3>3
  <2>2. Scanned(e.attrs) = {i \in found: \A j \in found: i <= j}
    BY DEF Scanned
  <2> HIDE DEF found
  <2>3. QED
    BY <2>1, <2>2
<1>3. CASE ReadImage(e)
  <2>1. (CHOOSE k \in Scanned(e.attrs): TRUE) = 4
    BY <1>2
  <2>2. locations' = locations \o <<[event |-> Len(events) + 1, attr |-> 4, isImage |-> e.tag = "Image", is |-> location]>>
    BY <1>1, <1>2, <1>3, <2>1 DEF ReadImage, RecordLocation, Here
  <2>3. (e.tag = "Image") = TRUE
    BY <1>1
  <2>4. locations' = locations \o <<[event |-> Len(events) + 1, attr |-> 4, isImage |-> TRUE, is |-> location]>>
    BY <2>2, <2>3
  <2>5. /\ phase' = "reading" /\ events' = Append(events, e) /\ stack' = Append(stack, Len(events) + 1)
        /\ images' = images + 1 /\ UNCHANGED imageEnd
        /\ geometry' = IF geometry = Unseen THEN GeometryAttr(e.attrs) ELSE Geometry("multiple", << >>)
    BY <1>1, <1>3 DEF ReadImage, Advance, ObserveImage, Here
  <2>6. QED
    BY <2>4, <2>5
<1>4. ~ReadKeyword(e) /\ ~ReadEmptyProperty(e) /\ ~OpenProperty(e) /\ ~ReadOtherTag(e)
  BY <1>1 DEF ReadKeyword, ReadEmptyProperty, OpenProperty, ReadOtherTag, Tagged
<1>5. ~ReadText(e) /\ ~CloseProperty(e) /\ ~CloseImage(e) /\ ~SkipEvent(e) /\ ~RejectEvent(e)
  BY <1>1 DEF ReadText, CloseProperty, CloseImage, SkipEvent, RejectEvent, Mismatched, Tagged, IsTag
<1>6. QED
  BY <1>3, <1>4, <1>5 DEF ReadEvent

(* The end of the innermost element, if it is no property. *)
LEMMA EndEffect ==
  ASSUME NEW e, ReadEvent(e), e.kind = "end", e.tag # "Property",
         stack # << >>, events[stack[Len(stack)]].tag = e.tag
  PROVE  /\ phase' = "reading" /\ events' = Append(events, e) /\ stack' = SubSeq(stack, 1, Len(stack) - 1)
         /\ imageEnd' = IF e.tag = "Image" THEN Len(events) + 1 ELSE imageEnd
         /\ UNCHANGED <<images, locations, geometry>>
<1>1. CASE CloseImage(e)
  BY <1>1 DEF CloseImage, Advance, Here
<1>2. CASE SkipEvent(e)
  BY <1>2 DEF SkipEvent, Advance
<1>3. ~ReadImage(e) /\ ~ReadKeyword(e) /\ ~ReadEmptyProperty(e) /\ ~OpenProperty(e) /\ ~ReadOtherTag(e)
  BY DEF ReadImage, ReadKeyword, ReadEmptyProperty, OpenProperty, ReadOtherTag, Tagged, IsTag
<1>4. ~ReadText(e) /\ ~CloseProperty(e) /\ ~RejectEvent(e)
  BY DEF ReadText, CloseProperty, RejectEvent, Mismatched, Tagged, IsTag
<1>5. QED
  BY <1>1, <1>2, <1>3, <1>4 DEF ReadEvent

(* The elements that the writer makes name nothing twice, and locate nothing. *)
LEMMA ElementAttrs ==
  ASSUME NEW h, IsHeader(h)
  PROVE  /\ \A i \in 1 .. Len(h.keywords):
              LET e == KeywordElement(h, i)
              IN  e.kind = "empty" /\ e.tag = "FITSKeyword" /\ ~Duplicated(e.attrs) /\ Unlocated(e.attrs)
         /\ \A j \in 1 .. Len(Ids(h)):
              LET e == PropertyElement(h, j)
              IN  e.kind = "empty" /\ e.tag = "Property" /\ ~Duplicated(e.attrs) /\ Unlocated(e.attrs)
<1>1. ASSUME NEW kw \in KeywordRecord, kw.name # << >>
      PROVE  ~Duplicated(RenderKeyword(kw)) /\ Unlocated(RenderKeyword(kw))
  <2>1. ~Duplicated(RenderKeyword(kw))
    BY <1>1, KeywordSettles
  <2>2. Unlocated(RenderKeyword(kw))
    BY DEF RenderKeyword, Unlocated, Attr, SpelledAttr
  <2>3. QED
    BY <2>1, <2>2
<1>2. ASSUME NEW p \in PropertyRecord, NEW id \in Text
      PROVE  ~Duplicated(RenderProperty(id, p)) /\ Unlocated(RenderProperty(id, p))
  <2>1. ~Duplicated(RenderProperty(id, p))
    BY PropertyAttrs
  <2>2. Unlocated(RenderProperty(id, p))
    <3> DEFINE i == Attr("id", id)
               type == Attr("type", p.type)
               val == Attr("value", p.value)
               format == Attr("format", p.format)
               com == Attr("comment", p.comment)
               S == {i, type, val, format, com}
    <3>1. RenderProperty(id, p) = <<i, type, val>> \o (IF p.format = << >> THEN << >> ELSE <<format>>)
                                                  \o (IF p.comment = << >> THEN << >> ELSE <<com>>)
      BY DEF RenderProperty
    <3>2. \A a \in S: a.location = NoLocation
      BY DEF Attr, SpelledAttr
    <3> HIDE DEF i, type, val, format, com
    <3>3. {i, type, val, format, com} \subseteq S
      OBVIOUS
    <3> HIDE DEF S
    <3>4. RenderProperty(id, p) \in Seq(S)
      <4>1. <<i, type, val>> \in Seq(S) /\ <<format>> \in Seq(S) /\ <<com>> \in Seq(S) /\ << >> \in Seq(S)
        BY <3>3
      <4>2. QED
        BY <3>1, <4>1
    <3>5. QED
      BY <3>2, <3>4 DEF Unlocated
  <2>3. QED
    BY <2>1, <2>2
<1>3. ASSUME NEW tag, NEW attrs
      PROVE  Empty(tag, attrs).kind = "empty" /\ Empty(tag, attrs).tag = tag /\ Empty(tag, attrs).attrs = attrs
  BY DEF Empty, Event
<1>4. QED
  BY <1>1, <1>2, <1>3, HeaderShape, IdsShape DEF KeywordElement, PropertyElement

(* The open elements after n of m events of a document of the crate. *)
OwnStack(n, m) ==
  IF n \in {2, m - 1} THEN <<2>> ELSE IF n \in 3 .. m - 2 THEN <<2, 3>> ELSE << >>

(* What has been collected of the image after n of the events of doc, the  *)
(* document of a header with these hints and that location.                *)
OwnLocation(location) == [event |-> 3, attr |-> 4, isImage |-> TRUE, is |-> location]
Layout(doc, hint, location) ==
  LET n == Len(events)
      m == Len(doc)
  IN  /\ n <= m /\ \A i \in 1 .. n: events[i] = doc[i]
      /\ stack = OwnStack(n, m)
      /\ images = (IF n >= 3 THEN 1 ELSE 0)
      /\ imageEnd = (IF n >= m - 1 THEN m - 1 ELSE 0)
      /\ locations = (IF n >= 3 THEN <<OwnLocation(location)>> ELSE << >>)
      /\ geometry = (IF n >= 3 THEN GeometryAttr(ImageTag(hint, location).attrs) ELSE Unseen)

(* The elements between the start of the image and its end. *)
LEMMA MiddleEvents ==
  ASSUME NEW h, IsHeader(h), NEW hint, NEW location
  PROVE  LET doc == Document(h, hint, location)
         IN  /\ Len(doc) \in Nat /\ Len(doc) >= 5 /\ Framed(doc, hint, location)
             /\ \A i \in 4 .. Len(doc) - 2:
                  /\ doc[i].kind = "empty" /\ doc[i].tag \in {"FITSKeyword", "Property"}
                  /\ ~Duplicated(doc[i].attrs) /\ Unlocated(doc[i].attrs)
<1> DEFINE doc == Document(h, hint, location)
           K == Len(h.keywords)
           P == Len(Ids(h))
           Good(e) == /\ e.kind = "empty" /\ e.tag \in {"FITSKeyword", "Property"}
                      /\ ~Duplicated(e.attrs) /\ Unlocated(e.attrs)
<1>1. /\ Len(doc) = K + P + 5 /\ Framed(doc, hint, location)
      /\ \A i \in 1 .. K: doc[3 + i] = KeywordElement(h, i)
      /\ \A j \in 1 .. P: doc[3 + K + j] = PropertyElement(h, j)
  BY DocumentShape
<1>2. K \in Nat /\ P \in Nat
  BY HeaderShape, IdsShape
<1>3. /\ \A i \in 1 .. K: Good(KeywordElement(h, i))
      /\ \A j \in 1 .. P: Good(PropertyElement(h, j))
  BY ElementAttrs
<1> HIDE DEF doc, K, P, Good
<1>4. ASSUME NEW i \in 4 .. Len(doc) - 2 PROVE Good(doc[i])
  <2>1. CASE i <= 3 + K
    <3>1. i - 3 \in 1 .. K /\ 3 + (i - 3) = i
      BY <1>2, <2>1
    <3>2. QED
      BY <1>1, <1>3, <3>1
  <2>2. CASE i > 3 + K
    <3>1. i - 3 - K \in 1 .. P /\ 3 + K + (i - 3 - K) = i
      BY <1>1, <1>2, <2>2
    <3>2. QED
      BY <1>1, <1>3, <3>1
  <2>3. QED
    BY <1>2, <2>1, <2>2
<1>5. QED
  BY <1>1, <1>2, <1>4 DEF doc, Good

(* Two sequences of numbers that agree everywhere are one. *)
LEMMA SameNumbers ==
  ASSUME NEW s \in Seq(Nat), NEW t \in Seq(Nat), Len(s) = Len(t), \A i \in 1 .. Len(s): s[i] = t[i]
  PROVE  s = t
OBVIOUS

(* What the stack is when it grows to two elements and shrinks again. *)
LEMMA StackPops ==
  /\ SubSeq(<<2, 3>>, 1, Len(<<2, 3>>) - 1) = <<2>> /\ <<2, 3>> # << >> /\ <<2, 3>>[Len(<<2, 3>>)] = 3
  /\ SubSeq(<<2>>, 1, Len(<<2>>) - 1) = << >> /\ <<2>> # << >> /\ <<2>>[Len(<<2>>)] = 2
  /\ Append(<<2>>, 3) = <<2, 3>> /\ Append(<< >>, 2) = <<2>>
<1>1. Len(<<2, 3>>) = 2 /\ Len(<<2>>) = 1
  OBVIOUS
<1>2. SubSeq(<<2, 3>>, 1, 1) = <<2>>
  <2>1. PICK s: s = SubSeq(<<2, 3>>, 1, 1)
    OBVIOUS
  <2>2. <<2, 3>> \in Seq(Nat) /\ <<2>> \in Seq(Nat)
    OBVIOUS
  <2>3. s \in Seq(Nat) /\ Len(s) = 1 /\ s[1] = 2
    BY <1>1, <2>1, <2>2
  <2>4. \A i \in 1 .. Len(s): i = 1
    BY <2>3
  <2>5. \A i \in 1 .. Len(s): s[i] = <<2>>[i]
    BY <2>3, <2>4
  <2>6. s = <<2>>
    BY <1>1, <2>2, <2>3, <2>5, SameNumbers
  <2>7. QED
    BY <2>1, <2>6
<1>3. SubSeq(<<2>>, 1, 0) = << >>
  OBVIOUS
<1>4. <<2, 3>> # << >> /\ <<2, 3>>[2] = 3 /\ <<2>> # << >> /\ <<2>>[1] = 2
  OBVIOUS
<1>5. Append(<<2>>, 3) = <<2, 3>> /\ Append(<< >>, 2) = <<2>>
  <2>1. PICK s: s = Append(<<2>>, 3)
    OBVIOUS
  <2>2. <<2, 3>> \in Seq(Nat) /\ <<2>> \in Seq(Nat) /\ Len(<<2, 3>>) = 2
    OBVIOUS
  <2>3. s \in Seq(Nat) /\ Len(s) = 2 /\ s[1] = 2 /\ s[2] = 3
    BY <1>1, <1>4, <2>1, <2>2
  <2>4. \A i \in 1 .. Len(s): i = 1 \/ i = 2
    BY <2>3
  <2>5. \A i \in 1 .. Len(s): s[i] = <<2, 3>>[i]
    BY <2>3, <2>4
  <2>6. s = <<2, 3>>
    BY <2>2, <2>3, <2>5, SameNumbers
  <2>7. Append(<< >>, 2) = <<2>>
    OBVIOUS
  <2>8. QED
    BY <2>1, <2>6, <2>7
<1>6. 2 - 1 = 1 /\ 1 - 1 = 0
  OBVIOUS
<1>7. SubSeq(<<2, 3>>, 1, Len(<<2, 3>>) - 1) = <<2>> /\ <<2, 3>>[Len(<<2, 3>>)] = 3
  BY <1>1, <1>2, <1>4, <1>6, Zenon
<1>8. SubSeq(<<2>>, 1, Len(<<2>>) - 1) = << >> /\ <<2>>[Len(<<2>>)] = 2
  BY <1>1, <1>3, <1>4, <1>6, Zenon
<1>9. QED
  BY <1>4, <1>5, <1>7, <1>8

(* The kinds and tags of the frame. *)
LEMMA FrameTags ==
  ASSUME NEW doc, NEW hint, NEW location, Framed(doc, hint, location)
  PROVE  /\ doc[1].kind = "other" /\ doc[1].attrs = << >>
         /\ doc[2].kind = "start" /\ doc[2].tag = "xisf" /\ doc[2].attrs = << >>
         /\ doc[3].tag = "Image"
         /\ doc[Len(doc) - 1].kind = "end" /\ doc[Len(doc) - 1].tag = "Image"
         /\ doc[Len(doc)].kind = "end" /\ doc[Len(doc)].tag = "xisf"
<1>1. \A kind, tag, attrs, text:
        /\ Event(kind, tag, attrs, text).kind = kind /\ Event(kind, tag, attrs, text).tag = tag
        /\ Event(kind, tag, attrs, text).attrs = attrs
  BY DEF Event
<1>2. /\ \E tag: doc[1] = Event("other", tag, << >>, << >>)
      /\ doc[2] = Event("start", "xisf", << >>, << >>)
      /\ \E attrs: doc[3] = Event("start", "Image", attrs, << >>)
      /\ doc[Len(doc) - 1] = Event("end", "Image", << >>, << >>)
      /\ doc[Len(doc)] = Event("end", "xisf", << >>, << >>)
  BY Zenon DEF Framed, Start, End, ImageTag
<1>3. doc[1].kind = "other" /\ doc[1].attrs = << >>
  BY <1>1, <1>2
<1>4. doc[2].kind = "start" /\ doc[2].tag = "xisf" /\ doc[2].attrs = << >>
  BY <1>1, <1>2
<1>5. doc[3].tag = "Image"
  BY <1>1, <1>2
<1>6. doc[Len(doc) - 1].kind = "end" /\ doc[Len(doc) - 1].tag = "Image"
  BY <1>1, <1>2
<1>7. doc[Len(doc)].kind = "end" /\ doc[Len(doc)].tag = "xisf"
  BY <1>1, <1>2
<1>8. QED
  BY <1>3, <1>4, <1>5, <1>6, <1>7

(* One more event of the document is read, and no document of the crate is *)
(* refused.                                                                *)
LEMMA LayoutStep ==
  ASSUME TypeOK, NEW h, IsHeader(h), NEW hint, NEW location, location.form = "attachment",
         Layout(Document(h, hint, location), hint, location),
         Len(events) < Len(Document(h, hint, location)),
         ReadEvent(Document(h, hint, location)[Len(events) + 1])
  PROVE  phase' = "reading" /\ Layout(Document(h, hint, location), hint, location)'
<1> DEFINE doc == Document(h, hint, location)
           n == Len(events)
           m == Len(doc)
           e == doc[n + 1]
           here == OwnLocation(location)
           geo == GeometryAttr(ImageTag(hint, location).attrs)
<1>1. /\ m \in Nat /\ m >= 5 /\ Framed(doc, hint, location)
      /\ \A i \in 4 .. m - 2:
           /\ doc[i].kind = "empty" /\ doc[i].tag \in {"FITSKeyword", "Property"}
           /\ ~Duplicated(doc[i].attrs) /\ Unlocated(doc[i].attrs)
  BY MiddleEvents
<1>2. /\ \A i \in 1 .. n: events[i] = doc[i]
      /\ stack = OwnStack(n, m)
      /\ images = (IF n >= 3 THEN 1 ELSE 0)
      /\ imageEnd = (IF n >= m - 1 THEN m - 1 ELSE 0)
      /\ locations = (IF n >= 3 THEN <<here>> ELSE << >>)
      /\ geometry = (IF n >= 3 THEN geo ELSE Unseen)
  BY DEF Layout
<1>3. n \in Nat /\ n < m /\ ReadEvent(e) /\ TypeOK /\ location.form = "attachment"
  BY DEF TypeOK
<1>4. /\ doc[1] = Event("other", "", << >>, << >>) /\ doc[2] = Start("xisf", << >>)
      /\ doc[3] = ImageTag(hint, location)
      /\ doc[m - 1] = End("Image") /\ doc[m] = End("xisf")
  BY <1>1 DEF Framed
<1>names. n = Len(events) /\ m = Len(doc) /\ e = doc[n + 1]
  OBVIOUS
<1> HIDE DEF doc
<1>5. SUFFICES phase' = "reading" /\ Layout(doc, hint, location)'
  BY Zenon DEF doc
<1> DEFINE Grown == /\ events' = Append(events, e) /\ stack' = OwnStack(n + 1, m)
                    /\ images' = (IF n + 1 >= 3 THEN 1 ELSE 0)
                    /\ imageEnd' = (IF n + 1 >= m - 1 THEN m - 1 ELSE 0)
                    /\ locations' = (IF n + 1 >= 3 THEN <<here>> ELSE << >>)
                    /\ geometry' = (IF n + 1 >= 3 THEN geo ELSE Unseen)
<1>6. SUFFICES phase' = "reading" /\ Grown
  <2>1. SUFFICES ASSUME Grown PROVE Layout(doc, hint, location)'
    OBVIOUS
  <2>2. /\ Len(events') = n + 1 /\ events'[n + 1] = e
        /\ \A i \in 1 .. n: events'[i] = events[i]
    BY <1>3, <2>1, Counted
  <2>3. \A i \in 1 .. n + 1: i \in 1 .. n \/ i = n + 1
    BY <1>3
  <2>4. \A i \in 1 .. n + 1: events'[i] = doc[i]
    BY <1>2, <2>2, <2>3
  <2>5. n + 1 <= m
    BY <1>1, <1>3
  <2> HIDE DEF n, e, m
  <2>6. QED
    BY <1>names, <2>1, <2>2, <2>4, <2>5, Zenon DEF Layout, here, geo
<1>7. IsSequence(locations)
  <2>1. << >> \in Seq({here}) /\ <<here>> \in Seq({here})
    OBVIOUS
  <2>2. locations \in Seq({here})
    BY <1>2, <2>1
  <2>3. QED
    BY <2>2, Zenon DEF IsSequence
<1> HIDE DEF n, m, e, here, geo, Grown
<1>ends. /\ doc[1].kind = "other" /\ doc[1].attrs = << >>
         /\ doc[2].kind = "start" /\ doc[2].tag = "xisf" /\ doc[2].attrs = << >>
         /\ doc[3].tag = "Image"
         /\ doc[m - 1].kind = "end" /\ doc[m - 1].tag = "Image"
         /\ doc[m].kind = "end" /\ doc[m].tag = "xisf"
  BY <1>1, <1>names, FrameTags
<1>8. CASE n = 0
  <2>1. e = doc[1] /\ n + 1 = 1
    BY <1>8, <1>names
  <2>2. ~Duplicated(e.attrs) /\ Unlocated(e.attrs)
    BY <1>ends, <2>1 DEF Duplicated, Unlocated
  <2>3. /\ phase' = "reading" /\ events' = Append(events, e)
        /\ UNCHANGED <<stack, images, imageEnd, locations, geometry>>
    BY <1>3, <1>7, <1>ends, <2>1, <2>2, EnclosedEffect
  <2>4. OwnStack(n, m) = << >> /\ OwnStack(n + 1, m) = << >>
    BY <1>1, <1>8 DEF OwnStack
  <2>5. QED
    BY <1>1, <1>2, <1>8, <2>3, <2>4 DEF Grown
<1>9. CASE n = 1
  <2>0. n + 1 = 2
    BY <1>9
  <2>1. e = doc[2]
    BY <1>names, <2>0, Zenon
  <2>2. Unlocated(e.attrs)
    BY <1>ends, <2>1 DEF Unlocated
  <2>3. /\ phase' = "reading" /\ events' = Append(events, e) /\ stack' = Append(stack, n + 1)
        /\ UNCHANGED <<images, imageEnd, locations, geometry>>
    BY <1>3, <1>7, <1>ends, <1>names, <2>1, <2>2, StartEffect
  <2>4. OwnStack(n, m) = << >> /\ OwnStack(n + 1, m) = <<2>>
    BY <1>1, <1>9 DEF OwnStack
  <2>5. stack' = <<2>>
    BY <1>2, <2>0, <2>3, <2>4, StackPops, Zenon
  <2>6. QED
    BY <1>1, <1>2, <1>9, <2>3, <2>4, <2>5 DEF Grown
<1>10. CASE n = 2
  <2>0. n + 1 = 3
    BY <1>10
  <2>1. e = ImageTag(hint, location)
    BY <1>4, <1>names, <2>0, Zenon
  <2>2. /\ phase' = "reading" /\ events' = Append(events, e) /\ stack' = Append(stack, n + 1)
        /\ images' = images + 1 /\ UNCHANGED imageEnd
        /\ geometry' = IF geometry = Unseen THEN GeometryAttr(e.attrs) ELSE Geometry("multiple", << >>)
        /\ locations' = locations \o <<[event |-> n + 1, attr |-> 4, isImage |-> TRUE, is |-> location]>>
    BY <1>3, <2>1, <1>names, ImageEffect
  <2>3. OwnStack(n, m) = <<2>> /\ OwnStack(n + 1, m) = <<2, 3>>
    BY <1>1, <1>10 DEF OwnStack
  <2>4. stack' = <<2, 3>>
    BY <1>2, <2>0, <2>2, <2>3, StackPops, Zenon
  <2>5. geometry' = geo /\ images' = 1 /\ imageEnd' = 0
    BY <1>1, <1>2, <1>10, <2>1, <2>2 DEF geo
  <2>6. locations' = <<here>>
    <3>1. here = [event |-> n + 1, attr |-> 4, isImage |-> TRUE, is |-> location]
      BY <1>10 DEF OwnLocation, here
    <3>2. locations = << >>
      BY <1>2, <1>10
    <3>3. << >> \o <<here>> = <<here>>
      OBVIOUS
    <3>4. QED
      BY <2>2, <3>1, <3>2, <3>3
  <2>7. QED
    <3>1. ~(n + 1 >= m - 1) /\ n + 1 >= 3
      BY <1>1, <1>10
    <3>2. QED
      BY <3>1, <2>2, <2>3, <2>4, <2>5, <2>6 DEF Grown
<1>11. CASE n \in 3 .. m - 3
  <2>1. n + 1 \in 4 .. m - 2
    BY <1>1, <1>11
  <2>2. /\ e.kind = "empty" /\ e.tag \in {"FITSKeyword", "Property"}
        /\ ~Duplicated(e.attrs) /\ Unlocated(e.attrs)
    BY <1>1, <1>names, <2>1
  <2>3. /\ phase' = "reading" /\ events' = Append(events, e)
        /\ UNCHANGED <<stack, images, imageEnd, locations, geometry>>
    BY <1>3, <1>7, <2>2, <1>names, EnclosedEffect
  <2>4. OwnStack(n, m) = <<2, 3>> /\ OwnStack(n + 1, m) = <<2, 3>>
    BY <1>1, <1>11 DEF OwnStack
  <2>5. QED
    BY <1>1, <1>2, <1>11, <2>3, <2>4 DEF Grown
<1>12. CASE n = m - 2
  <2>1. n + 1 = m - 1 /\ n >= 3 /\ 3 \in 1 .. n
    BY <1>1, <1>12
  <2>2. e.kind = "end" /\ e.tag = "Image"
    BY <1>ends, <1>names, <2>1
  <2>3. OwnStack(n, m) = <<2, 3>> /\ OwnStack(n + 1, m) = <<2>>
    BY <1>1, <1>12 DEF OwnStack
  <2>4. events[3].tag = "Image"
    BY <1>2, <1>ends, <2>1
  <2>5. stack # << >> /\ events[stack[Len(stack)]].tag = e.tag
    BY <1>2, <2>2, <2>3, <2>4, StackPops
  <2>6. /\ phase' = "reading" /\ events' = Append(events, e) /\ stack' = SubSeq(stack, 1, Len(stack) - 1)
        /\ imageEnd' = IF e.tag = "Image" THEN Len(events) + 1 ELSE imageEnd
        /\ UNCHANGED <<images, locations, geometry>>
    BY <1>3, <2>2, <2>5, <1>names, EndEffect
  <2>7. stack' = <<2>>
    BY <1>2, <2>3, <2>6, StackPops
  <2>8. QED
    <3>1. imageEnd' = n + 1
      BY <1>names, <2>2, <2>6
    <3>2. n + 1 >= 3 /\ n >= 3 /\ n + 1 >= m - 1 /\ n + 1 = m - 1
      BY <1>1, <2>1
    <3>3. QED
      BY <1>2, <3>1, <3>2, <2>3, <2>6, <2>7 DEF Grown
<1>13. CASE n = m - 1
  <2>1. n + 1 = m /\ n >= 4 /\ 2 \in 1 .. n
    BY <1>1, <1>13
  <2>2. e.kind = "end" /\ e.tag = "xisf"
    BY <1>ends, <1>names, <2>1
  <2>3. OwnStack(n, m) = <<2>> /\ OwnStack(n + 1, m) = << >>
    BY <1>1, <1>13 DEF OwnStack
  <2>4. events[2].tag = "xisf"
    BY <1>2, <1>ends, <2>1
  <2>5. stack # << >> /\ events[stack[Len(stack)]].tag = e.tag
    BY <1>2, <2>2, <2>3, <2>4, StackPops
  <2>6. /\ phase' = "reading" /\ events' = Append(events, e) /\ stack' = SubSeq(stack, 1, Len(stack) - 1)
        /\ imageEnd' = IF e.tag = "Image" THEN Len(events) + 1 ELSE imageEnd
        /\ UNCHANGED <<images, locations, geometry>>
    BY <1>3, <2>2, <2>5, <1>names, EndEffect
  <2>7. stack' = << >>
    BY <1>2, <2>3, <2>6, StackPops
  <2>8. QED
    BY <1>1, <1>2, <1>13, <2>1, <2>2, <2>3, <2>6, <2>7 DEF Grown
<1>14. n \in {0, 1, 2, m - 2, m - 1} \/ n \in 3 .. m - 3
  BY <1>1, <1>3
<1>15. QED
  BY <1>8, <1>9, <1>10, <1>11, <1>12, <1>13, <1>14, Zenon

-------------------------------------------------------------------------------
(* The length of a document *)

(* s[n] is how long the first n events are without their locations.        *)
Weighed(n, doc, s) ==
  s = [k \in 0 .. n |-> IF k = 0 THEN 0 ELSE s[k - 1] + EventLength(Bare(doc[k]))]
Weight(doc) == (CHOOSE s: Weighed(Len(doc), doc, s))[Len(doc)]

(* The writer's events and all numbers are printed in a number of bytes.   *)
Measured ==
  /\ \A h: IsHeader(h) => \A hint \in Hints:
       LET doc == Document(h, hint, NoLocation)
       IN  \A n \in 1 .. Len(doc): EventLength(Bare(doc[n])) \in Nat
  /\ \A n \in Nat: Digits(n) \in Nat

(* However many events there are, they have these lengths.                 *)
LEMMA WeightsExist ==
  ASSUME NEW m \in Nat, NEW doc
  PROVE  \E s: Weighed(m, doc, s)
<1> DEFINE T == {n \in Nat: ~\E s: Weighed(n, doc, s)}
           w(k) == EventLength(Bare(doc[k]))
<1>1. SUFFICES ASSUME T # {} PROVE FALSE
  OBVIOUS
<1>2. PICK n \in T: \A u \in T: n <= u
  BY <1>1, FirstExists
<1>3. CASE n = 0
  <2>1. Weighed(0, doc, [k \in 0 .. 0 |-> 0])
    BY DEF Weighed
  <2>2. QED
    BY <1>3, <2>1
<1>4. CASE n # 0
  <2>1. n - 1 \in Nat /\ n - 1 \notin T
    BY <1>2, <1>4
  <2>2. PICK s: Weighed(n - 1, doc, s)
    BY <2>1
  <2> DEFINE r == [k \in 0 .. n |-> IF k = 0 THEN 0 ELSE s[k - 1] + w(k)]
  <2>3. \A k \in 0 .. n - 1: r[k] = s[k]
    BY <1>4, <2>1, <2>2 DEF Weighed
  <2>4. \A k \in 0 .. n: k # 0 => k - 1 \in 0 .. n - 1
    BY <2>1
  <2>5. r = [k \in 0 .. n |-> IF k = 0 THEN 0 ELSE r[k - 1] + w(k)]
    BY <2>3, <2>4
  <2>6. Weighed(n, doc, r)
    BY <2>5 DEF Weighed
  <2>7. QED
    BY <2>6
<1>5. QED
  BY <1>3, <1>4

(* The length of a document is the sum of its events and of its location.  *)
LEMMA LengthIsWeight ==
  ASSUME NEW doc, Len(doc) \in Nat, NEW size, NEW width
  PROVE  /\ XmlLength(doc, size, width) = Weight(doc) + LocationLength(0, size) - Digits(0) + width
         /\ \E s: Weighed(Len(doc), doc, s) /\ Weight(doc) = s[Len(doc)]
<1> DEFINE sum == CHOOSE s: Weighed(Len(doc), doc, s)
<1>1. Weighed(Len(doc), doc, sum)
  BY WeightsExist
<1>2. XmlLength(doc, size, width) = sum[Len(doc)] + LocationLength(0, size) - Digits(0) + width
  BY DEF XmlLength, Weighed
<1>3. Weight(doc) = sum[Len(doc)]
  BY DEF Weight
<1> HIDE DEF sum
<1>4. QED
  BY <1>1, <1>2, <1>3

(* Each total is the one before and the length of one more event.          *)
LEMMA RunningTotals ==
  ASSUME NEW n \in Nat, NEW doc, NEW s, Weighed(n, doc, s)
  PROVE  s[0] = 0 /\ \A k \in 1 .. n: s[k] = s[k - 1] + EventLength(Bare(doc[k]))
<1>1. 0 \in 0 .. n /\ \A k \in 1 .. n: k \in 0 .. n /\ k # 0
  OBVIOUS
<1>2. \A k \in 0 .. n: s[k] = IF k = 0 THEN 0 ELSE s[k - 1] + EventLength(Bare(doc[k]))
  BY Zenon DEF Weighed
<1>3. QED
  BY <1>1, <1>2, Zenon

(* Documents that differ only in their locations have the same weight.     *)
LEMMA SameWeight ==
  ASSUME NEW doc, NEW other, Len(doc) \in Nat, Len(other) = Len(doc),
         \A k \in 1 .. Len(doc): Bare(other[k]) = Bare(doc[k]) /\ EventLength(Bare(doc[k])) \in Nat
  PROVE  Weight(doc) \in Nat /\ Weight(other) = Weight(doc)
<1> DEFINE m == Len(doc)
           w(k) == EventLength(Bare(doc[k]))
<1>1. PICK s: Weighed(m, doc, s) /\ Weight(doc) = s[m]
  BY LengthIsWeight
<1>2. PICK t: Weighed(m, other, t) /\ Weight(other) = t[m]
  BY LengthIsWeight
<1>3. m \in Nat /\ \A k \in 1 .. m: EventLength(Bare(other[k])) = w(k) /\ w(k) \in Nat
  OBVIOUS
<1> HIDE DEF m, w
<1>4. /\ s[0] = 0 /\ t[0] = 0
      /\ \A k \in 1 .. m: s[k] = s[k - 1] + w(k) /\ t[k] = t[k - 1] + w(k)
  <2>1. m \in Nat
    BY <1>3
  <2>2. ASSUME NEW d, NEW r, Weighed(m, d, r)
        PROVE  r[0] = 0 /\ \A k \in 1 .. m: r[k] = r[k - 1] + EventLength(Bare(d[k]))
    BY <2>1, <2>2, RunningTotals, SMTT(30)
  <2>3. /\ s[0] = 0 /\ \A k \in 1 .. m: s[k] = s[k - 1] + EventLength(Bare(doc[k]))
        /\ t[0] = 0 /\ \A k \in 1 .. m: t[k] = t[k - 1] + EventLength(Bare(other[k]))
    BY <1>1, <1>2, <2>2, Zenon
  <2>4. \A k \in 1 .. m: EventLength(Bare(other[k])) = w(k) /\ EventLength(Bare(doc[k])) = w(k)
    BY <1>3, Zenon DEF w
  <2>5. QED
    BY <2>3, <2>4, Zenon
<1> DEFINE Good(k) == s[k] \in Nat /\ t[k] = s[k]
           T == {k \in 0 .. m: ~Good(k)}
<1>5. T = {}
  <2>1. SUFFICES ASSUME T # {} PROVE FALSE
    OBVIOUS
  <2>2. T \in SUBSET Nat
    BY <1>3
  <2>3. PICK k \in T: \A u \in T: k <= u
    BY <2>1, <2>2, FirstExists
  <2>4. k # 0 /\ k \in 1 .. m
    BY <1>3, <1>4, <2>3
  <2>5. k - 1 \in 0 .. m /\ k - 1 \notin T
    BY <1>3, <2>3, <2>4
  <2>6. Good(k - 1)
    BY <2>5
  <2>7. Good(k)
    BY <1>3, <1>4, <2>4, <2>6
  <2>8. QED
    BY <2>3, <2>7
<1>6. m \in 0 .. m
  BY <1>3
<1>7. Good(m)
  BY <1>5, <1>6
<1>8. QED
  BY <1>1, <1>2, <1>7 DEF m

(* Without its location the image is the same.                             *)
LEMMA BareImage ==
  ASSUME NEW hint, NEW a, NEW b
  PROVE  Bare(ImageTag(hint, a)) = Bare(ImageTag(hint, b))
<1> DEFINE bare(attr) == [attr EXCEPT !.location = NoLocation]
           geo == Attr("geometry", hint.geometry)
           format == Attr("sampleFormat", << >>)
           color == Attr("colorSpace", << >>)
           loc(x) == SpelledAttr("location", "location", << >>, x)
           attrs(x) == <<geo, format, color, loc(x)>>
<1>1. bare(loc(a)) = bare(loc(b))
  BY DEF SpelledAttr
<1>2. ASSUME NEW x
      PROVE  Bare(ImageTag(hint, x))
               = Event("start", "Image", [i \in DOMAIN attrs(x) |-> bare(attrs(x)[i])], << >>)
  <2>1. ImageTag(hint, x) = [kind |-> "start", tag |-> "Image", attrs |-> attrs(x), text |-> << >>]
    BY Zenon DEF ImageTag, Start, Event
  <2> HIDE DEF attrs, bare
  <2>2. ImageTag(hint, x).attrs = attrs(x)
    BY <2>1
  <2>3. Bare(ImageTag(hint, x))
          = [ImageTag(hint, x) EXCEPT !.attrs = [i \in DOMAIN attrs(x) |-> bare(attrs(x)[i])]]
    BY <2>2, Zenon DEF Bare, bare
  <2> DEFINE new == [i \in DOMAIN attrs(x) |-> bare(attrs(x)[i])]
  <2> HIDE DEF new
  <2>4. [ImageTag(hint, x) EXCEPT !.attrs = new] = Event("start", "Image", new, << >>)
    BY <2>1 DEF Event
  <2>5. QED
    BY <2>3, <2>4, Zenon DEF new
<1> HIDE DEF bare, geo, format, color, loc
<1>3. DOMAIN attrs(a) = 1 .. 4 /\ DOMAIN attrs(b) = 1 .. 4
  OBVIOUS
<1>4. \A i \in 1 .. 4: bare(attrs(a)[i]) = bare(attrs(b)[i])
  <2>1. \A i \in 1 .. 4: i \in {1, 2, 3} \/ i = 4
    OBVIOUS
  <2>2. /\ attrs(a)[1] = attrs(b)[1] /\ attrs(a)[2] = attrs(b)[2] /\ attrs(a)[3] = attrs(b)[3]
        /\ attrs(a)[4] = loc(a) /\ attrs(b)[4] = loc(b)
    OBVIOUS
  <2> HIDE DEF attrs
  <2>3. QED
    BY <1>1, <2>1, <2>2
<1> HIDE DEF attrs
<1>5. [i \in DOMAIN attrs(a) |-> bare(attrs(a)[i])] = [i \in DOMAIN attrs(b) |-> bare(attrs(b)[i])]
  BY <1>3, <1>4
<1>6. QED
  BY <1>2, <1>5, Zenon

(* The two renderings of a header differ only in their locations.          *)
LEMMA SameBut ==
  ASSUME NEW h, IsHeader(h), NEW hint, NEW a, NEW b
  PROVE  LET doc == Document(h, hint, a)
             other == Document(h, hint, b)
         IN  /\ Len(doc) \in Nat /\ Len(other) = Len(doc)
             /\ \A k \in 1 .. Len(doc): Bare(other[k]) = Bare(doc[k])
<1> DEFINE doc == Document(h, hint, a)
           other == Document(h, hint, b)
           K == Len(h.keywords)
           P == Len(Ids(h))
<1>1. /\ Len(doc) = K + P + 5 /\ Framed(doc, hint, a)
      /\ \A i \in 1 .. K: doc[3 + i] = KeywordElement(h, i)
      /\ \A j \in 1 .. P: doc[3 + K + j] = PropertyElement(h, j)
  BY DocumentShape
<1>2. /\ Len(other) = K + P + 5 /\ Framed(other, hint, b)
      /\ \A i \in 1 .. K: other[3 + i] = KeywordElement(h, i)
      /\ \A j \in 1 .. P: other[3 + K + j] = PropertyElement(h, j)
  BY DocumentShape
<1>3. K \in Nat /\ P \in Nat
  BY HeaderShape, IdsShape
<1> HIDE DEF doc, other, K, P
<1>4. /\ other[1] = doc[1] /\ other[2] = doc[2]
      /\ other[Len(doc) - 1] = doc[Len(doc) - 1] /\ other[Len(doc)] = doc[Len(doc)]
      /\ doc[3] = ImageTag(hint, a) /\ other[3] = ImageTag(hint, b)
  <2>1. Len(other) = Len(doc)
    BY <1>1, <1>2
  <2>2. QED
    BY <1>1, <1>2, <2>1, Zenon DEF Framed
<1>5. Bare(ImageTag(hint, a)) = Bare(ImageTag(hint, b))
  BY BareImage
<1>6. ASSUME NEW k \in 1 .. Len(doc) PROVE Bare(other[k]) = Bare(doc[k])
  <2>1. CASE k = 3
    BY <1>4, <1>5, <2>1
  <2>2. CASE k \in {1, 2, Len(doc) - 1, Len(doc)}
    BY <1>4, <2>2
  <2>3. CASE k \in 4 .. 3 + K
    <3>1. k - 3 \in 1 .. K /\ 3 + (k - 3) = k
      BY <1>3, <2>3
    <3>2. QED
      BY <1>1, <1>2, <3>1
  <2>4. CASE k \in 4 + K .. 3 + K + P
    <3>1. k - 3 - K \in 1 .. P /\ 3 + K + (k - 3 - K) = k
      BY <1>3, <2>4
    <3>2. QED
      BY <1>1, <1>2, <3>1
  <2>5. \/ k = 3 \/ k \in {1, 2, Len(doc) - 1, Len(doc)}
        \/ k \in 4 .. 3 + K \/ k \in 4 + K .. 3 + K + P
    <3>1. PICK m \in Nat: m = K + P + 5 /\ m = Len(doc)
      BY <1>1, <1>3
    <3>2. k \in 1 .. m
      BY <3>1
    <3>3. \/ k = 3 \/ k = 1 \/ k = 2 \/ k = m - 1 \/ k = m
          \/ k \in 4 .. 3 + K \/ k \in 4 + K .. 3 + K + P
      BY <1>3, <3>1, <3>2
    <3>4. QED
      BY <3>1, <3>3
  <2>6. QED
    BY <2>1, <2>2, <2>3, <2>4, <2>5, Zenon
<1>7. QED
  BY <1>1, <1>2, <1>3, <1>6 DEF doc, other

-------------------------------------------------------------------------------
(* The file that is written *)

(* Where the writer puts the data.                                         *)
Placed(h, hint, size) ==
  LocationAt(Preamble + XmlLength(Document(h, hint, NoLocation), size, OffsetWidth), size)

(* The header is rendered to some length; unless it is too long to be      *)
(* read, that length is the one its location was computed from.            *)
LEMMA Rendered ==
  ASSUME Measured, NEW h, IsHeader(h), NEW hint \in Hints, NEW size \in Nat
  PROVE  /\ Render(h, hint, size).doc = Document(h, hint, Placed(h, hint, size))
         /\ Render(h, hint, size).length \in Nat
         /\ Placed(h, hint, size).form = "attachment" /\ Placed(h, hint, size).size = size
         /\ Render(h, hint, size).length <= MaxHeader =>
              Placed(h, hint, size).offset = Preamble + Render(h, hint, size).length
<1> DEFINE first == Document(h, hint, NoLocation)
           length == XmlLength(first, size, OffsetWidth)
           offset == Preamble + length
           place == LocationAt(offset, size)
           doc == Document(h, hint, place)
           final == XmlLength(doc, size, OffsetChars(offset))
<1>1. /\ Render(h, hint, size) = [doc |-> doc, length |-> final]
      /\ Placed(h, hint, size) = place
  BY DEF Render, Placed
<1>2. Render(h, hint, size).doc = doc /\ Render(h, hint, size).length = final
  BY <1>1
<1>3. place.form = "attachment" /\ place.size = size /\ place.offset = offset
  BY DEF LocationAt
<1>4. /\ Len(first) \in Nat /\ Len(doc) = Len(first)
      /\ \A k \in 1 .. Len(first): Bare(doc[k]) = Bare(first[k])
  BY SameBut
<1>5. \A k \in 1 .. Len(first): EventLength(Bare(first[k])) \in Nat
  BY DEF Measured
<1> HIDE DEF first, doc, place
<1>6. Weight(first) \in Nat /\ Weight(doc) = Weight(first)
  BY <1>4, <1>5, SameWeight
<1>7. length = Weight(first) + LocationLength(0, size) - Digits(0) + OffsetWidth
  BY <1>4, LengthIsWeight
<1>8. final = Weight(first) + LocationLength(0, size) - Digits(0) + OffsetChars(offset)
  <2>1. Len(doc) \in Nat
    BY <1>4
  <2>2. final = Weight(doc) + LocationLength(0, size) - Digits(0) + OffsetChars(offset)
    BY <2>1, LengthIsWeight
  <2>3. QED
    BY <1>6, <2>2
<1> HIDE DEF length, final
<1>9. /\ Digits(0) \in Nat /\ Digits(size) \in Nat /\ OffsetWidth \in Nat /\ MaxHeader \in Nat
      /\ Preamble = 16
  BY SizeAssumption DEF Measured, Preamble
<1>10. LocationLength(0, size) = 12 + Digits(0) + Digits(size)
  BY DEF LocationLength
<1>11. length \in Nat /\ length = Weight(first) + 12 + Digits(size) + OffsetWidth
  BY <1>6, <1>7, <1>9, <1>10
<1>12. offset \in Nat /\ Digits(offset) \in Nat
  <2>1. offset \in Nat
    BY <1>9, <1>11
  <2> HIDE DEF offset
  <2>2. QED
    BY <2>1 DEF Measured
<1> HIDE DEF offset
<1>13. /\ OffsetChars(offset) \in Nat /\ OffsetChars(offset) >= OffsetWidth
       /\ Digits(offset) <= OffsetWidth => OffsetChars(offset) = OffsetWidth
  BY <1>9, <1>12 DEF OffsetChars, Max2
<1>14. final \in Nat /\ final = Weight(first) + 12 + Digits(size) + OffsetChars(offset)
  BY <1>6, <1>8, <1>9, <1>10, <1>13
<1>15. ASSUME final <= MaxHeader PROVE offset = Preamble + final
  <2>1. length <= MaxHeader
    BY <1>6, <1>9, <1>11, <1>13, <1>14, <1>15
  <2>2. offset \in 0 .. Preamble + MaxHeader
    BY <1>9, <1>11, <2>1 DEF offset
  <2>3. Digits(offset) <= OffsetWidth
    BY <1>9, <2>2, SizeAssumption
  <2>4. final = length
    BY <1>11, <1>13, <1>14, <2>3
  <2>5. QED
    BY <2>4 DEF offset
<1>16. QED
  BY <1>1, <1>2, <1>3, <1>14, <1>15 DEF doc, place

(* The crate's own file is the rendering of a header, refused only if it   *)
(* is too long, and read as it is laid out.                                *)
WrittenAs(size) ==
  /\ written = Render(memory, hints, size).doc
  /\ container = Whole(Render(memory, hints, size).length, size)
OwnFileInv ==
  /\ phase = "memory" \/ Own => hints \in Hints
  /\ Own /\ phase \in {"written", "reading", "done"} => \E size \in Nat: WrittenAs(size)
  /\ Own /\ phase \in {"reading", "done"} =>
       /\ container.length <= MaxHeader
       /\ \E size \in Nat: WrittenAs(size) /\ Layout(written, hints, Placed(memory, hints, size))
  /\ Own /\ phase = "error" => container.length > MaxHeader

(* Whether it is given as bytes or as a file, the crate's own container is *)
(* refused only if its header is too long.                                 *)
LEMMA WholeIsAccepted ==
  ASSUME NEW length \in Nat, NEW size \in Nat
  PROVE  LET c == Whole(length, size)
         IN  /\ c.length = length
             /\ length <= MaxHeader => ParseResult(c) = "ok" /\ ReadFromFileResult(c) = "ok"
             /\ length > MaxHeader => ParseResult(c) # "ok" /\ ReadFromFileResult(c) # "ok"
<1> DEFINE c == Whole(length, size)
           d == [c EXCEPT !.bytes = Preamble + c.length]
<1>1. /\ c.bytes = 16 + length + size /\ c.signed /\ c.length = length /\ c.utf8
      /\ d.bytes = 16 + length /\ d.signed /\ d.length = length /\ d.utf8
  BY DEF Whole, Preamble
<1>2. MaxHeader \in Nat /\ Preamble = 16
  BY SizeAssumption DEF Preamble
<1>3. ReadFromFileResult(c) =
        IF c.bytes < Preamble THEN "Io"
        ELSE IF ~c.signed THEN "InvalidSignature"
        ELSE IF c.length > MaxHeader THEN "HeaderTooLarge"
        ELSE IF c.bytes < Preamble + c.length THEN "Io"
        ELSE ParseResult(d)
  BY DEF ReadFromFileResult
<1> HIDE DEF c, d
<1>4. CASE length <= MaxHeader
  <2>1. SplitPreamble(c) = "ok" /\ SplitPreamble(d) = "ok"
    BY <1>1, <1>2, <1>4 DEF SplitPreamble
  <2>2. ParseResult(c) = "ok" /\ ParseResult(d) = "ok"
    BY <1>1, <2>1 DEF ParseResult
  <2>3. ReadFromFileResult(c) = "ok"
    BY <1>1, <1>2, <1>3, <1>4, <2>2
  <2>4. QED
    BY <1>1, <1>2, <1>4, <2>2, <2>3 DEF c
<1>5. CASE length > MaxHeader
  <2>1. SplitPreamble(c) = "HeaderTooLarge"
    BY <1>1, <1>2, <1>5 DEF SplitPreamble
  <2>2. ParseResult(c) = "HeaderTooLarge" /\ ReadFromFileResult(c) = "HeaderTooLarge"
    BY <1>1, <1>2, <1>3, <1>5, <2>1 DEF ParseResult
  <2>3. QED
    BY <1>1, <1>2, <1>5, <2>2 DEF c
<1>6. QED
  BY <1>2, <1>4, <1>5

(* A container is written to memory or to a file.                          *)
LEMMA WriteStep ==
  ASSUME hints \in Hints, ToHeaderBytes \/ WriteToFile
  PROVE  \/ phase' = "panic" /\ UNCHANGED hints
         \/ \E size \in Nat: WriteAs(size, size)
<1>1. DataSize(hints.geometry, hints.format) \in Nat /\ \A n \in DataLengths: n \in Nat
  BY SizeAssumption
<1>2. CASE ToHeaderBytes
  BY <1>1, <1>2 DEF ToHeaderBytes, rtVars
<1>3. CASE WriteToFile
  BY <1>1, <1>3 DEF WriteToFile
<1>4. QED
  BY <1>2, <1>3

(* Before anything is read, nothing is laid out.                           *)
LEMMA StartedLayout ==
  ASSUME NEW h, IsHeader(h), NEW hint, NEW location, StartReading
  PROVE  Layout(Document(h, hint, location), hint, location)'
<1> DEFINE doc == Document(h, hint, location)
<1>1. Len(doc) \in Nat /\ Len(doc) >= 5
  BY MiddleEvents
<1>2. /\ events' = << >> /\ stack' = << >> /\ images' = 0 /\ imageEnd' = 0
      /\ locations' = << >> /\ geometry' = Unseen
  BY DEF StartReading
<1> HIDE DEF doc
<1>3. Len(events') = 0 /\ OwnStack(0, Len(doc)) = << >>
  <2>1. Len(events') = 0
    BY <1>2
  <2>2. \A m \in Nat: m >= 5 => OwnStack(0, m) = << >>
    <3>1. TAKE m \in Nat
    <3>2. HAVE m >= 5
    <3>3. 0 \notin {2, m - 1} /\ 0 \notin 3 .. m - 2
      BY <3>2
    <3>4. QED
      BY <3>3, Zenon DEF OwnStack
  <2>3. QED
    BY <1>1, <2>1, <2>2, Zenon
<1>4. \A i \in 1 .. 0: events'[i] = doc[i]
  OBVIOUS
<1>5. ~(0 >= Len(doc) - 1) /\ 0 <= Len(doc)
  BY <1>1
<1>6. Layout(doc, hint, location)'
  BY <1>2, <1>3, <1>4, <1>5 DEF Layout
<1>7. QED
  BY <1>6, Zenon DEF doc

(* Every step keeps what is known of the crate's own files.                *)
LEMMA OwnFileStep ==
  ASSUME Measured, IInv, IInv', OwnFileInv, [Next]_vars
  PROVE  OwnFileInv'
<1> USE DEF Own
<1>1. cycles \in Nat /\ IsHeader(memory) /\ TypeOK
  <2>1. TypeOK /\ OwnInv
    BY DEF IInv
  <2>2. cycles \in Nat
    BY <2>1, ForeignAssumption DEF TypeOK
  <2>3. IsHeader(memory)
    BY <2>1, Zenon DEF OwnInv
  <2>4. QED
    BY <2>1, <2>2, <2>3
<1>2. ASSUME UNCHANGED <<phase, readerVars, rtVars>> PROVE OwnFileInv'
  BY <1>2 DEF OwnFileInv, WrittenAs, Layout, readerVars, rtVars
<1>3. CASE ToHeaderBytes \/ WriteToFile
  <2>1. phase = "memory" /\ hints \in Hints
    BY <1>3 DEF OwnFileInv, ToHeaderBytes, WriteToFile
  <2>2. CASE phase' = "panic" /\ UNCHANGED hints
    BY <2>1, <2>2 DEF OwnFileInv
  <2>3. CASE \E size \in Nat: WriteAs(size, size)
    <3>1. PICK size \in Nat: WriteAs(size, size)
      BY <2>3
    <3>2. /\ written' = Render(memory, hints, size).doc /\ phase' = "written"
          /\ container' = Whole(Render(memory, hints, size).length, size)
          /\ memory' = memory /\ hints' = hints
      BY <3>1 DEF WriteAs
    <3>3. WrittenAs(size)'
      BY <3>2 DEF WrittenAs
    <3>4. QED
      BY <2>1, <3>2, <3>3 DEF OwnFileInv
  <2>4. QED
    BY <1>3, <2>1, <2>2, <2>3, WriteStep
<1>4. CASE Parse \/ ReadFromFile
  <2>1. /\ phase = "written" /\ UNCHANGED <<memory, hints, container, written, cycles>>
        /\ \E result \in {ParseResult(container), ReadFromFileResult(container)}:
             \/ result = "ok" /\ phase' = "reading" /\ StartReading
             \/ result # "ok" /\ phase' = "error"
    BY <1>4 DEF Parse, ReadFromFile, Open
  <2>2. CASE Own
    <3>1. hints \in Hints
      BY <2>2 DEF OwnFileInv
    <3>2. PICK size \in Nat: WrittenAs(size)
      BY <2>1, <2>2 DEF OwnFileInv
    <3>3. PICK h: h = memory
      OBVIOUS
    <3>4. PICK hint \in Hints: hint = hints
      BY <3>1
    <3>5. PICK length \in Nat: /\ length = Render(h, hint, size).length
                               /\ Render(h, hint, size).doc = Document(h, hint, Placed(h, hint, size))
      BY <1>1, <3>3, Rendered
    <3>6. container = Whole(length, size) /\ written = Document(h, hint, Placed(h, hint, size))
      BY <3>2, <3>3, <3>4, <3>5 DEF WrittenAs
    <3>7. /\ container.length = length
          /\ length <= MaxHeader => ParseResult(container) = "ok" /\ ReadFromFileResult(container) = "ok"
          /\ length > MaxHeader => ParseResult(container) # "ok" /\ ReadFromFileResult(container) # "ok"
      BY <3>6, WholeIsAccepted
    <3>8. length <= MaxHeader \/ length > MaxHeader
      BY SizeAssumption
    <3>9. WrittenAs(size)'
      BY <2>1, <3>2 DEF WrittenAs
    <3>10. CASE length <= MaxHeader
      <4>1. phase' = "reading" /\ StartReading
        BY <2>1, <3>7, <3>10
      <4>2. Layout(Document(h, hint, Placed(h, hint, size)), hint, Placed(h, hint, size))'
        BY <1>1, <3>3, <4>1, StartedLayout
      <4>3. /\ written' = Document(h, hint, Placed(h, hint, size)) /\ hints' = hint /\ memory' = h
            /\ container' = container
        BY <2>1, <3>3, <3>4, <3>6
      <4>4. Layout(written, hints, Placed(memory, hints, size))'
        BY <4>2, <4>3 DEF Layout
      <4>5. QED
        BY <2>1, <3>1, <3>7, <3>9, <3>10, <4>1, <4>3, <4>4 DEF OwnFileInv
    <3>11. CASE length > MaxHeader
      <4>1. phase' = "error"
        BY <2>1, <3>7, <3>11
      <4>2. QED
        BY <2>1, <3>1, <3>7, <3>11, <4>1 DEF OwnFileInv
    <3>12. QED
      BY <3>8, <3>10, <3>11
  <2>3. CASE ~Own
    BY <2>1, <2>3 DEF OwnFileInv
  <2>4. QED
    BY <2>2, <2>3
<1>5. CASE ReadOwn
  <2>1. /\ cycles > 0 /\ Len(events) < Len(written) /\ ReadEvent(written[Len(events) + 1])
        /\ UNCHANGED <<memory, hints, container, written, cycles>>
    BY <1>5 DEF ReadOwn, Here, rtVars
  <2>2. phase = "reading"
    BY <2>1, EventEffect
  <2>3. hints \in Hints /\ container.length <= MaxHeader
    BY <2>1, <2>2 DEF OwnFileInv
  <2>4. PICK size \in Nat: WrittenAs(size) /\ Layout(written, hints, Placed(memory, hints, size))
    BY <2>1, <2>2 DEF OwnFileInv
  <2>5. PICK h: h = memory
    OBVIOUS
  <2>6. PICK hint \in Hints: hint = hints
    BY <2>3
  <2>7. PICK place: place = Placed(h, hint, size)
    OBVIOUS
  <2>8. Render(h, hint, size).doc = Document(h, hint, place) /\ place.form = "attachment"
    BY <1>1, <2>5, <2>7, Rendered
  <2>9. written = Document(h, hint, place)
    BY <2>4, <2>5, <2>6, <2>8 DEF WrittenAs
  <2>10. /\ IsHeader(h) /\ Layout(Document(h, hint, place), hint, place)
         /\ Len(events) < Len(Document(h, hint, place))
         /\ ReadEvent(Document(h, hint, place)[Len(events) + 1])
    BY <1>1, <2>1, <2>4, <2>5, <2>6, <2>7, <2>9
  <2>11. phase' = "reading" /\ Layout(Document(h, hint, place), hint, place)'
    BY <1>1, <2>8, <2>10, LayoutStep
  <2>12. /\ written' = Document(h, hint, place) /\ hints' = hint /\ memory' = h
    BY <2>1, <2>5, <2>6, <2>9
  <2>13. Layout(written, hints, Placed(memory, hints, size))' /\ WrittenAs(size)'
    <3>1. WrittenAs(size)'
      BY <2>1, <2>4 DEF WrittenAs
    <3>2. Layout(written, hints, Placed(memory, hints, size))'
      BY <2>7, <2>11, <2>12 DEF Layout
    <3>3. QED
      BY <3>1, <3>2
  <2>14. QED
    BY <2>1, <2>3, <2>11, <2>13 DEF OwnFileInv
<1>6. CASE ReadForeign
  <2>1. ~Own /\ cycles' = cycles /\ phase' # "memory"
    BY <1>6, EventEffect DEF ReadForeign, rtVars
  <2>2. QED
    BY <2>1 DEF OwnFileInv
<1>7. CASE Finish
  <2>1. /\ phase = "reading" /\ phase' = "done" /\ UNCHANGED <<readerVars, rtVars>>
    BY <1>7 DEF Finish, EndOfInput
  <2>2. QED
    BY <2>1 DEF OwnFileInv, WrittenAs, Layout, readerVars, rtVars
<1>8. CASE Again
  <2>1. Own /\ phase' = "memory" /\ hints' = hints
    BY <1>8 DEF Again
  <2>2. QED
    BY <2>1 DEF OwnFileInv
<1>9. CASE UNCHANGED vars
  BY <1>2, <1>9 DEF vars
<1>10. QED
  BY <1>3, <1>4, <1>5, <1>6, <1>7, <1>8, <1>9 DEF Next

-------------------------------------------------------------------------------
(* Sizes *)

(* p[k] is the product of the first k numbers, up to n, and r[k] what a    *)
(* computation of it holds that wraps around.                              *)
Multiplied(n, numbers, p) == p = [k \in 0 .. n |-> IF k = 0 THEN 1 ELSE p[k - 1] * numbers[k]]
Wrapped(n, numbers, r) == r = [k \in 0 .. n |-> IF k = 0 THEN 1 ELSE (r[k - 1] * numbers[k]) % Usize]

(* However many numbers there are, they have a product.                    *)
LEMMA ProductsExist ==
  ASSUME NEW m \in Nat, NEW numbers
  PROVE  \E p: Multiplied(m, numbers, p)
<1> DEFINE T == {n \in Nat: ~\E p: Multiplied(n, numbers, p)}
<1>1. SUFFICES ASSUME T # {} PROVE FALSE
  OBVIOUS
<1>2. PICK n \in T: \A u \in T: n <= u
  BY <1>1, FirstExists
<1>3. CASE n = 0
  <2>1. Multiplied(0, numbers, [k \in 0 .. 0 |-> 1])
    BY DEF Multiplied
  <2>2. QED
    BY <1>3, <2>1
<1>4. CASE n # 0
  <2>1. n - 1 \in Nat /\ n - 1 \notin T
    BY <1>2, <1>4
  <2>2. PICK p: Multiplied(n - 1, numbers, p)
    BY <2>1
  <2> DEFINE q == [k \in 0 .. n |-> IF k = 0 THEN 1 ELSE p[k - 1] * numbers[k]]
  <2>3. \A k \in 0 .. n - 1: q[k] = p[k]
    BY <1>4, <2>1, <2>2 DEF Multiplied
  <2>4. \A k \in 0 .. n: k # 0 => k - 1 \in 0 .. n - 1
    BY <2>1
  <2>5. q = [k \in 0 .. n |-> IF k = 0 THEN 1 ELSE q[k - 1] * numbers[k]]
    BY <2>3, <2>4
  <2>6. Multiplied(n, numbers, q)
    BY <2>5 DEF Multiplied
  <2>7. QED
    BY <2>6
<1>5. QED
  BY <1>3, <1>4

(* However many numbers there are, the computation ends.                   *)
LEMMA WrappedExist ==
  ASSUME NEW m \in Nat, NEW numbers
  PROVE  \E r: Wrapped(m, numbers, r)
<1> DEFINE T == {n \in Nat: ~\E r: Wrapped(n, numbers, r)}
<1>1. SUFFICES ASSUME T # {} PROVE FALSE
  OBVIOUS
<1>2. PICK n \in T: \A u \in T: n <= u
  BY <1>1, FirstExists
<1>3. CASE n = 0
  <2>1. Wrapped(0, numbers, [k \in 0 .. 0 |-> 1])
    BY DEF Wrapped
  <2>2. QED
    BY <1>3, <2>1
<1>4. CASE n # 0
  <2>1. n - 1 \in Nat /\ n - 1 \notin T
    BY <1>2, <1>4
  <2>2. PICK r: Wrapped(n - 1, numbers, r)
    BY <2>1
  <2> DEFINE q == [k \in 0 .. n |-> IF k = 0 THEN 1 ELSE (r[k - 1] * numbers[k]) % Usize]
  <2>3. \A k \in 0 .. n - 1: q[k] = r[k]
    BY <1>4, <2>1, <2>2 DEF Wrapped
  <2>4. \A k \in 0 .. n: k # 0 => k - 1 \in 0 .. n - 1
    BY <2>1
  <2>5. q = [k \in 0 .. n |-> IF k = 0 THEN 1 ELSE (q[k - 1] * numbers[k]) % Usize]
    BY <2>3, <2>4
  <2>6. Wrapped(n, numbers, q)
    BY <2>5 DEF Wrapped
  <2>7. QED
    BY <2>6
<1>5. QED
  BY <1>3, <1>4

(* A product grows with every factor, and does not wrap while it fits.     *)
LEMMA Factors ==
  ASSUME NEW a \in Nat \ {0}, NEW b \in Nat \ {0}
  PROVE  a * b \in Nat \ {0} /\ a <= a * b /\ b <= a * b
OBVIOUS

(* The product of positive numbers is positive, no less than any of them,  *)
(* and computed without an error if it fits.                               *)
LEMMA ProductFits ==
  ASSUME NEW numbers, NEW m \in Nat, Len(numbers) = m, \A k \in 1 .. m: numbers[k] \in Nat \ {0},
         NEW p, Multiplied(m, numbers, p), NEW r, Wrapped(m, numbers, r), 1 < Usize
  PROVE  /\ p[m] \in Nat \ {0} /\ \A k \in 1 .. m: numbers[k] <= p[m]
         /\ r[m] \in Nat
         /\ p[m] < Usize => r[m] = p[m]
<1>1. Usize \in Nat
  BY GeometryAssumption
<1>2. /\ p[0] = 1 /\ r[0] = 1
      /\ \A k \in 1 .. m: p[k] = p[k - 1] * numbers[k] /\ r[k] = (r[k - 1] * numbers[k]) % Usize
  BY DEF Multiplied, Wrapped
<1> DEFINE Good(n) == /\ p[n] \in Nat \ {0} /\ \A k \in 1 .. n: numbers[k] <= p[n]
                      /\ r[n] \in Nat
                      /\ p[n] < Usize => r[n] = p[n]
           T == {n \in 0 .. m: ~Good(n)}
<1>3. T = {}
  <2>1. SUFFICES ASSUME T # {} PROVE FALSE
    OBVIOUS
  <2>2. T \in SUBSET Nat
    OBVIOUS
  <2>3. PICK n \in T: \A u \in T: n <= u
    BY <2>1, <2>2, FirstExists
  <2>4. n # 0 /\ n \in 1 .. m
    BY <1>2, <2>3
  <2>5. n - 1 \in 0 .. m /\ n - 1 \notin T
    BY <2>3, <2>4
  <2>6. Good(n - 1)
    BY <2>5
  <2>7. PICK a \in Nat \ {0}: a = p[n - 1]
    BY <2>6
  <2>8. PICK b \in Nat \ {0}: b = numbers[n]
    BY <2>4
  <2>9. PICK c: c = a * b
    OBVIOUS
  <2>10. c \in Nat \ {0} /\ a <= c /\ b <= c
    BY <2>9, Factors
  <2>11. p[n] = c
    BY <1>2, <2>4, <2>7, <2>8, <2>9
  <2>12. \A k \in 1 .. n: k \in 1 .. n - 1 \/ k = n
    BY <2>4
  <2>13. \A k \in 1 .. n: numbers[k] <= c
    <3>1. \A k \in 1 .. n - 1: numbers[k] <= a /\ numbers[k] \in Nat
      BY <2>4, <2>6, <2>7
    <3>2. \A k \in 1 .. n - 1: numbers[k] <= c
      BY <2>10, <3>1
    <3>3. QED
      BY <2>8, <2>10, <2>12, <3>2
  <2>14. ASSUME c < Usize PROVE r[n] = c
    <3>1. r[n - 1] = a
      BY <1>1, <2>6, <2>7, <2>10, <2>14
    <3>2. r[n] = c % Usize
      BY <1>2, <2>4, <2>8, <2>9, <3>1
    <3>3. c % Usize = c
      BY <1>1, <2>10, <2>14
    <3>4. QED
      BY <3>2, <3>3
  <2>15. r[n] \in Nat
    <3>1. PICK d \in Nat: d = r[n - 1]
      BY <2>6
    <3>2. d * b \in Nat
      OBVIOUS
    <3>3. r[n] = (d * b) % Usize
      BY <1>2, <2>4, <2>8, <3>1
    <3>4. QED
      BY <1>1, <3>2, <3>3
  <2>16. Good(n)
    BY <2>10, <2>11, <2>13, <2>14, <2>15
  <2>17. QED
    BY <2>3, <2>16
<1>4. m \in 0 .. m
  OBVIOUS
<1>5. Good(m)
  BY <1>3, <1>4
<1>6. QED
  BY <1>5

(* Of a geometry in decimal that the reader accepts, the writer computes   *)
(* the size of the image if it fits, and no other time.                    *)
LEMMA SizeIsRight ==
  ASSUME NEW items, items \in Seq(Range(items)), NEW format \in DOMAIN SampleBytes,
         IsGeometry(items), \A i \in DOMAIN items: items[i].notation # "radix"
  PROVE  LET size == Product(Numbers(items)) * SampleBytes[format]
         IN  DataSize(items, format) = size <=> size < Usize
<1> DEFINE m == Len(items)
           numbers == Numbers(items)
           p == CHOOSE q: Multiplied(m, numbers, q)
           r == CHOOSE q: Wrapped(m, numbers, q)
           bytes == SampleBytes[format]
<1>1. m \in Nat /\ m >= 2 /\ DOMAIN items = 1 .. m
  BY DEF IsGeometry
<1>2. /\ \A k \in 1 .. m: /\ items[k].n \in Nat \ {0} /\ items[k].n <= MaxU32
                          /\ items[k].notation \in {"decimal", "plus"}
      /\ MaxU32 \in Nat /\ Usize \in Nat /\ MaxU32 < Usize /\ bytes \in Nat \ {0}
  BY <1>1, GeometryAssumption DEF IsGeometry, IsDimension
<1>3. numbers = [i \in 1 .. m |-> items[i].n] /\ Len(numbers) = m
  BY <1>1 DEF Numbers
<1>4. Multiplied(m, numbers, p) /\ Wrapped(m, numbers, r)
  <2>1. \E q: Multiplied(m, numbers, q)
    BY <1>1, ProductsExist
  <2>2. \E q: Wrapped(m, numbers, q)
    BY <1>1, WrappedExist
  <2>3. QED
    BY <2>1, <2>2
<1>5. Product(numbers) = p[m]
  BY <1>3 DEF Product, Multiplied
<1>6. Samples(items) = AtLeastOne(r[m])
  <2>1. \A i \in DOMAIN items: IsUsize(items[i])
    BY <1>1, <1>2 DEF IsUsize
  <2> DEFINE upto == CHOOSE q: q = [k \in 0 .. m |-> IF k = 0 THEN 1 ELSE (q[k - 1] * items[k].n) % Usize]
  <2>2. Samples(items) = AtLeastOne(upto[m])
    BY <2>1 DEF Samples
  <2>3. \A k \in 1 .. m: numbers[k] = items[k].n
    BY <1>3
  <2>4. upto = r
    BY <1>1, <2>3 DEF Wrapped
  <2>5. QED
    BY <2>2, <2>4
<1>7. \A k \in 1 .. m: numbers[k] \in Nat \ {0} /\ numbers[k] <= MaxU32
  BY <1>2, <1>3
<1>8. 1 < Usize
  BY <1>1, <1>2
<1> HIDE DEF m, numbers, p, r, bytes
<1>9. /\ p[m] \in Nat \ {0} /\ r[m] \in Nat
      /\ p[m] < Usize => r[m] = p[m]
  BY <1>1, <1>3, <1>4, <1>7, <1>8, ProductFits
<1>10. PICK product \in Nat \ {0}, samples \in Nat \ {0}:
         /\ product = p[m] /\ samples = Samples(items)
         /\ product < Usize => samples = product
  BY <1>6, <1>9 DEF AtLeastOne
<1>11. PICK size \in Nat \ {0}, computed \in Nat \ {0}: size = product * bytes /\ computed = samples * bytes
  BY <1>2, Factors
<1>12. DataSize(items, format) = AtLeastOne(Saturated(computed)) /\ Product(numbers) * SampleBytes[format] = size
  BY <1>5, <1>10, <1>11 DEF DataSize, bytes
<1>13. CASE size < Usize
  <2>1. product <= size
    BY <1>2, <1>11, Factors
  <2>2. computed = size
    BY <1>2, <1>10, <1>11, <1>13, <2>1
  <2>3. AtLeastOne(Saturated(computed)) = size
    BY <1>2, <1>13, <2>2 DEF AtLeastOne, Saturated
  <2>4. QED
    BY <1>12, <1>13, <2>3 DEF numbers
<1>14. CASE ~(size < Usize)
  <2>1. AtLeastOne(Saturated(computed)) < Usize
    BY <1>2, <1>8 DEF AtLeastOne, Saturated
  <2>2. DataSize(items, format) # size
    BY <1>2, <1>12, <1>14, <2>1
  <2>3. QED
    BY <1>12, <1>14, <2>2 DEF numbers
<1>15. QED
  BY <1>13, <1>14

(* The geometry that is read, if one is, is that of the hints.             *)
LEMMA GeometryIsHinted ==
  ASSUME NEW hint, NEW location, GeometryAttr(ImageTag(hint, location).attrs).state = "ok"
  PROVE  /\ GeometryAttr(ImageTag(hint, location).attrs).items = hint.geometry
         /\ IsGeometry(hint.geometry)
<1> DEFINE attrs == ImageTag(hint, location).attrs
           H == Having(attrs, "geometry")
<1>1. /\ DOMAIN attrs = 1 .. 4 /\ attrs[1].key = "geometry" /\ attrs[1].text = hint.geometry
      /\ attrs[2].key # "geometry" /\ attrs[3].key # "geometry" /\ attrs[4].key # "geometry"
  BY DEF ImageTag, Start, Event, Attr, SpelledAttr
<1>2. H = {1}
  <2>1. \A i \in 1 .. 4: i \in {1, 2, 3, 4}
    OBVIOUS
  <2>2. 1 \in 1 .. 4
    OBVIOUS
  <2> HIDE DEF attrs
  <2>3. QED
    BY <1>1, <2>1, <2>2 DEF Having
<1>3. (CHOOSE i \in H: TRUE) = 1
  BY <1>2
<1>4. GeometryAttr(attrs) =
        CASE Duplicated(attrs) \/ \E i, j \in H: i # j -> Geometry("malformed", << >>)
          [] ~Duplicated(attrs) /\ H = {} -> Geometry("missing", << >>)
          [] OTHER -> LET items == attrs[CHOOSE i \in H: TRUE].text
                      IN  Geometry(IF IsGeometry(items) THEN "ok" ELSE "malformed", items)
  BY DEF GeometryAttr
<1>5. GeometryAttr(attrs).state = "ok"
  OBVIOUS
<1> HIDE DEF attrs, H
<1>6. ~Duplicated(attrs)
  BY <1>2, <1>4, <1>5 DEF Geometry
<1>7. GeometryAttr(attrs) = Geometry(IF IsGeometry(hint.geometry) THEN "ok" ELSE "malformed", hint.geometry)
  BY <1>1, <1>2, <1>3, <1>4, <1>6
<1>8. IsGeometry(hint.geometry) /\ GeometryAttr(attrs).items = hint.geometry
  BY <1>5, <1>7 DEF Geometry
<1>9. QED
  BY <1>8 DEF attrs

(* What is known of the crate's own files holds always.                    *)
LEMMA OwnFileInvariant == Measured => (Spec => [](IInv /\ OwnFileInv))
<1> SUFFICES ASSUME Measured PROVE Spec => [](IInv /\ OwnFileInv)
  OBVIOUS
<1>1. Init => IInv /\ OwnFileInv
  <2> SUFFICES ASSUME Init PROVE OwnFileInv
    BY InitInv
  <2>1. cycles = 0 /\ (phase = "memory" => hints \in Hints)
    BY DEF Init, InitOwn, InitForeign
  <2>2. ~Own
    BY <2>1 DEF Own
  <2>3. QED
    BY <2>1, <2>2 DEF OwnFileInv
<1>2. IInv /\ OwnFileInv /\ [Next]_vars => (IInv /\ OwnFileInv)'
  BY InvStep, OwnFileStep
<1>3. QED
  BY <1>1, <1>2, PTL DEF Spec

(* What the crate has read of its own file when it is done.                *)
LEMMA OwnDone ==
  ASSUME Measured, IInv, OwnFileInv, Own, phase = "done"
  PROVE  /\ hints \in Hints
         /\ \E size \in Nat, length \in Nat: \E location:
              /\ container = Whole(length, size)
              /\ location.form = "attachment" /\ location.size = size
              /\ location.offset = Preamble + length
              /\ images = 1 /\ imageEnd # 0 /\ locations = <<OwnLocation(location)>>
              /\ geometry = GeometryAttr(ImageTag(hints, location).attrs)
<1>1. IsHeader(memory) /\ Len(events) = Len(written)
  BY DEF IInv, OwnInv
<1>2. hints \in Hints /\ container.length <= MaxHeader
  BY DEF OwnFileInv
<1>3. PICK size \in Nat: WrittenAs(size) /\ Layout(written, hints, Placed(memory, hints, size))
  BY DEF OwnFileInv
<1>4. PICK h: h = memory
  OBVIOUS
<1>5. PICK hint \in Hints: hint = hints
  BY <1>2
<1>6. PICK location: location = Placed(h, hint, size)
  OBVIOUS
<1>7. PICK length \in Nat: length = Render(h, hint, size).length
  BY <1>1, <1>4, Rendered
<1>8. /\ Render(h, hint, size).doc = Document(h, hint, location)
      /\ location.form = "attachment" /\ location.size = size
      /\ length <= MaxHeader => location.offset = Preamble + length
  BY <1>1, <1>4, <1>6, <1>7, Rendered
<1>9. container = Whole(length, size) /\ written = Document(h, hint, location)
  BY <1>3, <1>4, <1>5, <1>7, <1>8 DEF WrittenAs
<1>10. location.offset = Preamble + length
  BY <1>2, <1>8, <1>9, WholeIsAccepted
<1>11. Len(written) \in Nat /\ Len(written) >= 5
  BY <1>1, <1>4, <1>9, MiddleEvents
<1>12. Layout(written, hints, location)
  BY <1>3, <1>4, <1>5, <1>6
<1>13. /\ images = 1 /\ imageEnd # 0 /\ locations = <<OwnLocation(location)>>
       /\ geometry = GeometryAttr(ImageTag(hints, location).attrs)
  BY <1>1, <1>11, <1>12 DEF Layout
<1>14. QED
  BY <1>2, <1>8, <1>9, <1>10, <1>13

-------------------------------------------------------------------------------
(* Elements one inside the other *)

(* The rows of open elements, event by event.                              *)
Nesting(evs, n, h) ==
  /\ h[0] = << >> /\ \A k \in 1 .. n: h[k] = OpenAfter(h[k - 1], evs[k], k)
  /\ \A k \in 0 .. n: \A j \in Range(h[k]): j \in 1 .. k /\ evs[j].kind = "start"

PropertyAt(evs, n) == Tagged(evs[n], "Property") /\ evs[n].kind = "start"

(* Some property starts while n is open; n has a span.                     *)
Enclosing(evs, m, h, n) == \E k \in 1 .. m: PropertyAt(evs, k) /\ n \in Range(h[k - 1])
Spanned(spans, n) == n \in {s[1]: s \in Range(spans)}

Increasing(s) == \A i, j \in DOMAIN s: i < j => s[i] < s[j]

(* Of every property with a start tag, what has become of it: it is in     *)
(* progress, and the innermost of the open ones; or it has a span, and     *)
(* encloses none; or it encloses one and has no span.                      *)
Fate(evs, m, h, spans, op, n) ==
  LET inside == Range(h[m])
  IN  /\ Spanned(spans, n) => ~Enclosing(evs, m, h, n) /\ n \notin inside
      /\ op.isOpen /\ op.first = n =>
           /\ n \in inside /\ ~Enclosing(evs, m, h, n)
           /\ \A k \in inside: k > n => ~PropertyAt(evs, k)
      /\ ~(op.isOpen /\ op.first = n) /\ n \in inside => Enclosing(evs, m, h, n)
      /\ HasId(evs[n].attrs) /\ n \notin inside => Enclosing(evs, m, h, n) \/ Spanned(spans, n)

Fates(evs, m, h, spans, op) ==
  /\ \A n \in 1 .. m: PropertyAt(evs, n) => Fate(evs, m, h, spans, op, n)
  /\ op.isOpen => op.first \in 1 .. m /\ PropertyAt(evs, op.first)

EnclosingInv ==
  \E h: /\ Nesting(events, Len(events), h) /\ h[Len(events)] = stack
        /\ Increasing(stack)
        /\ Fates(events, Len(events), h, propertySpans, open)

(* An element that starts is behind and inside all that are open.          *)
LEMMA Pushed ==
  ASSUME NEW s \in Seq(Nat), Increasing(s), NEW n \in Nat, \A k \in Range(s): k < n
  PROVE  Increasing(Append(s, n)) /\ Range(Append(s, n)) = Range(s) \cup {n}
<1>1. /\ Len(s) \in Nat /\ DOMAIN s = 1 .. Len(s) /\ DOMAIN Append(s, n) = 1 .. Len(s) + 1
      /\ \A i \in 1 .. Len(s): Append(s, n)[i] = s[i] /\ s[i] \in Nat
      /\ Append(s, n)[Len(s) + 1] = n
  OBVIOUS
<1> DEFINE t == Append(s, n)
           m == Len(s)
<1>2. \A i \in 1 .. m + 1: i \in 1 .. m \/ i = m + 1
  BY <1>1
<1>3. \A i \in 1 .. m: i \in 1 .. m + 1 /\ i < m + 1 /\ s[i] < n
  BY <1>1 DEF Range
<1> HIDE DEF t, m
<1>4. Range(t) = Range(s) \cup {n}
  <2>1. m + 1 \in DOMAIN t
    BY <1>1 DEF t, m
  <2>2. QED
    BY <1>1, <1>2, <1>3, <2>1 DEF Range, t, m
<1>5. Increasing(t)
  <2>1. SUFFICES ASSUME NEW i \in 1 .. m + 1, NEW j \in 1 .. m + 1, i < j PROVE t[i] < t[j]
    BY <1>1 DEF Increasing, t, m
  <2>2. m \in Nat
    BY <1>1 DEF m
  <2>3. i \in 1 .. m
    BY <2>1, <2>2
  <2>4. CASE j \in 1 .. m
    BY <1>1, <2>1, <2>3, <2>4 DEF Increasing, t, m
  <2>5. CASE j = m + 1
    BY <1>1, <1>3, <2>3, <2>5 DEF t, m
  <2>6. QED
    BY <1>2, <2>4, <2>5
<1>6. QED
  BY <1>4, <1>5 DEF t

(* The element that ends is the last one, and leaves the others.           *)
LEMMA Popped ==
  ASSUME NEW s \in Seq(Nat), Increasing(s), s # << >>
  PROVE  LET t == SubSeq(s, 1, Len(s) - 1)
             last == s[Len(s)]
         IN  /\ Increasing(t) /\ Range(t) = Range(s) \ {last}
             /\ last \in Range(s) /\ \A k \in Range(s): k <= last
<1> DEFINE m == Len(s)
           t == SubSeq(s, 1, m - 1)
<1>1. /\ m \in Nat /\ m >= 1 /\ DOMAIN s = 1 .. m
      /\ \A i \in 1 .. m: s[i] \in Nat
  OBVIOUS
<1>2. DOMAIN t = 1 .. m - 1 /\ \A i \in 1 .. m - 1: t[i] = s[i]
  BY <1>1
<1>3. \A i \in 1 .. m: i = m \/ (i \in 1 .. m - 1 /\ i < m)
  <2>1. \A k \in Nat: \A i \in 1 .. k: i = k \/ (i \in 1 .. k - 1 /\ i < k)
    OBVIOUS
  <2>2. QED
    BY <1>1, <2>1, Zenon
<1>4. \A i \in 1 .. m - 1: i \in 1 .. m /\ i < m
  BY <1>1
<1>5. m \in 1 .. m
  BY <1>1
<1> HIDE DEF t, m
<1>6. \A i \in 1 .. m - 1: s[i] < s[m]
  BY <1>1, <1>4, <1>5 DEF Increasing
<1>7. Increasing(t)
  BY <1>1, <1>2, <1>4 DEF Increasing
<1>8. \A i \in 1 .. m - 1: s[i] # s[m]
  BY <1>1, <1>4, <1>5, <1>6
<1>9. Range(t) = Range(s) \ {s[m]}
  BY <1>1, <1>2, <1>3, <1>4, <1>8 DEF Range
<1>10. s[m] \in Range(s)
  BY <1>1, <1>5 DEF Range
<1>11. \A k \in Range(s): k <= s[m]
  BY <1>1, <1>3, <1>5, <1>6 DEF Range
<1>12. QED
  BY <1>7, <1>9, <1>10, <1>11 DEF t, m

(* Two histories of one document are one.                                  *)
LEMMA OneNesting ==
  ASSUME NEW n \in Nat, NEW evs, NEW g, NEW h,
         g[0] = << >>, \A k \in 1 .. n: g[k] = OpenAfter(g[k - 1], evs[k], k),
         h[0] = << >>, \A k \in 1 .. n: h[k] = OpenAfter(h[k - 1], evs[k], k)
  PROVE  \A k \in 0 .. n: g[k] = h[k]
<1> DEFINE T == {k \in 0 .. n: g[k] # h[k]}
<1>1. SUFFICES ASSUME T # {} PROVE FALSE
  OBVIOUS
<1>2. T \in SUBSET Nat
  OBVIOUS
<1>3. PICK k \in T: \A u \in T: k <= u
  BY <1>1, <1>2, FirstExists
<1>4. k \in 0 .. n /\ g[k] # h[k]
  OBVIOUS
<1>5. k # 0
  BY <1>4
<1>6. k \in 1 .. n /\ k - 1 \in 0 .. n /\ ~(k <= k - 1)
  BY <1>4, <1>5
<1>7. g[k - 1] = h[k - 1]
  BY <1>3, <1>6
<1>8. QED
  BY <1>4, <1>6, <1>7

(* What was open before an event is what the history says.                 *)
LEMMA OpenBeforeIs ==
  ASSUME NEW h, Len(events) \in Nat, Nesting(events, Len(events), h)
  PROVE  \A n \in 1 .. Len(events): OpenBefore(n) = h[n - 1]
<1> DEFINE N == Len(events)
           Is(u) == u = [k \in 0 .. N |-> IF k = 0 THEN << >> ELSE OpenAfter(u[k - 1], events[k], k)]
           upto == CHOOSE u: Is(u)
<1>1. N \in Nat /\ h[0] = << >> /\ \A k \in 1 .. N: h[k] = OpenAfter(h[k - 1], events[k], k)
  BY DEF Nesting
<1>2. /\ 0 \in 0 .. N
      /\ \A k \in 1 .. N: k \in 0 .. N /\ k # 0 /\ k - 1 \in 0 .. N
      /\ \A k \in 0 .. N: k # 0 => k \in 1 .. N
  BY <1>1
<1>3. \A n: OpenBefore(n) = upto[n - 1]
  BY Zenon DEF OpenBefore
<1> HIDE DEF N
<1>4. \E u: Is(u)
  <2> DEFINE u == [k \in 0 .. N |-> h[k]]
  <2>1. \A k \in 0 .. N: u[k] = IF k = 0 THEN << >> ELSE OpenAfter(u[k - 1], events[k], k)
    BY <1>1, <1>2
  <2>2. Is(u)
    BY <2>1
  <2>3. QED
    BY <2>2
<1>5. Is(upto)
  BY <1>4
<1> HIDE DEF upto
<1>6. upto[0] = << >> /\ \A k \in 1 .. N: upto[k] = OpenAfter(upto[k - 1], events[k], k)
  BY <1>2, <1>5
<1>7. \A k \in 0 .. N: upto[k] = h[k]
  <2>1. ASSUME NEW g, g[0] = << >>, \A k \in 1 .. N: g[k] = OpenAfter(g[k - 1], events[k], k)
        PROVE  \A k \in 0 .. N: g[k] = h[k]
    BY <1>1, <2>1, OneNesting, SMTT(30)
  <2>2. QED
    BY <1>6, <2>1, Zenon
<1>8. QED
  BY <1>2, <1>3, <1>7 DEF N

(* The row after one more event; only the start of a property makes        *)
(* properties enclosing that were not.                                     *)
IsNext(evs, more, N, h, next, g) ==
  /\ Nesting(more, N + 1, g) /\ g[N + 1] = next
  /\ \A n: Enclosing(more, N + 1, g, n)
             <=> Enclosing(evs, N, h, n) \/ (PropertyAt(more, N + 1) /\ n \in Range(h[N]))

(* One more event makes one more row. *)
LEMMA NestingGrows ==
  ASSUME NEW N \in Nat, NEW evs, NEW more, \A i \in 1 .. N: more[i] = evs[i],
         NEW h, Nesting(evs, N, h), NEW next,
         next = OpenAfter(h[N], more[N + 1], N + 1),
         \A j \in Range(next): j \in 1 .. N + 1 /\ more[j].kind = "start"
  PROVE  \E g: IsNext(evs, more, N, h, next, g)
<1> DEFINE g == [k \in 0 .. N + 1 |-> IF k = N + 1 THEN next ELSE h[k]]
<1>1. /\ \A k \in 0 .. N: k \in 0 .. N + 1 /\ k # N + 1
      /\ \A k \in 0 .. N + 1: k \in 0 .. N \/ k = N + 1
      /\ \A k \in 1 .. N: k \in 1 .. N + 1 /\ k \in 0 .. N /\ k - 1 \in 0 .. N
      /\ \A k \in 1 .. N + 1: k \in 1 .. N \/ k = N + 1
      /\ 0 \in 0 .. N /\ N \in 0 .. N /\ N + 1 \in 0 .. N + 1 /\ N + 1 \in 1 .. N + 1 /\ (N + 1) - 1 = N
  OBVIOUS
<1>2. g[N + 1] = next /\ \A k \in 0 .. N: g[k] = h[k]
  BY <1>1
<1> HIDE DEF g
<1>3. /\ h[0] = << >> /\ \A k \in 1 .. N: h[k] = OpenAfter(h[k - 1], evs[k], k)
      /\ \A k \in 0 .. N: \A j \in Range(h[k]): j \in 1 .. k /\ evs[j].kind = "start"
  BY DEF Nesting
<1>4. Nesting(more, N + 1, g)
  <2>1. g[0] = << >>
    BY <1>1, <1>2, <1>3
  <2>2. ASSUME NEW k \in 1 .. N + 1
        PROVE  g[k] = OpenAfter(g[k - 1], more[k], k)
    <3>1. CASE k \in 1 .. N
      <4>1. g[k] = h[k] /\ g[k - 1] = h[k - 1] /\ more[k] = evs[k]
        BY <1>1, <1>2, <3>1
      <4>2. QED
        BY <1>3, <3>1, <4>1
    <3>2. CASE k = N + 1
      <4>1. g[k] = next /\ g[k - 1] = h[N]
        BY <1>1, <1>2, <3>2
      <4>2. QED
        BY <3>2, <4>1
    <3>3. QED
      BY <1>1, <3>1, <3>2
  <2>3. ASSUME NEW k \in 0 .. N + 1, NEW j \in Range(g[k])
        PROVE  j \in 1 .. k /\ more[j].kind = "start"
    <3>1. CASE k \in 0 .. N
      <4>1. j \in 1 .. k /\ evs[j].kind = "start"
        BY <1>2, <1>3, <2>3, <3>1
      <4>2. j \in 1 .. N
        BY <3>1, <4>1
      <4>3. QED
        BY <4>1, <4>2
    <3>2. CASE k = N + 1
      BY <1>2, <2>3, <3>2
    <3>3. QED
      BY <1>1, <3>1, <3>2
  <2>4. QED
    BY <2>1, <2>2, <2>3 DEF Nesting
<1>5. \A k \in 1 .. N: PropertyAt(more, k) <=> PropertyAt(evs, k)
  BY DEF PropertyAt
<1>6. ASSUME NEW n
      PROVE  Enclosing(more, N + 1, g, n)
               <=> Enclosing(evs, N, h, n) \/ (PropertyAt(more, N + 1) /\ n \in Range(h[N]))
  <2>1. \A k \in 1 .. N: g[k - 1] = h[k - 1]
    BY <1>1, <1>2
  <2>2. g[(N + 1) - 1] = h[N]
    BY <1>1, <1>2
  <2>3. ASSUME Enclosing(more, N + 1, g, n)
        PROVE  Enclosing(evs, N, h, n) \/ (PropertyAt(more, N + 1) /\ n \in Range(h[N]))
    <3>1. PICK k \in 1 .. N + 1: PropertyAt(more, k) /\ n \in Range(g[k - 1])
      BY <2>3 DEF Enclosing
    <3>2. CASE k \in 1 .. N
      BY <1>5, <2>1, <3>1, <3>2 DEF Enclosing
    <3>3. CASE k = N + 1
      BY <2>2, <3>1, <3>3
    <3>4. QED
      BY <1>1, <3>2, <3>3
  <2>4. ASSUME Enclosing(evs, N, h, n)
        PROVE  Enclosing(more, N + 1, g, n)
    BY <1>1, <1>5, <2>1, <2>4 DEF Enclosing
  <2>5. ASSUME PropertyAt(more, N + 1), n \in Range(h[N])
        PROVE  Enclosing(more, N + 1, g, n)
    BY <1>1, <2>2, <2>5 DEF Enclosing
  <2>6. QED
    BY <2>3, <2>4, <2>5
<1>7. QED
  BY <1>1, <1>2, <1>4, <1>6 DEF IsNext

(* What an event does to the open elements and to the property in progress.*)
LEMMA EnclosingEffect ==
  ASSUME NEW e, ReadEvent(e)
  PROVE  \/ UNCHANGED readerVars
         \/ /\ events' = Append(events, e) /\ stack' = OpenAfter(stack, e, Here)
            /\ e.kind = "end" => stack # << >> /\ events[stack[Len(stack)]].tag = e.tag
            /\ \/ /\ e.kind \notin {"start", "end"}
                  /\ open' = open \/ open' = [open EXCEPT !.prop.value = @ \o e.text]
                  /\ \/ UNCHANGED propertySpans
                     \/ propertySpans' = Append(propertySpans, <<Here, Here>>)
               \/ /\ e.kind \in {"start", "end"} /\ e.tag # "Property"
                  /\ UNCHANGED <<propertySpans, open>>
               \/ /\ Tagged(e, "Property") /\ e.kind = "start"
                  /\ open'.isOpen /\ open'.first = Here /\ UNCHANGED propertySpans
               \/ /\ e.kind = "end" /\ e.tag = "Property" /\ ~open'.isOpen
                  /\ propertySpans' = IF open.isOpen /\ open.hasId
                                      THEN Append(propertySpans, <<open.first, Here>>) ELSE propertySpans
<1> USE DEF Advance, Tagged, IsTag, OpenAfter, Mismatched, Here
<1>1. CASE ReadImage(e)
  BY <1>1 DEF ReadImage
<1>2. CASE ReadKeyword(e)
  BY <1>2 DEF ReadKeyword
<1>3. CASE ReadEmptyProperty(e)
  BY <1>3 DEF ReadEmptyProperty, Insert
<1>4. CASE OpenProperty(e)
  BY <1>4 DEF OpenProperty
<1>5. CASE ReadOtherTag(e)
  BY <1>5 DEF ReadOtherTag
<1>6. CASE ReadText(e)
  BY <1>6 DEF ReadText
<1>7. CASE CloseProperty(e)
  BY <1>7, ClosedType DEF CloseProperty, Insert
<1>8. CASE CloseImage(e) \/ SkipEvent(e)
  BY <1>8 DEF CloseImage, SkipEvent
<1>9. CASE RejectEvent(e)
  BY <1>9 DEF RejectEvent
<1>10. QED
  BY <1>1, <1>2, <1>3, <1>4, <1>5, <1>6, <1>7, <1>8, <1>9 DEF ReadEvent

(* What becomes of an element has been said of its own number, and what is *)
(* open is all that matters: nothing else of the history.                  *)
Grown(evs, more, N, h, g) ==
  /\ \A i \in 1 .. N: more[i] = evs[i]
  /\ \A j \in Range(h[N]): j \in 1 .. N
  /\ \A n: Enclosing(more, N + 1, g, n)
             <=> Enclosing(evs, N, h, n) \/ (PropertyAt(more, N + 1) /\ n \in Range(h[N]))

(* Nothing encloses what has not started.                                  *)
LEMMA NoneAhead ==
  ASSUME NEW N \in Nat, NEW evs, NEW h, Nesting(evs, N, h)
  PROVE  ~Enclosing(evs, N, h, N + 1) /\ N + 1 \notin Range(h[N])
<1>1. \A k \in 0 .. N: N + 1 \notin Range(h[k])
  BY DEF Nesting
<1>2. \A k \in 1 .. N: k - 1 \in 0 .. N
  OBVIOUS
<1>3. N \in 0 .. N
  OBVIOUS
<1>4. QED
  BY <1>1, <1>2, <1>3 DEF Enclosing

(* An event that starts and ends no property, and ends nothing else either *)
(* if it starts something.                                                 *)
LEMMA FatesKept ==
  ASSUME NEW N \in Nat, NEW evs, NEW more, NEW h, NEW g, Grown(evs, more, N, h, g),
         NEW spans, NEW op, Fates(evs, N, h, spans, op),
         NEW spans2, NEW op2, op2.isOpen = op.isOpen, op2.first = op.first,
         \A n \in 1 .. N: Spanned(spans2, n) <=> Spanned(spans, n),
         ~PropertyAt(more, N + 1),
         \A n \in 1 .. N: PropertyAt(evs, n) => (n \in Range(g[N + 1]) <=> n \in Range(h[N])),
         Range(g[N + 1]) \subseteq Range(h[N]) \cup {N + 1}
  PROVE  Fates(more, N + 1, g, spans2, op2)
<1>1. /\ \A n \in 1 .. N: n \in 1 .. N + 1 /\ more[n] = evs[n] /\ (PropertyAt(more, n) <=> PropertyAt(evs, n))
      /\ \A n \in 1 .. N + 1: n \in 1 .. N \/ n = N + 1
  BY DEF Grown, PropertyAt
<1>2. ASSUME NEW n \in 1 .. N + 1, PropertyAt(more, n)
      PROVE  Fate(more, N + 1, g, spans2, op2, n)
  <2>1. n \in 1 .. N /\ PropertyAt(evs, n) /\ more[n] = evs[n]
    BY <1>1, <1>2
  <2>2. Fate(evs, N, h, spans, op, n)
    BY <2>1 DEF Fates
  <2>3. /\ Enclosing(more, N + 1, g, n) <=> Enclosing(evs, N, h, n)
        /\ n \in Range(g[N + 1]) <=> n \in Range(h[N])
        /\ Spanned(spans2, n) <=> Spanned(spans, n)
    BY <2>1 DEF Grown
  <2>4. ASSUME op2.isOpen, op2.first = n, NEW k \in Range(g[N + 1]), k > n
        PROVE  ~PropertyAt(more, k)
    <3>1. CASE k \in Range(h[N])
      <4>1. k \in 1 .. N
        BY <3>1 DEF Grown
      <4>2. ~PropertyAt(evs, k)
        BY <2>2, <2>4, <3>1 DEF Fate
      <4>3. QED
        BY <1>1, <4>1, <4>2
    <3>2. CASE k = N + 1
      BY <3>2
    <3>3. QED
      BY <3>1, <3>2
  <2>5. QED
    BY <2>1, <2>2, <2>3, <2>4 DEF Fate
<1>3. op2.isOpen => op2.first \in 1 .. N + 1 /\ PropertyAt(more, op2.first)
  BY <1>1 DEF Fates
<1>4. QED
  BY <1>2, <1>3 DEF Fates

(* A property that starts is the innermost, and all others enclose it.     *)
LEMMA FatesOpened ==
  ASSUME NEW N \in Nat, NEW evs, NEW more, NEW h, NEW g, Grown(evs, more, N, h, g), Nesting(evs, N, h),
         NEW spans, NEW op, Fates(evs, N, h, spans, op), ~Spanned(spans, N + 1),
         NEW op2, op2.isOpen, op2.first = N + 1,
         PropertyAt(more, N + 1), Range(g[N + 1]) = Range(h[N]) \cup {N + 1}
  PROVE  Fates(more, N + 1, g, spans, op2)
<1>1. /\ \A n \in 1 .. N: n # N + 1 /\ more[n] = evs[n] /\ (PropertyAt(more, n) <=> PropertyAt(evs, n))
      /\ \A n \in 1 .. N + 1: n \in 1 .. N \/ n = N + 1
      /\ N + 1 \in 1 .. N + 1
  BY DEF Grown, PropertyAt
<1>2. ASSUME NEW n \in 1 .. N, PropertyAt(more, n)
      PROVE  Fate(more, N + 1, g, spans, op2, n)
  <2>1. Fate(evs, N, h, spans, op, n) /\ more[n] = evs[n] /\ n # N + 1
    BY <1>1, <1>2 DEF Fates
  <2>2. /\ Enclosing(more, N + 1, g, n) <=> Enclosing(evs, N, h, n) \/ n \in Range(h[N])
        /\ n \in Range(g[N + 1]) <=> n \in Range(h[N])
    BY <2>1 DEF Grown
  <2>3. QED
    BY <2>1, <2>2 DEF Fate
<1>3. Fate(more, N + 1, g, spans, op2, N + 1)
  <2>1. ~Enclosing(evs, N, h, N + 1) /\ N + 1 \notin Range(h[N])
    BY NoneAhead
  <2>2. ~Enclosing(more, N + 1, g, N + 1) /\ N + 1 \in Range(g[N + 1])
    BY <2>1 DEF Grown
  <2>3. \A k \in Range(g[N + 1]): ~(k > N + 1)
    <3>1. \A k \in Range(h[N]): k \in 1 .. N
      BY DEF Grown
    <3>2. QED
      BY <3>1
  <2>4. QED
    BY <2>2, <2>3 DEF Fate
<1>4. QED
  BY <1>1, <1>2, <1>3 DEF Fates

(* The property that ends is the one in progress, and encloses none; or    *)
(* none is in progress, and the one that ends encloses another.            *)
LEMMA FatesClosed ==
  ASSUME NEW N \in Nat, NEW evs, NEW more, NEW h, NEW g, Grown(evs, more, N, h, g),
         NEW spans, NEW op, Fates(evs, N, h, spans, op),
         op.isOpen => op.hasId = HasId(evs[op.first].attrs),
         NEW last, last \in Range(h[N]), \A k \in Range(h[N]): k <= last, PropertyAt(evs, last),
         Range(g[N + 1]) = Range(h[N]) \ {last}, ~PropertyAt(more, N + 1),
         NEW spans2, \A n \in 1 .. N: Spanned(spans2, n)
                       <=> Spanned(spans, n) \/ (op.isOpen /\ op.hasId /\ n = op.first),
         NEW op2, ~op2.isOpen
  PROVE  Fates(more, N + 1, g, spans2, op2)
<1>1. /\ \A n \in 1 .. N: more[n] = evs[n] /\ (PropertyAt(more, n) <=> PropertyAt(evs, n))
      /\ \A n \in 1 .. N + 1: n \in 1 .. N \/ n = N + 1
  BY DEF Grown, PropertyAt
<1>2. last \in 1 .. N
  BY DEF Grown
<1>3. op.isOpen => op.first = last
  <2>1. SUFFICES ASSUME op.isOpen PROVE op.first = last
    OBVIOUS
  <2>2. op.first \in 1 .. N /\ PropertyAt(evs, op.first)
    BY <2>1 DEF Fates
  <2>3. Fate(evs, N, h, spans, op, op.first)
    BY <2>2 DEF Fates
  <2>4. op.first \in Range(h[N]) /\ \A k \in Range(h[N]): k > op.first => ~PropertyAt(evs, k)
    BY <2>1, <2>3 DEF Fate
  <2>5. op.first <= last /\ ~(last > op.first)
    BY <2>4
  <2>6. QED
    BY <1>2, <2>2, <2>5
<1>4. ASSUME NEW n \in 1 .. N + 1, PropertyAt(more, n)
      PROVE  Fate(more, N + 1, g, spans2, op2, n)
  <2>1. n \in 1 .. N /\ PropertyAt(evs, n) /\ more[n] = evs[n]
    BY <1>1, <1>4
  <2>2. Fate(evs, N, h, spans, op, n)
    BY <2>1 DEF Fates
  <2>3. /\ Enclosing(more, N + 1, g, n) <=> Enclosing(evs, N, h, n)
        /\ Spanned(spans2, n) <=> Spanned(spans, n) \/ (op.isOpen /\ op.hasId /\ n = last)
    BY <1>3, <2>1 DEF Grown
  <2>4. CASE n # last
    <3>1. n \in Range(g[N + 1]) <=> n \in Range(h[N])
      BY <2>4
    <3>2. ~(op.isOpen /\ op.first = n)
      BY <1>3, <2>4
    <3>3. QED
      BY <2>1, <2>2, <2>3, <2>4, <3>1, <3>2 DEF Fate
  <2>5. CASE n = last
    <3>1. n \notin Range(g[N + 1]) /\ n \in Range(h[N])
      BY <2>5
    <3>2. op.isOpen => op.first = n /\ op.hasId = HasId(evs[n].attrs)
      BY <1>3, <2>5
    <3>3. ~Spanned(spans, n)
      BY <2>2, <3>1 DEF Fate
    <3>4. op.isOpen => ~Enclosing(evs, N, h, n)
      BY <2>2, <3>2 DEF Fate
    <3>5. ~op.isOpen => Enclosing(evs, N, h, n)
      BY <2>2, <3>1 DEF Fate
    <3>6. QED
      BY <2>1, <2>3, <2>5, <3>1, <3>2, <3>3, <3>4, <3>5 DEF Fate
  <2>6. QED
    BY <2>4, <2>5
<1>5. QED
  BY <1>4 DEF Fates

(* One more span. *)
LEMMA SpannedOnce ==
  ASSUME NEW spans, IsSequence(spans), NEW first, NEW last, NEW n
  PROVE  Spanned(Append(spans, <<first, last>>), n) <=> Spanned(spans, n) \/ n = first
<1>1. PICK S: spans \in Seq(S)
  BY DEF IsSequence
<1> DEFINE span == <<first, last>>
           s == Append(spans, span)
<1>2. span[1] = first
  OBVIOUS
<1> HIDE DEF span
<1>3. /\ Len(spans) \in Nat /\ DOMAIN spans = 1 .. Len(spans) /\ DOMAIN s = 1 .. Len(spans) + 1
      /\ s[Len(spans) + 1] = span
      /\ \A i \in 1 .. Len(spans): s[i] = spans[i]
  BY <1>1
<1>4. /\ \A i \in 1 .. Len(spans): i \in 1 .. Len(spans) + 1
      /\ \A i \in 1 .. Len(spans) + 1: i \in 1 .. Len(spans) \/ i = Len(spans) + 1
      /\ Len(spans) + 1 \in 1 .. Len(spans) + 1
  BY <1>3
<1> HIDE DEF s
<1>5. Range(s) = Range(spans) \cup {span}
  BY <1>3, <1>4 DEF Range
<1>6. Spanned(s, n) <=> Spanned(spans, n) \/ n = first
  BY <1>2, <1>5 DEF Spanned
<1>7. QED
  BY <1>6 DEF s, span

(* Reading an event keeps the fates of all properties known.               *)
LEMMA EnclosingStep ==
  ASSUME TypeOK, TypeOK', PropertiesInv, EnclosingInv, NEW e, ReadEvent(e)
  PROVE  EnclosingInv'
<1> DEFINE N == Len(events)
<1>1. CASE UNCHANGED readerVars
  BY <1>1 DEF EnclosingInv, readerVars
<1>2. CASE ~UNCHANGED readerVars
  <2>1. /\ events' = Append(events, e) /\ stack' = OpenAfter(stack, e, N + 1)
        /\ e.kind = "end" => stack # << >> /\ events[stack[Len(stack)]].tag = e.tag
    BY <1>2, EnclosingEffect DEF Here
  <2>2. /\ N \in Nat /\ DOMAIN events = 1 .. N /\ events'[N + 1] = e
        /\ \A n \in 1 .. N: events'[n] = events[n]
    BY <2>1, Counted
  <2>3. Len(events') = N + 1
    <3>1. events \in Seq(Range(events))
      BY DEF TypeOK
    <3>2. QED
      BY <2>1, <3>1
  <2>4. PICK h: /\ Nesting(events, N, h) /\ h[N] = stack /\ Increasing(stack)
                /\ Fates(events, N, h, propertySpans, open)
    BY DEF EnclosingInv
  <2>5. stack \in Seq(1 .. N) /\ stack \in Seq(Nat)
    <3>1. stack \in Seq(1 .. N)
      BY <2>2 DEF TypeOK
    <3>2. QED
      BY <3>1
  <2>6. \A j \in Range(stack): j \in 1 .. N /\ events[j].kind = "start"
    <3>1. N \in 0 .. N
      BY <2>2
    <3>2. QED
      BY <2>4, <3>1 DEF Nesting
  <2>7. IsSequence(propertySpans) /\ ~Spanned(propertySpans, N + 1)
    <3>1. propertySpans \in Seq((1 .. N) \X (1 .. N))
      BY <2>2 DEF TypeOK
    <3>2. \A i \in DOMAIN propertySpans: propertySpans[i][1] \in 1 .. N
      BY <3>1
    <3>3. N + 1 \notin 1 .. N
      BY <2>2
    <3>4. QED
      BY <3>1, <3>2, <3>3, Zenon DEF IsSequence, Spanned, Range
  <2>8. open.isOpen => open.hasId = HasId(events[open.first].attrs)
    BY DEF PropertiesInv, Opening
  <2>9. \A n \in 1 .. N: n # N + 1
    BY <2>2
  <2>10. /\ e.kind = "start" => Increasing(stack') /\ Range(stack') = Range(stack) \cup {N + 1}
         /\ e.kind = "end" =>
              /\ Increasing(stack') /\ Range(stack') = Range(stack) \ {stack[Len(stack)]}
              /\ stack[Len(stack)] \in Range(stack) /\ \A k \in Range(stack): k <= stack[Len(stack)]
         /\ e.kind \notin {"start", "end"} => stack' = stack
    <3>1. CASE e.kind = "start"
      <4>1. stack' = Append(stack, N + 1)
        BY <2>1, <3>1 DEF OpenAfter
      <4>2. N + 1 \in Nat /\ \A k \in Range(stack): k < N + 1
        BY <2>2, <2>6
      <4>3. QED
        BY <2>4, <2>5, <3>1, <4>1, <4>2, Pushed
    <3>2. CASE e.kind = "end"
      <4>1. stack' = SubSeq(stack, 1, Len(stack) - 1) /\ stack # << >>
        BY <2>1, <3>2 DEF OpenAfter
      <4>2. QED
        BY <2>4, <2>5, <3>2, <4>1, Popped
    <3>3. CASE e.kind \notin {"start", "end"}
      BY <2>1, <3>3 DEF OpenAfter
    <3>4. QED
      BY <3>1, <3>2, <3>3
  <2>11. Increasing(stack') /\ Range(stack') \subseteq Range(stack) \cup {N + 1}
    BY <2>4, <2>10
  <2>12. \A j \in Range(stack'): j \in 1 .. N + 1 /\ events'[j].kind = "start"
    <3>1. ASSUME NEW j \in Range(stack') PROVE j \in 1 .. N + 1 /\ events'[j].kind = "start"
      <4>1. CASE j \in Range(stack)
        BY <2>2, <2>6, <4>1
      <4>2. CASE j \notin Range(stack)
        <5>1. e.kind = "start" /\ j = N + 1
          BY <2>10, <3>1, <4>2
        <5>2. QED
          BY <2>2, <5>1
      <4>3. QED
        BY <4>1, <4>2
    <3>2. QED
      BY <3>1
  <2>13. PICK more: more = events'
    OBVIOUS
  <2>14. PICK next, spans, op: next = stack' /\ spans = propertySpans' /\ op = open'
    OBVIOUS
  <2>15. PICK g: IsNext(events, more, N, h, next, g)
    <3>1. next = OpenAfter(h[N], more[N + 1], N + 1)
      BY <2>1, <2>2, <2>4, <2>13, <2>14
    <3>2. \A i \in 1 .. N: more[i] = events[i]
      BY <2>2, <2>13
    <3>3. \A j \in Range(next): j \in 1 .. N + 1 /\ more[j].kind = "start"
      BY <2>12, <2>13, <2>14
    <3>4. N \in Nat /\ Nesting(events, N, h)
      BY <2>2, <2>4
    <3> HIDE DEF N
    <3>5. QED
      BY <3>1, <3>2, <3>3, <3>4, NestingGrows
  <2>16. Grown(events, more, N, h, g)
    BY <2>2, <2>4, <2>6, <2>13, <2>15 DEF Grown, IsNext
  <2>17. Nesting(more, N + 1, g) /\ g[N + 1] = next
    BY <2>15, Zenon DEF IsNext
  <2>18. PropertyAt(more, N + 1) <=> Tagged(e, "Property") /\ e.kind = "start"
    BY <2>2, <2>13 DEF PropertyAt
  <2>19. N \in Nat /\ Nesting(events, N, h) /\ Fates(events, N, h, propertySpans, open)
    BY <2>2, <2>4
  <2>20. \A last, n: Spanned(Append(propertySpans, <<last, N + 1>>), n) <=> Spanned(propertySpans, n) \/ n = last
    BY <2>7, SpannedOnce
  <2> HIDE DEF N
  <2>21. ASSUME /\ e.kind \notin {"start", "end"}
                /\ op = open \/ op = [open EXCEPT !.prop.value = @ \o e.text]
                /\ spans = propertySpans \/ spans = Append(propertySpans, <<N + 1, N + 1>>)
        PROVE  Fates(more, N + 1, g, spans, op)
    <3>1. op.isOpen = open.isOpen /\ op.first = open.first
      <4>1. open \in OpenProperties
        BY DEF TypeOK
      <4>2. QED
        BY <2>21, <4>1 DEF OpenProperties
    <3>2. \A n \in 1 .. N: Spanned(spans, n) <=> Spanned(propertySpans, n)
      <4>1. \A n: Spanned(Append(propertySpans, <<N + 1, N + 1>>), n) <=> Spanned(propertySpans, n) \/ n = N + 1
        BY <2>20, Zenon
      <4>2. QED
        BY <2>9, <2>21, <4>1
    <3>3. /\ Range(g[N + 1]) = Range(h[N]) /\ ~PropertyAt(more, N + 1)
          /\ Range(g[N + 1]) \subseteq Range(h[N]) \cup {N + 1}
      BY <2>4, <2>10, <2>14, <2>17, <2>18, <2>21
    <3>4. QED
      BY <2>16, <2>19, <3>1, <3>2, <3>3, FatesKept
  <2>22. ASSUME e.kind \in {"start", "end"} /\ e.tag # "Property" /\ spans = propertySpans /\ op = open
        PROVE  Fates(more, N + 1, g, spans, op)
    <3>1. ~PropertyAt(more, N + 1) /\ Range(g[N + 1]) \subseteq Range(h[N]) \cup {N + 1}
      BY <2>4, <2>11, <2>14, <2>17, <2>18, <2>22 DEF Tagged
    <3>2. ASSUME NEW n \in 1 .. N, PropertyAt(events, n)
          PROVE  n \in Range(g[N + 1]) <=> n \in Range(h[N])
      <4>1. CASE e.kind = "start"
        BY <2>4, <2>9, <2>10, <2>14, <2>17, <4>1
      <4>2. CASE e.kind = "end"
        <5>1. events[stack[Len(stack)]].tag # "Property"
          BY <2>1, <2>22, <4>2
        <5>2. n # stack[Len(stack)]
          BY <3>2, <5>1 DEF PropertyAt, Tagged
        <5>3. QED
          BY <2>4, <2>10, <2>14, <2>17, <4>2, <5>2
      <4>3. QED
        BY <2>22, <4>1, <4>2
    <3>3. QED
      BY <2>16, <2>19, <2>22, <3>1, <3>2, FatesKept
  <2>23. ASSUME /\ Tagged(e, "Property") /\ e.kind = "start"
                /\ op.isOpen /\ op.first = N + 1 /\ spans = propertySpans
        PROVE  Fates(more, N + 1, g, spans, op)
    <3>1. PropertyAt(more, N + 1) /\ Range(g[N + 1]) = Range(h[N]) \cup {N + 1}
      BY <2>4, <2>10, <2>14, <2>17, <2>18, <2>23
    <3>2. ~Spanned(propertySpans, N + 1)
      BY <2>7
    <3>3. QED
      BY <2>16, <2>19, <2>23, <3>1, <3>2, FatesOpened
  <2>24. ASSUME /\ e.kind = "end" /\ e.tag = "Property" /\ ~op.isOpen
                /\ spans = IF open.isOpen /\ open.hasId
                           THEN Append(propertySpans, <<open.first, N + 1>>) ELSE propertySpans
        PROVE  Fates(more, N + 1, g, spans, op)
    <3>1. PICK last: last = stack[Len(stack)]
      OBVIOUS
    <3>2. /\ last \in Range(h[N]) /\ \A k \in Range(h[N]): k <= last
          /\ Range(g[N + 1]) = Range(h[N]) \ {last}
      BY <2>4, <2>10, <2>14, <2>17, <2>24, <3>1
    <3>3. PropertyAt(events, last)
      BY <2>1, <2>4, <2>6, <2>24, <3>1, <3>2 DEF PropertyAt, Tagged, IsTag
    <3>4. ~PropertyAt(more, N + 1)
      BY <2>18, <2>24
    <3>5. \A n \in 1 .. N: Spanned(spans, n)
             <=> Spanned(propertySpans, n) \/ (open.isOpen /\ open.hasId /\ n = open.first)
      BY <2>20, <2>24
    <3>6. QED
      BY <2>8, <2>16, <2>19, <2>24, <3>2, <3>3, <3>4, <3>5, FatesClosed
  <2>25. Fates(more, N + 1, g, spans, op)
    <3>1. Here = N + 1
      BY DEF Here, N
    <3>2. spans = propertySpans' /\ op = open'
      BY <2>14
    <3>3. CASE /\ e.kind \notin {"start", "end"}
               /\ open' = open \/ open' = [open EXCEPT !.prop.value = @ \o e.text]
               /\ UNCHANGED propertySpans \/ propertySpans' = Append(propertySpans, <<Here, Here>>)
      BY <2>21, <3>1, <3>2, <3>3
    <3>4. CASE e.kind \in {"start", "end"} /\ e.tag # "Property" /\ UNCHANGED <<propertySpans, open>>
      BY <2>22, <3>2, <3>4
    <3>5. CASE /\ Tagged(e, "Property") /\ e.kind = "start"
               /\ open'.isOpen /\ open'.first = Here /\ UNCHANGED propertySpans
      BY <2>23, <3>1, <3>2, <3>5
    <3>6. CASE /\ e.kind = "end" /\ e.tag = "Property" /\ ~open'.isOpen
               /\ propertySpans' = IF open.isOpen /\ open.hasId
                                   THEN Append(propertySpans, <<open.first, Here>>) ELSE propertySpans
      BY <2>24, <3>1, <3>2, <3>6
    <3>7. QED
      BY <1>2, <3>3, <3>4, <3>5, <3>6, EnclosingEffect
  <2>26. /\ Nesting(events', N + 1, g) /\ g[N + 1] = stack'
         /\ Fates(events', N + 1, g, propertySpans', open')
    BY <2>13, <2>14, <2>17, <2>25, Zenon
  <2>27. QED
    BY <2>3, <2>11, <2>26 DEF EnclosingInv
<1>3. QED
  BY <1>1, <1>2

(* Nothing is open and nothing enclosing in an empty document.             *)
LEMMA NothingEnclosing ==
  ASSUME NEW evs, NEW spans, NEW op, ~op.isOpen
  PROVE  \E h: Nesting(evs, 0, h) /\ h[0] = << >> /\ Increasing(<< >>) /\ Fates(evs, 0, h, spans, op)
<1> DEFINE h == [k \in 0 .. 0 |-> << >>]
<1>1. h[0] = << >> /\ \A k \in 0 .. 0: Range(h[k]) = {}
  BY DEF Range
<1>2. Nesting(evs, 0, h)
  BY <1>1 DEF Nesting
<1>3. Fates(evs, 0, h, spans, op)
  BY DEF Fates
<1>4. Increasing(<< >>)
  BY DEF Increasing
<1>5. QED
  BY <1>1, <1>2, <1>3, <1>4

(* Every step keeps the fates of all properties known.                     *)
LEMMA EnclosingInvariant == Spec => [](Collected /\ EnclosingInv)
<1>1. Init => EnclosingInv
  <2> SUFFICES ASSUME Init PROVE EnclosingInv
    OBVIOUS
  <2>1. events = << >> /\ stack = << >> /\ ~open.isOpen
    BY ClosedType DEF Init, NothingRead
  <2>2. Len(events) = 0
    BY <2>1
  <2>3. QED
    BY <2>1, <2>2, NothingEnclosing DEF EnclosingInv
<1>2. Collected /\ EnclosingInv /\ [Next]_vars => EnclosingInv'
  <2> SUFFICES ASSUME Collected, EnclosingInv, [Next]_vars PROVE EnclosingInv'
    OBVIOUS
  <2>1. TypeOK /\ PropertiesInv /\ TypeOK'
    BY InvStep DEF Collected, IInv
  <2>2. CASE UNCHANGED readerVars
    BY <2>2 DEF EnclosingInv, readerVars
  <2>3. CASE StartReading
    <3>1. events' = << >> /\ stack' = << >> /\ ~open'.isOpen
      BY <2>3, ClosedType DEF StartReading
    <3>2. Len(events') = 0
      BY <3>1
    <3>3. QED
      BY <3>1, <3>2, NothingEnclosing DEF EnclosingInv
  <2>4. CASE \E e: ReadEvent(e)
    BY <2>1, <2>4, EnclosingStep
  <2>5. QED
    BY <2>2, <2>3, <2>4, StepKinds DEF Collected
<1>3. QED
  BY <1>1, <1>2, CollectedInvariant, PTL DEF Spec

-------------------------------------------------------------------------------
(* The theorems *)

(* In any file, what is recorded of a tag is its location, unless another  *)
(* attribute looks like one.                                               *)
THEOREM LocationsCorrect == Spec => []LocationsAreAttributes
<1>1. Collected => LocationsAreAttributes
  <2> SUFFICES ASSUME Collected, NEW n \in DOMAIN events, IsTag(events[n]), ~LooksAlike(n)
               PROVE  {l.is: l \in {k \in Range(locations): k.event = n}}
                        = IF events[n].tag = "FITSKeyword" THEN {}
                          ELSE {events[n].attrs[i].location: i \in Located(n)}
    BY DEF LocationsAreAttributes
  <2>1. IsEvent(events[n]) /\ {k \in Range(locations): k.event = n} = Record(events[n], n)
    BY DEF Collected, IInv, TypeOK, LocationsInv
  <2>2. {l.is: l \in {k \in Range(locations): k.event = n}} = {l.is: l \in Record(events[n], n)}
    BY <2>1
  <2>3. QED
    BY <2>1, <2>2, RecordIsLocation
<1>2. QED
  BY <1>1, CollectedInvariant, PTL

(* In any file, whatever comes between and inside its properties, the map  *)
(* holds for each id what the last element with it says.                   *)
THEOREM PropertiesCorrect == Spec => []PropertiesFollowSpans
<1>1. Collected => PropertiesFollowSpans
  BY DEF Collected, PropertiesInv
<1>2. QED
  BY <1>1, CollectedInvariant, PTL

(* In any file, a property in the long form is read unless another one in  *)
(* the long form is inside it.                                             *)
THEOREM InnermostAreRead == Spec => []OnlyEnclosingPropertiesAreLost
<1>1. TypeOK /\ EnclosingInv => OnlyEnclosingPropertiesAreLost
  <2> SUFFICES ASSUME TypeOK, EnclosingInv, stack = << >>,
                      NEW n \in DOMAIN events, IsPropertyStart(n), HasId(events[n].attrs)
               PROVE  n \in {s[1]: s \in Range(propertySpans)}
                        <=> \A m \in DOMAIN events: IsPropertyStart(m) => n \notin Range(OpenBefore(m))
    BY DEF OnlyEnclosingPropertiesAreLost
  <2> DEFINE N == Len(events)
  <2>1. PICK h: /\ Nesting(events, N, h) /\ h[N] = stack
                /\ Fates(events, N, h, propertySpans, open)
    BY DEF EnclosingInv
  <2>2. N \in Nat /\ DOMAIN events = 1 .. N
    <3>1. events \in Seq(Range(events))
      BY DEF TypeOK
    <3>2. QED
      BY <3>1
  <2>3. \A m \in 1 .. N: OpenBefore(m) = h[m - 1]
    BY <2>1, <2>2, OpenBeforeIs
  <2>4. \A m: PropertyAt(events, m) <=> IsPropertyStart(m)
    BY DEF PropertyAt, IsPropertyStart
  <2> HIDE DEF N
  <2>5. Fate(events, N, h, propertySpans, open, n) /\ n \notin Range(h[N])
    <3>1. Range(h[N]) = {}
      BY <2>1 DEF Range
    <3>2. QED
      BY <2>1, <2>2, <2>4, <3>1 DEF Fates
  <2>6. Spanned(propertySpans, n) <=> ~Enclosing(events, N, h, n)
    BY <2>5 DEF Fate
  <2>7. Enclosing(events, N, h, n)
          <=> \E m \in DOMAIN events: IsPropertyStart(m) /\ n \in Range(OpenBefore(m))
    BY <2>2, <2>3, <2>4 DEF Enclosing
  <2>8. QED
    BY <2>6, <2>7 DEF Spanned
<1>2. QED
  BY <1>1, EnclosingInvariant, PTL DEF Collected, IInv

(* Whatever header the crate writes, it can read it, unless it is longer   *)
(* than the longest header that the crate reads.                           *)
THEOREM OwnRead == Measured => (Spec => []OwnIsReadable)
<1> SUFFICES ASSUME Measured PROVE Spec => []OwnIsReadable
  OBVIOUS
<1>1. OwnFileInv => OwnIsReadable
  BY DEF OwnFileInv, OwnIsReadable
<1>2. QED
  BY <1>1, OwnFileInvariant, PTL

(* The location in a header that the crate has written and can read leads  *)
(* to all bytes behind that header, though the header holds it.            *)
THEOREM OwnLocated == Measured => (Spec => []OwnLocatesData)
<1> SUFFICES ASSUME Measured PROVE Spec => []OwnLocatesData
  OBVIOUS
<1>1. IInv /\ OwnFileInv => OwnLocatesData
  <2> SUFFICES ASSUME IInv, OwnFileInv, Own, phase = "done"
               PROVE  /\ ImageIsResolved /\ Len(locations) = 1 /\ imageEnd # 0
                      /\ locations[1].is.offset = Preamble + container.length
                      /\ locations[1].is.offset + locations[1].is.size = container.bytes
    BY DEF OwnLocatesData
  <2>1. PICK size, length, location:
           /\ size \in Nat /\ length \in Nat /\ container = Whole(length, size)
           /\ location.form = "attachment" /\ location.size = size
           /\ location.offset = Preamble + length
           /\ images = 1 /\ imageEnd # 0 /\ locations = <<OwnLocation(location)>>
    BY OwnDone
  <2>2. OwnLocation(location).isImage /\ OwnLocation(location).is = location
    BY DEF OwnLocation
  <2>3. container.length = length /\ container.bytes = Preamble + length + size
    BY <2>1 DEF Whole
  <2>4. PICK l: l = OwnLocation(location)
    OBVIOUS
  <2>5. locations = <<l>> /\ l.isImage /\ l.is = location
    BY <2>1, <2>2, <2>4
  <2>6. Len(locations) = 1 /\ locations[1] = l /\ Range(locations) = {l}
    BY <2>5 DEF Range
  <2>7. ImageIsResolved
    BY <2>1, <2>5, <2>6 DEF ImageIsResolved
  <2>8. QED
    BY <2>1, <2>3, <2>5, <2>6, <2>7
<1>2. QED
  BY <1>1, OwnFileInvariant, PTL

(* Of hints with decimal numbers the writer computes the size that an      *)
(* image of the geometry has which the reader reports, unless it does not  *)
(* fit a usize.                                                            *)
THEOREM SizesCovered == Measured => (Spec => []SizeCoversImage)
<1> SUFFICES ASSUME Measured PROVE Spec => []SizeCoversImage
  OBVIOUS
<1>1. IInv /\ OwnFileInv => SizeCoversImage
  <2> SUFFICES ASSUME IInv, OwnFileInv, Own, phase = "done", geometry.state = "ok",
                      \A i \in DOMAIN geometry.items: geometry.items[i].notation # "radix"
               PROVE  LET size == Product(Numbers(geometry.items)) * SampleBytes[hints.format]
                      IN  DataSize(hints.geometry, hints.format) = size <=> size < Usize
    BY DEF SizeCoversImage
  <2>1. hints \in Hints /\ \E location: geometry = GeometryAttr(ImageTag(hints, location).attrs)
    BY OwnDone
  <2>2. PICK hint \in Hints: hint = hints
    BY <2>1
  <2>3. PICK location: geometry = GeometryAttr(ImageTag(hint, location).attrs)
    BY <2>1, <2>2
  <2>4. geometry.items = hint.geometry /\ IsGeometry(hint.geometry)
    BY <2>3, GeometryIsHinted
  <2>5. hint.geometry \in Seq(Range(hint.geometry)) /\ hint.format \in DOMAIN SampleBytes
    BY SizeAssumption
  <2>6. QED
    BY <2>2, <2>4, <2>5, SizeIsRight
<1>2. QED
  BY <1>1, OwnFileInvariant, PTL
===============================================================================
