---------------------------- MODULE HeaderRoundTrip ----------------------------
(***************************************************************************)
(* A container from memory to bytes and back: the writer                   *)
(* (src/src/writer.rs), the preamble checks of parse and read_from_file,   *)
(* and the event loop of HeaderReader.  The crate reads its own output,    *)
(* and then writes what it has read, or it reads what others wrote, event  *)
(* by event.                                                               *)
(***************************************************************************)
EXTENDS HeaderReader, TypedValue, LocationText

CONSTANTS
  Typed,          \* values of Rust types, as [type, is]
  Headers,        \* headers in memory to write
  Hints,          \* StructuralHints: geometry and sample format
  DataLengths,    \* lengths of the data given to write_to_file
  PropertyIds,    \* ids of properties
  InOrder(_),     \* a set of ids, in the order of the map
  MaxHeader,      \* MAX_HEADER_LEN
  OffsetWidth,    \* digits the writer pads the offset to
  EventLength(_), \* bytes of an event that holds no location
  Containers,     \* preambles of files written by others
  Foreign,        \* events of headers written by others
  MaxEvents,      \* bound on the length of those headers
  MaxCycles       \* bound on writing and reading in turn

Preamble == 16

IsHeader(h) ==
  /\ h = [keywords |-> h.keywords, properties |-> h.properties]
  /\ h.keywords \in Seq(KeywordRecord)
  /\ \A i \in DOMAIN h.keywords: h.keywords[i].name # << >>
  /\ DOMAIN h.properties \subseteq PropertyIds
  /\ h.properties \in [DOMAIN h.properties -> PropertyRecord]

ASSUME HeaderAssumption ==
  /\ \A h \in Headers: IsHeader(h)
  /\ \A id \in PropertyIds: id \in Text /\ Normalized(id) \in PropertyIds
  /\ \A ids \in SUBSET PropertyIds:
       /\ InOrder(ids) \in Seq(ids) /\ ids = Range(InOrder(ids))
       /\ \A i, j \in DOMAIN InOrder(ids): InOrder(ids)[i] = InOrder(ids)[j] => i = j

ASSUME TypedAssumption == \A v \in Typed: v.type \in {"i64", "u32", "f64", "bool"} /\ IsTyped(v)

(* Sizes are of type usize; any offset in a header that may be read fits   *)
(* the space that the writer leaves for it.                                *)
ASSUME SizeAssumption ==
  /\ \A h \in Hints:
       /\ h.format \in DOMAIN SampleBytes /\ h.geometry \in Seq(Range(h.geometry))
       /\ \A i \in DOMAIN h.geometry: h.geometry[i].notation \in Notations /\ h.geometry[i].n \in Nat
  /\ \A n \in DataLengths \cup {DataSize(h.geometry, h.format): h \in Hints}: n \in Nat /\ Digits(n) \in Nat
  /\ MaxHeader \in Nat /\ OffsetWidth \in Nat
  /\ \A n \in 0 .. Preamble + MaxHeader: Digits(n) \in 0 .. OffsetWidth

ASSUME ForeignAssumption == MaxCycles \in Nat \ {0} /\ \A e \in Foreign: IsEvent(e)

VARIABLES
  memory,     \* the header in memory, before it is written
  hints,
  container,  \* the preamble and the lengths of the bytes
  written,    \* the events of the header, if the crate wrote it
  cycles,     \* how often the crate has written it
  res         \* the outcome of opening

rtVars == <<memory, hints, container, written, cycles, res>>
vars == <<phase, readerVars, rtVars>>

-------------------------------------------------------------------------------
(* The writer *)

LocationAt(offset, size) == [form |-> "attachment", offset |-> offset, size |-> size]

(* render_xml: the image encloses keywords, then properties. *)
Document(header, h, location) ==
  LET ids == InOrder(DOMAIN header.properties)
  IN  <<Event("other", "", << >>, << >>), Start("xisf", << >>),
        Start("Image", <<Attr("geometry", h.geometry), Attr("sampleFormat", << >>), Attr("colorSpace", << >>),
                         SpelledAttr("location", "location", << >>, location)>>)>>
      \o [i \in DOMAIN header.keywords |-> Empty("FITSKeyword", RenderKeyword(header.keywords[i]))]
      \o [i \in DOMAIN ids |-> Empty("Property", RenderProperty(ids[i], header.properties[ids[i]]))]
      \o <<End("Image"), End("xisf")>>

(* Bytes of the document when the offset takes `width` characters: those   *)
(* of the events with no locations in them, and those of the location.     *)
Bare(e) == [e EXCEPT !.attrs = [i \in DOMAIN @ |-> [@[i] EXCEPT !.location = NoLocation]]]
XmlLength(doc, size, width) ==
  LET upto[n \in 0 .. Len(doc)] == IF n = 0 THEN 0 ELSE upto[n - 1] + EventLength(Bare(doc[n]))
  IN  upto[Len(doc)] + LocationLength(0, size) - Digits(0) + width

Max2(m, n) == IF m < n THEN n ELSE m

(* Slip: the offset is printed unpadded. *)
SlipOffsetChars(offset) == Digits(offset)

OffsetChars(offset) == Max2(OffsetWidth, Digits(offset))

(* render_container_header: the length of a first rendering, with a        *)
(* placeholder for the offset, determines the offset of the second.        *)
Render(header, h, size) ==
  LET length == XmlLength(Document(header, h, NoLocation), size, OffsetWidth)
      offset == Preamble + length
      doc == Document(header, h, LocationAt(offset, size))
  IN  [doc |-> doc, length |-> XmlLength(doc, size, OffsetChars(offset))]

Whole(length, data) == [bytes |-> Preamble + length + data, signed |-> TRUE, length |-> length, utf8 |-> TRUE]

WriteAs(size, data) ==
  LET r == Render(memory, hints, size)
  IN  /\ written' = r.doc /\ container' = Whole(r.length, data)
      /\ cycles' = cycles + 1 /\ phase' = "written"
      /\ UNCHANGED <<readerVars, memory, hints, res>>

(* to_header_bytes, the caller appending the data.  The overflow of        *)
(* data_size wraps or ends the program, as the build has it.               *)
ToHeaderBytes ==
  /\ phase = "memory"
  /\ \/ WriteAs(DataSize(hints.geometry, hints.format), DataSize(hints.geometry, hints.format))
     \/ /\ Overflows(hints.geometry)
        /\ phase' = "panic" /\ UNCHANGED <<readerVars, rtVars>>

WriteToFile == phase = "memory" /\ \E n \in DataLengths: WriteAs(n, n)

-------------------------------------------------------------------------------
(* The preamble *)

(* Slip: the longest allowed header is refused. *)
SlipSplitPreamble(c) ==
  IF c.bytes < Preamble THEN "TooSmall"
  ELSE IF ~c.signed THEN "InvalidSignature"
  ELSE IF c.length >= MaxHeader THEN "HeaderTooLarge"
  ELSE IF c.bytes < Preamble + c.length THEN "TooSmall" ELSE "ok"

(* split_preamble, each check after the one before it has passed *)
SplitPreamble(c) ==
  IF c.bytes < Preamble THEN "TooSmall"
  ELSE IF ~c.signed THEN "InvalidSignature"
  ELSE IF c.length > MaxHeader THEN "HeaderTooLarge"
  ELSE IF c.bytes < Preamble + c.length THEN "TooSmall" ELSE "ok"

(* Header::parse *)
ParseResult(c) ==
  IF SplitPreamble(c) # "ok" THEN SplitPreamble(c) ELSE IF c.utf8 THEN "ok" ELSE "Utf8"

(* Header::read_from_file reads the preamble, then exactly the header, and *)
(* parses the two.                                                         *)
ReadFromFileResult(c) ==
  IF c.bytes < Preamble THEN "Io"
  ELSE IF ~c.signed THEN "InvalidSignature"
  ELSE IF c.length > MaxHeader THEN "HeaderTooLarge"
  ELSE IF c.bytes < Preamble + c.length THEN "Io"
  ELSE ParseResult([c EXCEPT !.bytes = Preamble + c.length])

Open(result) ==
  /\ phase = "written"
  /\ res' = result
  /\ \/ result = "ok" /\ phase' = "reading" /\ StartReading
     \/ result # "ok" /\ phase' = "error" /\ UNCHANGED readerVars
  /\ UNCHANGED <<memory, hints, container, written, cycles>>

Parse == Open(ParseResult(container))
ReadFromFile == Open(ReadFromFileResult(container))

-------------------------------------------------------------------------------
(* The whole *)

Own == cycles > 0

ReadOwn == /\ Own /\ Len(events) < Len(written)
           /\ ReadEvent(written[Here])
           /\ UNCHANGED rtVars
ReadForeign == /\ ~Own /\ Len(events) < MaxEvents
               /\ \E e \in Foreign: ReadEvent(e)
               /\ UNCHANGED rtVars
Finish == (Own => Len(events) = Len(written)) /\ EndOfInput /\ UNCHANGED rtVars

(* What was read is what is written next. *)
Again ==
  /\ phase = "done" /\ Own /\ cycles < MaxCycles
  /\ memory' = [keywords |-> keywords, properties |-> properties]
  /\ phase' = "memory"
  /\ UNCHANGED <<readerVars, hints, container, written, cycles, res>>

InitOwn == /\ memory \in Headers /\ hints \in Hints
           /\ container = Whole(0, 0) /\ phase = "memory"
InitForeign == /\ memory = [keywords |-> << >>, properties |-> [id \in {} |-> Closed.prop]]
               /\ hints = CHOOSE h \in Hints: TRUE
               /\ container \in Containers /\ phase = "written"
Init == /\ InitOwn \/ InitForeign
        /\ NothingRead
        /\ written = << >> /\ cycles = 0 /\ res = "ok"

Next == ToHeaderBytes \/ WriteToFile \/ Parse \/ ReadFromFile \/ ReadOwn \/ ReadForeign \/ Finish \/ Again

Spec == Init /\ [][Next]_vars
-------------------------------------------------------------------------------
(* What is checked *)

TypeOK ==
  /\ phase \in {"memory", "written", "reading", "done", "error", "panic"}
  /\ events \in Seq(Range(events)) /\ \A n \in DOMAIN events: IsEvent(events[n])
  /\ stack \in Seq(DOMAIN events)
  /\ keywords \in Seq(KeywordRecord) /\ keywordSpans \in Seq(DOMAIN events)
  /\ DOMAIN properties \subseteq Text /\ properties \in [DOMAIN properties -> PropertyRecord]
  /\ propertySpans \in Seq((DOMAIN events) \X (DOMAIN events))
  /\ open \in OpenProperties
  /\ open.isOpen => open.first \in DOMAIN events
  /\ images \in 0 .. Len(events) /\ imageEnd \in 0 .. Len(events)
  /\ cycles \in 0 .. MaxCycles

IsKeyword(n) == Tagged(events[n], "FITSKeyword") /\ IsNamed(events[n].attrs)
IsImage(n) == Tagged(events[n], "Image")

(* "aligned 1:1 with Header::keywords by index" (reader.rs, XmlIndex):     *)
(* whatever is skipped in between, span i is the tag keyword i was read    *)
(* from, in document order, and no named keyword goes unread.              *)
SpansNameKeywords ==
  /\ DOMAIN keywordSpans = DOMAIN keywords
  /\ \A i \in DOMAIN keywords: /\ IsKeyword(keywordSpans[i])
                                /\ keywords[i] = ParseKeyword(events[keywordSpans[i]].attrs)
  /\ \A i, j \in DOMAIN keywords: i < j => keywordSpans[i] < keywordSpans[j]
  /\ \A n \in DOMAIN events: IsKeyword(n) => n \in Range(keywordSpans)

(* The geometry is that of the only image, and no geometry once there are  *)
(* two, whatever either of them declares.                                  *)
GeometryIsTheImages ==
  LET seen == {n \in DOMAIN events: IsImage(n)}
  IN  geometry = IF seen = {} THEN Unseen
                 ELSE IF \E m, n \in seen: m # n THEN Geometry("multiple", << >>)
                 ELSE GeometryAttr(events[CHOOSE n \in seen: TRUE].attrs)

(* What the content of an element says, by the kinds of events in it. *)
Content(span, kinds) ==
  FlattenSeq([k \in 1 .. span[2] - span[1] |->
                LET e == events[span[1] + k] IN IF e.kind \in kinds THEN e.text ELSE << >>])
AttrsOf(span) == events[span[1]].attrs
IdOfSpan(span) == IdOf(AttrsOf(span))
LastOfItsId(i) ==
  \A j \in DOMAIN propertySpans: IdOfSpan(propertySpans[j]) = IdOfSpan(propertySpans[i]) => j <= i

(* The map holds, for each id, what the last element with that id to be    *)
(* closed says in its attributes and, failing a value there, in its own    *)
(* content; the spans follow each other by their ends.                     *)
PropertiesFollowSpans ==
  /\ DOMAIN properties = {IdOfSpan(s): s \in Range(propertySpans)}
  /\ \A i \in DOMAIN propertySpans: LastOfItsId(i) =>
       LET span == propertySpans[i]
           p == ParseProperty(AttrsOf(span))
       IN  properties[IdOfSpan(span)] =
             IF HasValue(AttrsOf(span)) THEN p
             ELSE [p EXCEPT !.value = Content(span, {"text", "cdata"})]
  /\ \A i, j \in DOMAIN propertySpans: i < j => propertySpans[i][2] < propertySpans[j][2]

(* A property in the long form has its value "from the element's child     *)
(* text" (property.rs), references to entities included.                   *)
ContentIsWhole ==
  \A i \in DOMAIN propertySpans:
    LET span == propertySpans[i]
    IN  LastOfItsId(i) /\ ~HasValue(AttrsOf(span)) =>
          properties[IdOfSpan(span)].value = Content(span, {"text", "cdata", "reference"})

(* The elements open after event e, number n, if s are open before it, and *)
(* those open before event n.                                              *)
OpenAfter(s, e, n) ==
  CASE e.kind = "start" -> Append(s, n)
    [] e.kind = "end" -> SubSeq(s, 1, Len(s) - 1)
    [] OTHER -> s
OpenBefore(n) ==
  LET upto[k \in 0 .. Len(events)] == IF k = 0 THEN << >> ELSE OpenAfter(upto[k - 1], events[k], k)
  IN  upto[n - 1]
IsPropertyStart(n) == Tagged(events[n], "Property") /\ events[n].kind = "start"

(* "extracts every <FITSKeyword> and <Property>" (reader.rs, parse), with  *)
(* one exception: of properties one inside the other, in the long form,    *)
(* only the innermost is read.                                             *)
OnlyEnclosingPropertiesAreLost ==
  phase = "done" /\ stack = << >> =>
    \A n \in DOMAIN events: IsPropertyStart(n) /\ HasId(events[n].attrs) =>
      (n \in {s[1]: s \in Range(propertySpans)}
         <=> \A m \in DOMAIN events: IsPropertyStart(m) => n \notin Range(OpenBefore(m)))

Reads(attrs) == {i \in DOMAIN attrs: attrs[i].location.form # "none"}
LooksAlike(n) ==
  \E i \in Reads(events[n].attrs):
    events[n].attrs[i].key # "location" \/ Reads(events[n].attrs) # {i}
Located(n) == {i \in Having(events[n].attrs, "location"):
                 events[n].attrs[i].location.form \in {"attachment", "malformed"}}

(* The locations are the location attributes that lead to attachments, of  *)
(* all tags but keywords, unless another attribute of the tag is a second  *)
(* one or its text reads like one ("a plain scan ... is sufficient").      *)
LocationsAreAttributes ==
  \A n \in DOMAIN events:
    IsTag(events[n]) /\ ~LooksAlike(n) =>
      {l.is: l \in {k \in Range(locations): k.event = n}}
        = IF events[n].tag = "FITSKeyword" THEN {} ELSE {events[n].attrs[i].location: i \in Located(n)}

-------------------------------------------------------------------------------
(* Writing, then reading *)

HeaderRead == [keywords |-> keywords, properties |-> properties]
IsStorableHeader(h) ==
  /\ \A i \in DOMAIN h.keywords: IsStorable(h.keywords[i])
  /\ \A id \in DOMAIN h.properties: Smooth(id) /\ IsStorableProperty(h.properties[id])

(* "Header::parse(&header.to_header_bytes(&hints)) round-trips back to     *)
(* header" (writer.rs), with exactly the exceptions IsStorable names:      *)
(* line breaks, quoted literals, and commentary keywords with a comment    *)
(* or with a text of the other kind.                                       *)
RoundTripsExactly == phase = "done" /\ Own => (HeaderRead = memory <=> IsStorableHeader(memory))

(* What cannot be stored is changed once: the second cycle of writing and  *)
(* reading changes nothing more.                                           *)
SettlesAfterOneCycle == phase = "done" /\ cycles >= 2 => HeaderRead = memory

(* The crate reads what it writes, up to the longest header it accepts.    *)
OwnIsReadable == Own /\ phase = "error" => container.length > MaxHeader

(* Written once more with its own length in it, the header still has that  *)
(* length: the location leads to exactly the bytes behind the header, and  *)
(* update_file finds one image that it can insert into.                    *)
OwnLocatesData ==
  Own /\ phase = "done" =>
    /\ ImageIsResolved /\ Len(locations) = 1 /\ imageEnd # 0
    /\ locations[1].is.offset = Preamble + container.length
    /\ locations[1].is.offset + locations[1].is.size = container.bytes

(* The size the writer derives from the hints is that of the image the     *)
(* reader reports, if all numbers are decimal and the size fits; and not   *)
(* otherwise.                                                              *)
SizeCoversImage ==
  LET size == Product(Numbers(geometry.items)) * SampleBytes[hints.format]
  IN  Own /\ phase = "done" /\ geometry.state = "ok"
      /\ (\A i \in DOMAIN geometry.items: geometry.items[i].notation # "radix") =>
        (DataSize(hints.geometry, hints.format) = size <=> size < Usize)

(* A text that denotes an integer never reads as another integer, however  *)
(* it is written and however large it is, and a plain i64 always reads.    *)
IntegersReadExactly ==
  \A i \in DOMAIN keywords:
    LET text == keywords[i].value.text
        n == NumberOf(Trimmed(text)).quarters
    IN  IsNumber(Trimmed(text)) /\ n % 4 = 0 =>
          /\ FieldI64(text) \in {None, Some(n \div 4)}
          /\ IsI64(Trimmed(text)) => FieldI64(text).some
          /\ FieldU32(text) \in {None, Some(n \div 4)}
          /\ FieldU32(text).some => n \div 4 \in 0 .. MaxU32

(* A keyword set to a Rust value reads as that value, of that type, after  *)
(* the file has been written and read.                                     *)
TypedSurvives ==
  phase = "done" /\ Own =>
    \A i \in DOMAIN memory.keywords: \A v \in Typed:
      memory.keywords[i].value = IntoValue(v.type, v.is) =>
        Field(v.type, keywords[i].value.text) = Some(v.is)
===============================================================================
