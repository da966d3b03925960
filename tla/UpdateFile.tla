------------------------------ MODULE UpdateFile ------------------------------
(***************************************************************************)
(* The content of one update: parse, edit, splice, relocate, reassemble    *)
(* (src/src/splice.rs on top of src/src/reader.rs).                        *)
(*                                                                         *)
(* The XML header is a sequence of items: a keyword, a property or its     *)
(* start and end tag, the text of a location attribute, an <Image> tag, or *)
(* a run of bytes the crate does not model.  A tag that holds a location   *)
(* is cut around it.  Items have a length in bytes; spans are item         *)
(* positions, which order and overlap as the byte spans do.  Behind the    *)
(* header come the attachment bytes, `tail`.                               *)
(*                                                                         *)
(* An item holds a value as the reader takes it.  An element the crate     *)
(* renders need not hold the value it was rendered from: a quoted literal  *)
(* is read as a string, a commentary keyword has no comment of its own,    *)
(* and line breaks become spaces.  What a value becomes is given by        *)
(* KeywordReadBack and PropertyReadBack; ElementText says which it leaves  *)
(* as they are.  Names and ids are those the API accepts (validate_name,   *)
(* validate_property_id) and have none of this.                            *)
(***************************************************************************)
EXTENDS LocationText, FiniteSets, SequencesExt

CONSTANTS
  Documents,     \* the files to start from
  Names,         \* keyword names an edit appends
  Values,        \* values an edit writes
  Ids,           \* property ids an edit sets
  RenderedLen(_, _),  \* bytes of a rendered element holding a value
  KeywordReadBack(_, _),  \* a keyword's value, by its name, once rendered and read
  PropertyReadBack(_),    \* a property's value, once rendered and read
  MaxHeader,     \* MAX_HEADER_LEN: the longest header the reader accepts
  Changes,       \* how many changes the closure of each update makes at most
  MaxRounds      \* rounds of relocate_attachments

(* What the crate itself writes is spelled out: the provers know no        *)
(* literal to be a string.                                                 *)
Strings == STRING \cup {"", "text", "indent", "location", "keyword", "property", "source", "rendered"}
Items == [kind: Strings, id: Strings, val: Strings, fmt: Strings, len: Nat, off: Nat, size: Nat]

ASSUME UpdateAssumption ==
  /\ MaxHeader \in Nat /\ MaxRounds \in Nat \ {0} /\ Changes \in Seq(Nat)
  /\ Names \subseteq Strings /\ Values \subseteq Strings /\ Ids \subseteq Strings
  /\ \A d \in Documents: d.items \in Seq(Items) /\ d.tail \in Seq(STRING)

VARIABLES
  items,    \* the XML header
  tail,     \* the bytes behind it
  res,      \* what the last update returned
  updates,  \* how many have succeeded
  goal      \* history: the header the last successful edit left in memory

vars == <<items, tail, res, updates, goal>>

Preamble == 16

-------------------------------------------------------------------------------
(* Items *)

Item(kind, id, val, fmt, len) ==
  [kind |-> kind, id |-> id, val |-> val, fmt |-> fmt, len |-> len, off |-> 0, size |-> 0]

Text(id, len) == Item("text", id, "", "source", len)
Indent == Text("indent", 5)
Location(owner, off, size, len) ==
  [kind |-> "location", id |-> owner, val |-> "", fmt |-> "source", len |-> len,
   off |-> off, size |-> size]

(* render_keyword and render_property, as read again. *)
RenderedKeyword(kw) ==
  Item("keyword", kw.name, KeywordReadBack(kw.name, kw.val), "rendered", RenderedLen("keyword", kw.val))
RenderedProperty(id, val) ==
  Item("property", id, PropertyReadBack(val), "rendered", RenderedLen("property", val))

TotalLen(s) ==
  LET sum[n \in 0 .. Len(s)] == IF n = 0 THEN 0 ELSE sum[n - 1] + s[n].len
  IN  sum[Len(s)]
XmlEnd(s) == Preamble + TotalLen(s)

(* A set of positions in document order, and the items of some kinds.      *)
PositionsInOrder(S) == [n \in 1 .. Cardinality(S) |-> CHOOSE i \in S: Cardinality({j \in S: j <= i}) = n]
At(s, kinds) == PositionsInOrder({i \in DOMAIN s: s[i].kind \in kinds})

-------------------------------------------------------------------------------
(* Reading a header: parse_xml_with_index *)

(* quick_xml checks that every end tag closes the innermost open element;  *)
(* elements still open at the end of the header pass.                      *)
Opens == [image |-> "image", keywordstart |-> "keyword", propertystart |-> "property"]
Closes == [imageend |-> "image", keywordend |-> "keyword", propertyend |-> "property"]
AfterTag(stack, kind) ==
  IF kind \in DOMAIN Opens THEN Append(stack, Opens[kind])
  ELSE IF kind \notin DOMAIN Closes THEN stack
  ELSE IF stack # << >> /\ Last(stack) = Closes[kind] THEN Front(stack)
  ELSE <<"mismatch">>
Passes(stack) == stack # << >> => Head(stack) # "mismatch"
WellFormed(s) ==
  LET stack[n \in 0 .. Len(s)] == IF n = 0 THEN << >> ELSE AfterTag(stack[n - 1], s[n].kind)
  IN  Passes(stack[Len(s)])

Readable(s) == TotalLen(s) <= MaxHeader /\ WellFormed(s)

(* Keywords wherever they stand, long form or not; the recorded span is    *)
(* that of the start tag.                                                  *)
KeywordSpans(s) == At(s, {"keyword", "keywordstart"})
KeywordAt(s, i) == [name |-> s[i].id, val |-> s[i].val]

(* An end tag takes the start tag the parser holds open, if any.           *)
OpenProperty(s, j) ==
  {i \in 1 .. j - 1: /\ s[i].kind = "propertystart"
                     /\ \A k \in i + 1 .. j - 1: s[k].kind \notin {"propertystart", "propertyend"}}
(* Slip: the span of a property is that of its start tag. *)
SlipPropertySpans(s) ==
  LET at == At(s, {"property", "propertystart"}) IN [n \in DOMAIN at |-> <<at[n], at[n]>>]

PropertyEnds(s) == {j \in DOMAIN s: \/ s[j].kind = "property"
                                    \/ s[j].kind = "propertyend" /\ OpenProperty(s, j) # {}}
SpanTo(s, j) == IF s[j].kind = "property" THEN <<j, j>>
                ELSE <<CHOOSE i \in OpenProperty(s, j): TRUE, j>>
PropertySpans(s) ==
  LET ends == PositionsInOrder(PropertyEnds(s)) IN [n \in DOMAIN ends |-> SpanTo(s, ends[n])]

(* Header::keywords and Header::properties; the last of two equal ids wins. *)
Keywords(s) == [n \in DOMAIN KeywordSpans(s) |-> KeywordAt(s, KeywordSpans(s)[n])]
Properties(s) ==
  LET spans == PropertySpans(s)
      idOf(n) == s[spans[n][1]].id
      last(id) == CHOOSE n \in DOMAIN spans: idOf(n) = id /\ \A m \in DOMAIN spans: idOf(m) = id => m <= n
  IN  [id \in {idOf(n): n \in DOMAIN spans} |-> s[spans[last(id)][1]].val]
Header(s) == [keywords |-> Keywords(s), properties |-> Properties(s)]

(* record_location, resolve_image *)
Locations(s) == At(s, {"location"})
Attachments(s) ==
  [n \in DOMAIN Locations(s) |->
     LET l == s[Locations(s)[n]] IN [offset |-> l.off, size |-> l.size, span |-> l.len]]
ImageIsSupported(s) ==
  /\ Len(At(s, {"image", "emptyimage"})) = 1
  /\ \E i \in DOMAIN s: s[i].kind = "location" /\ s[i].id = "Image"
  /\ \A i \in DOMAIN s: s[i].kind = "location" => s[i].fmt # "malformed"
InsertionPoint(s) == At(s, {"imageend"})

-------------------------------------------------------------------------------
(* The regions an edit replaces: items first..last give way to new ones,   *)
(* last = first - 1 inserts.                                               *)

Region(first, last, new) == [first |-> first, last |-> last, new |-> new]

(* match_keywords: how many of `after` the first n of `before` have        *)
(* consumed, by equal names from left to right.                            *)
Matched(before, after) ==
  LET m[n \in 0 .. Len(before)] ==
        IF n = 0 THEN 0
        ELSE IF m[n - 1] < Len(after) /\ after[m[n - 1] + 1].name = before[n].name
        THEN m[n - 1] + 1 ELSE m[n - 1]
  IN  m

(* Slip: every keyword that stays is rendered again. *)
SlipKeywordRegions(s, after) ==
  LET m == Matched(Keywords(s), after)
      at == KeywordSpans(s)
  IN  {Region(at[n], at[n], IF m[n] = m[n - 1] THEN << >> ELSE <<RenderedKeyword(after[m[n]])>>):
         n \in DOMAIN at}

KeywordRegions(s, after) ==
  LET before == Keywords(s)
      m == Matched(before, after)
      at == KeywordSpans(s)
      kept(n) == m[n] # m[n - 1]
  IN  {Region(at[n], at[n], << >>): n \in {k \in DOMAIN at: ~kept(k)}}
      \cup {Region(at[n], at[n], <<RenderedKeyword(after[m[n]])>>):
              n \in {k \in DOMAIN at: kept(k) /\ after[m[k]] # before[k]}}

PropertyRegions(s, after) ==
  LET before == Properties(s)
      spans == PropertySpans(s)
      idOf(n) == s[spans[n][1]].id
  IN  {Region(spans[n][1], spans[n][2], << >>): n \in {k \in DOMAIN spans: idOf(k) \notin DOMAIN after}}
      \cup {Region(spans[n][1], spans[n][2], <<RenderedProperty(idOf(n), after[idOf(n)])>>):
              n \in {k \in DOMAIN spans: idOf(k) \in DOMAIN after
                                         /\ after[idOf(k)] # before[idOf(k)]}}

(* Slip: what is new is what lies beyond the old number of keywords. *)
SlipAdditions(s, after) ==
  LET kws == SubSeq(after.keywords, Len(Keywords(s)) + 1, Len(after.keywords))
      ids == SetToSeq(DOMAIN after.properties \ DOMAIN Properties(s))
  IN  FlattenSeq([n \in DOMAIN kws |-> <<Indent, RenderedKeyword(kws[n])>>])
      \o FlattenSeq([n \in DOMAIN ids |->
                       <<Indent, RenderedProperty(ids[n], after.properties[ids[n]])>>])

(* What has no place in the document: unmatched keywords, then new ids.    *)
Additions(s, after) ==
  LET before == Keywords(s)
      kws == SubSeq(after.keywords, Matched(before, after.keywords)[Len(before)] + 1,
                    Len(after.keywords))
      ids == SetToSeq(DOMAIN after.properties \ DOMAIN Properties(s))
  IN  FlattenSeq([n \in DOMAIN kws |-> <<Indent, RenderedKeyword(kws[n])>>])
      \o FlattenSeq([n \in DOMAIN ids |->
                       <<Indent, RenderedProperty(ids[n], after.properties[ids[n]])>>])

InsertionRegions(s, after) ==
  IF Additions(s, after) = << >> THEN {}
  ELSE {Region(InsertionPoint(s)[1], InsertionPoint(s)[1] - 1, Additions(s, after))}

ContentRegions(s, after) ==
  KeywordRegions(s, after.keywords) \cup PropertyRegions(s, after.properties)
  \cup InsertionRegions(s, after)

(* Regions are of different elements: at most one starts at a position.    *)
StartingAt(regions, i) == {r \in regions: r.first = i}

Delta(s, region) == TotalLen(region.new) - TotalLen(SubSeq(s, region.first, region.last))
DeltaAt(s, regions, i) ==
  LET here == StartingAt(regions, i) IN IF here = {} THEN 0 ELSE Delta(s, CHOOSE r \in here: TRUE)
DeltaOf(s, regions) ==
  LET sum[i \in 0 .. Len(s) + 1] == IF i = 0 THEN 0 ELSE sum[i - 1] + DeltaAt(s, regions, i)
  IN  sum[Len(s) + 1]

(* The rounds of Relocation, as a function of the round; the last guess is *)
(* the answer when it needs no other.                                      *)
Guess(atts, edit) ==
  LET g[n \in 1 .. MaxRounds] == IF n = 1 THEN edit ELSE Needed(atts, edit, g[n - 1])
  IN  g[MaxRounds]
Relocates(atts, edit) ==
  /\ Needed(atts, edit, Guess(atts, edit)) = Guess(atts, edit)
  /\ ~BelowZero(atts, Guess(atts, edit))

Moved(l, delta) == Location(l.id, l.off + delta, l.size, LocationLength(l.off + delta, l.size))

(* Slips: the blocks move by the edit alone; only the image's moves. *)
SlipLocationRegionsByEdit(s, edit) == {Region(i, i, <<Moved(s[i], edit)>>): i \in Range(Locations(s))}
SlipLocationRegionsOfImage(s, edit) ==
  LET delta == Guess(Attachments(s), edit)
  IN  {Region(i, i, <<Moved(s[i], delta)>>): i \in {j \in Range(Locations(s)): s[j].id = "Image"}}

LocationRegions(s, edit) ==
  LET delta == Guess(Attachments(s), edit)
  IN  {Region(i, i, <<Moved(s[i], delta)>>): i \in Range(Locations(s))}

(* validate_regions *)
Disjoint(regions) ==
  \A q, r \in regions: q # r => q.last < r.first \/ r.last < q.first

Gone(regions, i) == \E r \in regions: i \in r.first .. r.last
NewAt(regions, i) ==
  LET here == StartingAt(regions, i) IN IF here = {} THEN << >> ELSE (CHOOSE r \in here: TRUE).new
Splice(s, regions) ==
  FlattenSeq([i \in 1 .. Len(s) + 1 |->
    NewAt(regions, i) \o IF i \notin DOMAIN s \/ Gone(regions, i) THEN << >> ELSE <<s[i]>>])

-------------------------------------------------------------------------------
(* The data *)

(* Blocks as <<start, end>> positions in the file, end excluded. *)
Blocks(s) == {<<a.offset, a.offset + a.size>>: a \in Range(Attachments(s))}

(* validate_attachment_layout: within the file, behind the header, apart.  *)
InBounds(s, data) == \A b \in Blocks(s): XmlEnd(s) <= b[1] /\ b[2] <= XmlEnd(s) + Len(data)
Apart(s) ==
  LET atts == Attachments(s)
      before(m, n) == \/ atts[m].offset < atts[n].offset
                      \/ atts[m].offset = atts[n].offset /\ m < n
  IN  \A m, n \in DOMAIN atts: before(m, n) => atts[m].offset + atts[m].size <= atts[n].offset
LayoutIsSafe(s, data) == InBounds(s, data) /\ Apart(s)

(* The bytes a location leads to. *)
BlockAt(s, data, a) ==
  [k \in 1 .. a.size |-> LET at == a.offset - XmlEnd(s) + k
                         IN  IF at \in DOMAIN data THEN data[at] ELSE "none"]

-------------------------------------------------------------------------------
(* Edits: what a closure can leave behind (HeaderApi!SlotDiscipline). *)

SetKeyword(kws, i, v) == [kws EXCEPT ![i].val = v]
AddKeyword(kws, n, v) == Append(kws, [name |-> n, val |-> v])
KeywordEdits(kws) ==
  {SetKeyword(kws, i, v): i \in DOMAIN kws, v \in Values}
  \cup {RemoveAt(kws, i): i \in DOMAIN kws}
  \cup {AddKeyword(kws, n, v): n \in Names, v \in Values}

SetProperty(props, id, v) == [i \in DOMAIN props \cup {id} |-> IF i = id THEN v ELSE props[i]]
DropProperty(props, id) == [i \in DOMAIN props \ {id} |-> props[i]]
PropertyEdits(props) ==
  {SetProperty(props, id, v): id \in Ids, v \in Values}
  \cup {DropProperty(props, id): id \in DOMAIN props}

OneEdit(h) == {[h EXCEPT !.keywords = k]: k \in KeywordEdits(h.keywords)}
              \cup {[h EXCEPT !.properties = p]: p \in PropertyEdits(h.properties)}

EditsOf(h, changes) ==
  LET upto[n \in 0 .. changes] ==
        IF n = 0 THEN {h} ELSE upto[n - 1] \cup UNION {OneEdit(g): g \in upto[n - 1]}
  IN  upto[changes]

-------------------------------------------------------------------------------
(* update_file *)

Refuse(error) == res' = error /\ UNCHANGED <<items, tail, updates, goal>>

(* The checks between parsing and writing, all of them before any write. *)
NeedsChildren(after) == Additions(items, after) # << >>
(* Slip: locations are rewritten even when nothing moved. *)
SlipRegions(after) ==
  LET content == ContentRegions(items, after)
  IN  content \cup LocationRegions(items, DeltaOf(items, content))

Regions(after) ==
  LET content == ContentRegions(items, after)
      delta == DeltaOf(items, content)
  IN  content \cup IF delta = 0 THEN {} ELSE LocationRegions(items, delta)
Supported(after) ==
  /\ NeedsChildren(after) => InsertionPoint(items) # << >>
  /\ LayoutIsSafe(items, tail)
  /\ LET delta == DeltaOf(items, ContentRegions(items, after))
     IN  delta # 0 => Relocates(Attachments(items), delta)
  /\ Disjoint(Regions(after))

(* write_container: a new preamble and header, then every gap and block of *)
(* the original in file order.                                             *)
Write(after) ==
  /\ items' = Splice(items, Regions(after))
  /\ UNCHANGED tail
  /\ updates' = updates + 1
  /\ goal' = after
  /\ res' = "ok"

Update ==
  /\ updates < Len(Changes)
  /\ \/ /\ ~Readable(items) /\ Refuse("unreadable")
     \/ /\ Readable(items) /\ ~ImageIsSupported(items) /\ Refuse("Unsupported")
     \/ /\ Readable(items) /\ ImageIsSupported(items)
        /\ \E after \in EditsOf(Header(items), Changes[updates + 1]):
             \/ Supported(after) /\ Write(after)
             \/ ~Supported(after) /\ Refuse("Unsupported")

Init == /\ \E d \in Documents: items = d.items /\ tail = d.tail
        /\ res = "ok" /\ updates = 0 /\ goal = Header(items)

Next == Update

Spec == Init /\ [][Next]_vars
-------------------------------------------------------------------------------
(* The documents the splice is made for *)

(* Between the tags of a property there are text and its own location.     *)
Body(s, i, j) ==
  /\ i < j /\ s[i].kind = "propertystart" /\ s[j].kind = "propertyend"
  /\ \A k \in i + 1 .. j - 1: \/ s[k].kind = "text"
                              \/ s[k].kind = "location" /\ s[k].id = "Property"
PropertiesInPlace(s) ==
  /\ \A i \in DOMAIN s: s[i].kind = "propertystart" => \E j \in DOMAIN s: Body(s, i, j)
  /\ \A j \in DOMAIN s: s[j].kind = "propertyend" => \E i \in DOMAIN s: Body(s, i, j)

(* A keyword is one tag, and stands before the place others are added at.  *)
KeywordsInPlace(s) ==
  /\ \A i \in DOMAIN s: s[i].kind \notin {"keywordstart", "keywordend"}
  /\ \A i, j \in DOMAIN s: s[i].kind = "keyword" /\ s[j].kind = "imageend" => i < j

-------------------------------------------------------------------------------
(* What is checked *)

(* `h` is `left` up to what rendering does to a value.                     *)
ReadsBack(h, left) ==
  /\ DOMAIN h.keywords = DOMAIN left.keywords
  /\ \A i \in DOMAIN left.keywords:
       LET kw == left.keywords[i]
       IN  /\ h.keywords[i].name = kw.name
           /\ h.keywords[i].val \in {kw.val, KeywordReadBack(kw.name, kw.val)}
  /\ DOMAIN h.properties = DOMAIN left.properties
  /\ \A id \in DOMAIN left.properties:
       h.properties[id] \in {left.properties[id], PropertyReadBack(left.properties[id])}

(* Every value of `h` is one that an element can hold as it is.            *)
IsStorable(h) ==
  /\ \A i \in DOMAIN h.keywords: KeywordReadBack(h.keywords[i].name, h.keywords[i].val) = h.keywords[i].val
  /\ \A id \in DOMAIN h.properties: PropertyReadBack(h.properties[id]) = h.properties[id]

(* Reading the file back gives the keywords the closure left, in order and *)
(* with duplicates, and its properties, although the splice only matches   *)
(* names and appends the rest; each has its value or what rendering it     *)
(* made of it (match_keywords: "the resulting Header value is still        *)
(* correct").  That the header is not too long either to be read is        *)
(* StaysReadable.                                                          *)
RoundTrip == updates > 0 => WellFormed(items) /\ ReadsBack(Header(items), goal)

(* If no value the closure left is changed by being rendered, reading back *)
(* gives exactly the header the closure left, whatever of it was rendered  *)
(* and whatever is still as the file had it.  This follows from RoundTrip  *)
(* (StorableIsSame in UpdateFileProofs).                                   *)
StorableRoundTrip == updates > 0 /\ IsStorable(goal) => Header(items) = goal

(* Whatever the crate has rewritten, it can read again. *)
StaysReadable == updates > 0 => Readable(items)

(* The layout update_file demands is one it leaves behind: locations in    *)
(* bounds, behind the header and apart, so a later update is not refused.  *)
StaysUpdatable ==
  updates > 0 => ImageIsSupported(items) /\ LayoutIsSafe(items, tail)

BlockOf(s, data, i) == BlockAt(s, data, [offset |-> s[i].off, size |-> s[i].size])
SameBlock(i, j) == /\ items[i].id = items'[j].id
                   /\ BlockOf(items, tail, i) = BlockOf(items', tail', j)

(* Data blocks are never lost: every location outside a property still     *)
(* exists after an update, and every location leads to the bytes it led to *)
(* before, at the new header length.                                       *)
BlocksKept ==
  [][updates' # updates =>
       /\ \A i \in Range(Locations(items)):
            items[i].id # "Property" => \E j \in Range(Locations(items')): SameBlock(i, j)
       /\ \A j \in Range(Locations(items')): \E i \in Range(Locations(items)): SameBlock(i, j)]_vars

(* What lies in the element of a property other than those in `ids`. *)
InsideOthers(s, ids) ==
  UNION {p[1] .. p[2]: p \in {q \in Range(PropertySpans(s)): s[q[1]].id \notin ids}}
Unmodeled(s, ids) ==
  LET modeled == {"keyword", "keywordstart", "property", "propertystart", "propertyend", "location"}
      at == PositionsInOrder({i \in DOMAIN s: s[i].kind \notin modeled /\ s[i] # Indent} \ InsideOthers(s, ids))
  IN  [n \in DOMAIN at |-> s[at[n]]]
Named(kws, n) == {i \in DOMAIN kws: kws[i].name = n}
NamesOf(kws, S) == [n \in DOMAIN PositionsInOrder(S) |-> kws[PositionsInOrder(S)[n]].name]

(* Keyword i of `before` is keyword j of `after` and was not removed and   *)
(* appended again: only keywords that preceded it precede it.              *)
Stayed(before, i, after, j) ==
  \E K \in SUBSET (1 .. i - 1): NamesOf(before, K) = NamesOf(after, 1 .. j - 1)
UneditedNames ==
  LET before == Keywords(items)
      after == goal'.keywords
  IN  {n \in {k.name: k \in Range(before)}: \E i \in DOMAIN before, j \in DOMAIN after:
         /\ Named(before, n) = {i} /\ Named(after, n) = {j}
         /\ after[j] = before[i] /\ Stayed(before, i, after, j)}
UneditedIds ==
  {id \in DOMAIN Properties(items) \cap DOMAIN goal'.properties:
     goal'.properties[id] = Properties(items)[id]}
ElementsOf(s, kinds, id) == {s[i]: i \in {j \in DOMAIN s: s[j].kind \in kinds /\ s[j].id = id}}
KeywordTags(s, n) == ElementsOf(s, {"keyword", "keywordstart"}, n)
PropertyTags(s, id) == ElementsOf(s, {"property", "propertystart"}, id)

(* Nothing else changes: bytes the crate does not model stay, in order,    *)
(* those inside a property the closure did not change included, and a      *)
(* keyword or property the closure did not change, and whose name no other *)
(* shares, keeps its own bytes.                                            *)
UneditedVerbatim ==
  [][updates' # updates =>
       /\ Unmodeled(items', UneditedIds) = Unmodeled(items, UneditedIds)
       /\ \A n \in UneditedNames: KeywordTags(items', n) = KeywordTags(items, n)
       /\ \A id \in UneditedIds: PropertyTags(items', id) = PropertyTags(items, id)]_vars

(* "A no-op update_file reproduces the input file byte-for-byte", padded   *)
(* offsets included.                                                       *)
NoOpIsIdentity ==
  [][updates' # updates /\ goal' = Header(items) => items' = items /\ tail' = tail]_vars
===============================================================================
