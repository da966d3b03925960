----------------------------- MODULE MCUpdateFile -----------------------------
(* UpdateFile on a handful of documents, each a layout the reader or the   *)
(* splice treats in its own way.                                           *)
EXTENDS UpdateFile

MCDigits(n) == IF n < 0 THEN 1 ELSE CHOOSE d \in 1 .. 7: n < 10^d /\ (d = 1 \/ n >= 10^(d - 1))

(* A long value makes the header grow, a short one shrink it. *)
MCRenderedLen(kind, val) ==
  (IF kind = "keyword" THEN 40 ELSE 35) + (IF val = "long" THEN 20 ELSE 2)

(* What the values stand for: a string and a longer one, a literal that    *)
(* looks like a string, what it is read as with and without its comment,   *)
(* a text with a line break and the one it becomes.                        *)
E == INSTANCE ElementText WITH
  Tokens <- {"w", "'", " ", "nl", "HISTORY", "COMMENT", "String", "GAIN"}, Quote <- "'", Space <- " ",
  Break <- "nl", History <- "HISTORY", Comment <- "COMMENT", String <- "String"
Means ==
  [short |-> [value |-> E!Str(<<"w">>), comment |-> << >>],
   long |-> [value |-> E!Str(<<"w", "w", "w">>), comment |-> << >>],
   quoted |-> [value |-> E!Literal(<<"'", "w", "'">>), comment |-> <<"w">>],
   noted |-> [value |-> E!Str(<<"w">>), comment |-> <<"w">>],
   quotes |-> [value |-> E!Str(<<"'", "w", "'">>), comment |-> << >>],
   broken |-> [value |-> E!Str(<<"w", "nl">>), comment |-> << >>],
   spaced |-> [value |-> E!Str(<<"w", " ">>), comment |-> << >>]]
KeywordOf(name, val) == [name |-> <<name>>, value |-> Means[val].value, comment |-> Means[val].comment]
PropertyOf(val) ==
  [type |-> <<"String">>, value |-> Means[val].value.text, comment |-> Means[val].comment, format |-> << >>]

MCKeywordReadBack(name, val) ==
  CHOOSE v \in DOMAIN Means: KeywordOf(name, v) = E!Reread(KeywordOf(name, val))
MCPropertyReadBack(val) ==
  CHOOSE v \in DOMAIN Means: PropertyOf(v) = E!RereadProperty(<<"P1">>, PropertyOf(val))

Kw(name, val) == Item("keyword", name, val, "source", 45)
Prop(id, val) == Item("property", id, val, "source", 37)
Tag(kind, len) == Item(kind, "", "", "source", len)
Loc(owner, off, size, padding) == Location(owner, off, size, LocationLength(off, size) + padding)
Image(off, size, padding) == <<Tag("image", 50), Loc("Image", off, size, padding), Text(">", 2)>>

(* The header that results when `parts` is given the position it ends at.  *)
Doc(parts(_), data) ==
  LET end == CHOOSE e \in 100 .. 1400: XmlEnd(parts(e)) = e
  IN  [items |-> parts(end), tail |-> data]

(* What the crate writes: a zero-padded offset, then keywords, properties. *)
Own == Doc(LAMBDA e: Image(e, 2, 12 - Digits(e))
                     \o <<Kw("GAIN", "short"), Prop("P1", "short"), Tag("imageend", 8), Text("foot", 7)>>,
           <<"i1", "i2">>)

(* A thumbnail whose data precedes the image's, a gap, trailing bytes, and *)
(* offsets about to gain a digit.                                          *)
Blocks2 == Doc(LAMBDA e: <<Text("head", 681)>> \o Image(e + 2, 2, 0)
                         \o <<Kw("GAIN", "short"), Text("unknown", 20), Kw("FOCUS", "long"),
                              Tag("imageend", 8), Loc("Thumbnail", e, 1, 0), Text("foot", 7)>>,
               <<"t1", "gap", "i1", "i2", "end">>)

(* Repeated keywords and a repeated property id. *)
Repeats == Doc(LAMBDA e: Image(e, 1, 0)
                         \o <<Kw("HISTORY", "short"), Kw("GAIN", "long"), Kw("HISTORY", "long"),
                              Prop("P1", "short"), Prop("P1", "long"), Tag("imageend", 8), Text("foot", 7)>>,
               <<"i1">>)

(* A property in the long form that owns a block of its own. *)
OwnBlock == Doc(LAMBDA e: Image(e, 1, 0)
                          \o <<Item("propertystart", "P1", "short", "source", 20), Loc("Property", e + 1, 1, 3),
                               Text("text", 4), Tag("propertyend", 11), Kw("GAIN", "short"),
                               Tag("imageend", 8), Text("foot", 7)>>,
                <<"i1", "p1">>)

(* A self-closing image has no place to insert into. *)
NoChildren == Doc(LAMBDA e: <<Tag("emptyimage", 50), Loc("Image", e, 1, 0), Text("/>", 2),
                              Kw("GAIN", "short"), Text("foot", 7)>>,
                  <<"i1">>)

(* Layouts that must be refused. *)
Bad(offset(_), size) ==
  Doc(LAMBDA e: Image(e, 2, 0) \o <<Kw("GAIN", "short"), Tag("imageend", 8),
                                    Loc("Thumbnail", offset(e), size, 0), Text("foot", 7)>>,
      <<"i1", "i2", "t1">>)
Overlapping == Bad(LAMBDA e: e + 1, 1)
PastEnd == Bad(LAMBDA e: e + 2, 2)
InHeader == Bad(LAMBDA e: 20, 1)
Malformed == Doc(LAMBDA e: <<Tag("image", 50), [Loc("Image", 0, 0, 0) EXCEPT !.fmt = "malformed"], Text(">", 2),
                             Tag("imageend", 8)>>, << >>)
TwoImages == Doc(LAMBDA e: Image(e, 1, 0) \o <<Tag("imageend", 8)>> \o Image(e, 1, 0)
                           \o <<Tag("imageend", 8), Kw("GAIN", "short")>>, <<"i1">>)
Broken == Doc(LAMBDA e: Image(e, 1, 0) \o <<Tag("propertyend", 11), Tag("imageend", 8)>>, <<"i1">>)
(* A header that ends inside the image: quick_xml does not mind.           *)
Unclosed == Doc(LAMBDA e: Image(e, 1, 0) \o <<Kw("GAIN", "short"), Prop("P1", "short")>>, <<"i1">>)

MCDocuments == {Own, Blocks2, Repeats, OwnBlock, NoChildren,
                Overlapping, PastEnd, InHeader, Malformed, TwoImages, Broken, Unclosed}

MCTwoThenOne == <<2, 1>>
MCOneChange == <<1>>

(* Each of them that the crate would update is one the splice is made for; *)
(* the next ones are not.                                                  *)
ASSUME InPlace ==
  \A d \in MCDocuments: Readable(d.items) /\ ImageIsSupported(d.items) =>
    PropertiesInPlace(d.items) /\ KeywordsInPlace(d.items)

(* A keyword behind </Image>: the reader collects it, the splice inserts   *)
(* before it.                                                              *)
KeywordBehindImage ==
  Doc(LAMBDA e: Image(e, 1, 0) \o <<Tag("imageend", 8), Kw("GAIN", "short"), Text("foot", 7)>>, <<"i1">>)

(* <FITSKeyword ...></FITSKeyword>: two tags, one keyword. *)
LongFormKeyword ==
  Doc(LAMBDA e: Image(e, 1, 0) \o <<Item("keywordstart", "GAIN", "short", "source", 44), Tag("keywordend", 14),
                                    Tag("imageend", 8), Text("foot", 7)>>, <<"i1">>)

MCBehindImage == {KeywordBehindImage}
MCLongForm == {LongFormKeyword}
MCOwn == {Own}
===============================================================================
