--------------------------- MODULE MCHeaderRoundTrip ---------------------------
(* HeaderRoundTrip on small headers of every kind, and on what others may  *)
(* have written, event by event.                                           *)
EXTENDS HeaderRoundTrip

MCDigits(n) == IF n < 10 THEN 1 ELSE IF n < 100 THEN 2 ELSE IF n < 1000 THEN 3 ELSE 4

Num(quarters, pointed) == [quarters |-> quarters, pointed |-> pointed]
(* Floats have 4 bits: 17.0 is read as 16, 9.5 as 10. *)
MCNumber ==
  [w \in {"7", "-1", "17", "32", "1", "7.0", "3.5", "17.0", "9.5"} |->
     CASE w = "7" -> Num(28, FALSE)  [] w = "7.0" -> Num(28, TRUE)  [] w = "-1" -> Num(-4, FALSE)
       [] w = "17" -> Num(68, FALSE) [] w = "17.0" -> Num(68, TRUE) [] w = "32" -> Num(128, FALSE)
       [] w = "3.5" -> Num(14, TRUE) [] w = "9.5" -> Num(38, TRUE)  [] w = "1" -> Num(4, FALSE)]
MCTokens == DOMAIN MCNumber \cup
  {"'", " ", "nl", "HISTORY", "COMMENT", "String", "GAIN", "P1", "P2", "a", "b", "&", "T", "F"}

TypedValue(type, n) == [type |-> type, is |-> n]
MCTyped == {TypedValue("i64", -1), TypedValue("i64", 17), TypedValue("u32", 7),
            TypedValue("f64", 28), TypedValue("f64", 14), TypedValue("bool", 1), TypedValue("bool", 0)}

Gain == <<"GAIN">>
Kw(name, value, comment) == [name |-> name, value |-> value, comment |-> comment]
Prop(type, value, comment, format) ==
  [type |-> type, value |-> value, comment |-> comment, format |-> format]
Nothing == [id \in {} |-> Prop(<< >>, << >>, << >>, << >>)]

(* Plain, quoted, a lone quote, padded, broken and empty texts. *)
Texts == {<< >>, <<"a">>, <<"'">>, <<"'", "a", "'">>, <<" ", "7", " ">>, <<"a", "nl">>}
AnyKeyword ==
  {Kw(name, v, comment): name \in {Gain, <<"HISTORY">>}, v \in [kind: {"Str", "Literal"}, text: Texts],
                         comment \in {<< >>, <<"a">>, <<"nl">>}}
  \cup {Kw(Gain, IntoValue(v.type, v.is), << >>): v \in MCTyped}
AnyProperty == {Prop(<<"String">>, t, c, f): t \in {<< >>, <<"'", "a">>, <<"nl">>}, c \in {<< >>, <<"a">>}, f \in {<< >>, <<"b">>}}

MCHeaders ==
  {[keywords |-> <<kw>>, properties |-> Nothing]: kw \in AnyKeyword}
  \cup {[keywords |-> << >>, properties |-> [id \in {<<"P1">>, <<"P2">>} |->
            IF id = <<"P1">> THEN p ELSE Prop(<<"a">>, <<"b">>, << >>, << >>)]]: p \in AnyProperty}
  \cup {[keywords |-> <<Kw(Gain, Str(<<"a">>), << >>), Kw(<<"HISTORY">>, Str(<<"b">>), << >>),
                        Kw(Gain, Literal(<<"7">>), <<"b">>)>>,
         properties |-> [id \in {<<"P1">>} |-> Prop(<<"a">>, <<"7.0">>, << >>, << >>)]],
        \* one id after normalization
        [keywords |-> << >>,
         properties |-> [id \in {<<"P1", "nl">>, <<"P1", " ">>} |-> Prop(<<"a">>, id, << >>, << >>)]]}

MCIdOrder == <<<<"P1">>, <<"P1", "nl">>, <<"P1", " ">>, <<"P2">>>>
MCPropertyIds == {MCIdOrder[i]: i \in DOMAIN MCIdOrder}
MCInOrder(ids) == SelectSeq(MCIdOrder, LAMBDA id: id \in ids)

Hint(items, format) == [geometry |-> items, format |-> format]
MCSampleBytes == [UInt8 |-> 1, UInt16 |-> 2]
(* 32 stands for 2^64 and 15 for u32::MAX. *)
MCHints ==
  {Hint(<<Decimal(2), Decimal(3), Decimal(1)>>, "UInt16"),
   Hint(<<Decimal(3), Decimal(6)>>, "UInt16"),                 \* fits only in bytes of one
   Hint(<<Decimal(4), Decimal(4), Decimal(3)>>, "UInt8"),      \* 48 wraps to 16
   Hint(<<Item("radix", 4), Decimal(2)>>, "UInt8"),
   Hint(<<Item("zeros", 4), Item("plus", 2)>>, "UInt16"),
   Hint(<<Decimal(0), Decimal(2)>>, "UInt16"),
   Hint(<<Decimal(5)>>, "UInt8"),
   Hint(<<Item("junk", 0)>>, "UInt16")}

TextLength(attrs) == FoldLeft(LAMBDA n, a: n + 6 + (IF a.key = "geometry" THEN 5 ELSE Len(a.text)), 0, attrs)
MCEventLength(e) == 8 + TextLength(e.attrs)

-------------------------------------------------------------------------------
(* Files of others *)

File(bytes, signed, length, utf8) == [bytes |-> bytes, signed |-> signed, length |-> length, utf8 |-> utf8]
MCContainers ==
  {File(12, TRUE, 0, TRUE), File(300, FALSE, 100, TRUE), File(300, TRUE, 100, FALSE),
   File(300, TRUE, 100, TRUE), File(110, TRUE, 100, TRUE)}

NoAttr == << >>
At(form, offset, size) == [form |-> form, offset |-> offset, size |-> size]
LocationAttr(form, offset, size) == SpelledAttr("location", "location", << >>, At(form, offset, size))
(* comment=" location='attachment:5:5'" *)
LookAlikeAttr == SpelledAttr("comment", "comment", <<" ", "a">>, At("attachment", 5, 5))
GeometryOf(items) == SpelledAttr("geometry", "geometry", items, NoLocation)

MCForeign ==
  { Start("Image", <<GeometryOf(<<Decimal(2), Decimal(3)>>), LocationAttr("attachment", 116, 6)>>),
    Empty("Image", <<GeometryOf(<<Decimal(0), Decimal(3)>>), LocationAttr("malformed", 0, 0)>>),
    Empty("Image", <<GeometryOf(<<Decimal(2), Decimal(2)>>), SpelledAttr("geometry", "Geometry", <<Decimal(2)>>, NoLocation),
                     LocationAttr("inline", 0, 0)>>),
    End("Image"),
    Empty("FITSKeyword", <<Attr("name", Gain), Attr("value", <<"'", "a", "'">>), LookAlikeAttr>>),
    Start("FITSKeyword", <<Attr("name", <<"HISTORY">>), Attr("value", <<"17.0">>)>>),
    Empty("FITSKeyword", <<Attr("value", <<"a">>)>>),
    Empty("FITSKeyword", <<Attr("name", Gain), Attr("value", <<"9.5">>), Attr("name", <<"a">>)>>),
    End("FITSKeyword"),
    Empty("Property", <<Attr("id", <<"P1">>), Attr("value", <<"a">>), SpelledAttr("value", "Value", <<"b">>, NoLocation)>>),
    Empty("Property", <<Attr("value", <<"b">>), LookAlikeAttr, LocationAttr("attachment", 130, 2)>>),
    Start("Property", <<Attr("id", <<"P1">>), Attr("type", <<"a">>)>>),
    Start("Property", <<Attr("id", <<"P2">>), Attr("value", <<"b">>), LocationAttr("attachment", 122, 1)>>),
    Start("Property", NoAttr),
    End("Property"),
    Event("text", "", NoAttr, <<"a">>), Event("cdata", "", NoAttr, <<"b">>), Event("reference", "", NoAttr, <<"&">>),
    Empty("Thumbnail", <<LocationAttr("attachment", 122, 1)>>) }

(* <Property id="P1" type="a">a &amp; b</Property> and what XML allows for it *)
MCReference ==
  { Start("Property", <<Attr("id", <<"P1">>), Attr("type", <<"a">>)>>), End("Property"),
    Event("text", "", NoAttr, <<"a">>), Event("cdata", "", NoAttr, <<"b">>), Event("reference", "", NoAttr, <<"&">>) }
NoHeaders == {}

-------------------------------------------------------------------------------
(* The same header in UpdateFile's items: a tag that holds a location is   *)
(* cut in two.                                                             *)

NoLength(kind, value) == 0
KeywordReread(name, val) ==
  LET kw == Reread([name |-> name, value |-> val.value, comment |-> val.comment])
  IN  [value |-> kw.value, comment |-> kw.comment]
PropertyReread(val) == RereadProperty(<<"P1">>, val)
Unused == << >>
U == INSTANCE UpdateFile WITH
  Documents <- {}, Names <- {}, Values <- {}, Ids <- {}, RenderedLen <- NoLength,
  KeywordReadBack <- KeywordReread, PropertyReadBack <- PropertyReread, Changes <- << >>,
  MaxRounds <- 0, items <- Unused, tail <- Unused, res <- Unused, updates <- 0, goal <- Unused

(* The end tag that closes a property opened by event n. *)
Ending(n) ==
  LET ends == {m \in n + 1 .. Len(events): events[m].kind = "end" /\ events[m].tag = "Property"}
  IN  IF ends = {} THEN n ELSE CHOOSE m \in ends: \A k \in ends: m <= k
Read(n) ==
  LET p == ParseProperty(events[n].attrs)
  IN  IF HasValue(events[n].attrs) \/ events[n].kind = "empty" THEN p
      ELSE [p EXCEPT !.value = Content(<<n, Ending(n)>>, {"text", "cdata"})]

KindOf(e) ==
  CASE e.tag = "FITSKeyword" /\ IsTag(e) -> IF ~IsNamed(e.attrs) THEN "text"
                                           ELSE IF e.kind = "empty" THEN "keyword" ELSE "keywordstart"
    [] e.tag = "FITSKeyword" /\ ~IsTag(e) -> "keywordend"
    [] e.tag = "Property" /\ IsTag(e) -> IF ~HasId(e.attrs) THEN "text"
                                        ELSE IF e.kind = "empty" THEN "property" ELSE "propertystart"
    [] e.tag = "Property" /\ ~IsTag(e) -> "propertyend"
    [] e.tag = "Image" -> IF e.kind = "empty" THEN "emptyimage" ELSE IF e.kind = "start" THEN "image" ELSE "imageend"
    [] OTHER -> "text"
ItemOf(n) ==
  LET e == events[n]
      kind == KindOf(e)
      kw == ParseKeyword(e.attrs)
  IN  CASE kind \in {"keyword", "keywordstart"} -> U!Item(kind, kw.name, [value |-> kw.value, comment |-> kw.comment], "source", 1)
        [] kind \in {"property", "propertystart"} -> U!Item(kind, IdOf(e.attrs), Read(n), "source", 1)
        [] OTHER -> U!Item(kind, "", "", "source", 1)
LocationItems(n) ==
  LET here == SelectSeq(locations, LAMBDA l: l.event = n)
  IN  [i \in DOMAIN here |->
         [U!Location(events[n].tag, here[i].is.offset, here[i].is.size, 1) EXCEPT
            !.fmt = IF here[i].is.form = "malformed" THEN "malformed" ELSE "source"]]
(* The items, each with the event it belongs to. *)
Cut == FlattenSeq([n \in DOMAIN events |->
         [i \in 1 .. 1 + Len(LocationItems(n)) |->
            [event |-> n, item |-> IF i = 1 THEN ItemOf(n) ELSE LocationItems(n)[i - 1]]]])
Items == [i \in DOMAIN Cut |-> Cut[i].item]
EventOf(i) == Cut[i].event
Idless == \E n \in DOMAIN events: Tagged(events[n], "Property") /\ events[n].kind = "start" /\ ~HasId(events[n].attrs)

(* UpdateFile's account of a header is that of the event loop: the same    *)
(* keywords and properties, the same spans, locations and insertion point. *)
UpdateSeesThis ==
  phase = "done" /\ ~Idless =>
    /\ U!Keywords(Items) = [i \in DOMAIN keywords |->
         [name |-> keywords[i].name, val |-> [value |-> keywords[i].value, comment |-> keywords[i].comment]]]
    /\ U!Properties(Items) = properties
    /\ [i \in DOMAIN U!KeywordSpans(Items) |-> EventOf(U!KeywordSpans(Items)[i])] = keywordSpans
    /\ LET spans == U!PropertySpans(Items)
       IN  [i \in DOMAIN spans |-> <<EventOf(spans[i][1]), EventOf(spans[i][2])>>] = propertySpans
    /\ [i \in DOMAIN U!Locations(Items) |-> EventOf(U!Locations(Items)[i])]
         = [i \in DOMAIN locations |-> locations[i].event]
    /\ U!ImageIsSupported(Items) <=> ImageIsResolved
    /\ ImageIsResolved => (U!InsertionPoint(Items) = << >> <=> imageEnd = 0)
===============================================================================
