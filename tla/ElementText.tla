------------------------------ MODULE ElementText ------------------------------
(***************************************************************************)
(* Keywords and properties as XML elements: what the writer makes of a     *)
(* keyword or a property (src/src/writer.rs) and what the reader makes of  *)
(* the attributes of a tag (src/src/reader.rs).                            *)
(*                                                                         *)
(* A text is a sequence of tokens: a quote, a space, a line break, or a    *)
(* word that neither the quoting nor XML treats in a special way.          *)
(***************************************************************************)
EXTENDS Integers, Sequences

CONSTANTS
  Tokens,    \* what texts are made of
  Quote,     \* '
  Space,
  Break,     \* a line break or a tab
  History,   \* the word HISTORY
  Comment,   \* the word COMMENT
  String     \* the word String

ASSUME TextAssumption ==
  /\ {Quote, Space, Break, History, Comment, String} \subseteq Tokens
  /\ Quote # Space /\ Break \notin {Quote, Space}
  /\ {Quote, Space, Break} \cap {History, Comment, String} = {}

Text == Seq(Tokens)

Value == [kind: {"Str", "Literal"}, text: Text]
Str(text) == [kind |-> "Str", text |-> text]
Literal(text) == [kind |-> "Literal", text |-> text]

KeywordRecord == [name: Text, value: Value, comment: Text]
PropertyRecord == [type: Text, value: Text, comment: Text, format: Text]

(* is_commentary: these spellings and no other. *)
IsCommentary(name) == name \in {<<History>>, <<Comment>>}

-------------------------------------------------------------------------------
(* Attributes.  A key may be spelled in any letter case; `location` is the *)
(* data block that the text names if read as a location (see HeaderReader). *)

NoLocation == [form |-> "none", offset |-> 0, size |-> 0]
SpelledAttr(key, spelling, text, location) ==
  [key |-> key, spelling |-> spelling, text |-> text, location |-> location]
Attr(key, text) == SpelledAttr(key, key, text, NoLocation)

(* A text comes back from the file as it went there, escaped and           *)
(* unescaped, but for line breaks and tabs (normalized_value).             *)
Normalized(text) == [i \in DOMAIN text |-> IF text[i] = Break THEN Space ELSE text[i]]

(* Two attributes of one spelling make the tag malformed. *)
Duplicated(attrs) ==
  \E i, j \in DOMAIN attrs: i # j /\ attrs[i].spelling = attrs[j].spelling

(* Of two that differ in letter case only, the last one counts. *)
Having(attrs, key) == {i \in DOMAIN attrs: attrs[i].key = key}
Has(attrs, key) == Having(attrs, key) # {}
AttrText(attrs, key, default) ==
  IF Has(attrs, key)
  THEN Normalized(attrs[CHOOSE i \in Having(attrs, key): \A j \in Having(attrs, key): j <= i].text)
  ELSE default

-------------------------------------------------------------------------------
(* Keywords *)

RenderedValue(v) == IF v.kind = "Str" THEN <<Quote>> \o v.text \o <<Quote>> ELSE v.text

(* Slip: the quotes stay. *)
SlipClassifyValueKeepingQuotes(text) ==
  IF Len(text) >= 2 /\ text[1] = Quote /\ text[Len(text)] = Quote THEN Str(text) ELSE Literal(text)

(* One layer of quotes makes a string; anything else is a literal. *)
ClassifyValue(text) ==
  IF Len(text) >= 2 /\ text[1] = Quote /\ text[Len(text)] = Quote
  THEN Str(SubSeq(text, 2, Len(text) - 1)) ELSE Literal(text)

(* Slip: the text of a commentary keyword goes where others have theirs. *)
SlipRenderKeyword(kw) ==
  <<Attr("name", kw.name), Attr("value", RenderedValue(kw.value)), Attr("comment", kw.comment)>>

(* A commentary keyword has its text in the comment and no value. *)
RenderKeyword(kw) ==
  IF IsCommentary(kw.name)
  THEN <<Attr("name", kw.name), Attr("value", << >>), Attr("comment", kw.value.text)>>
  ELSE <<Attr("name", kw.name), Attr("value", RenderedValue(kw.value)), Attr("comment", kw.comment)>>

(* A keyword without a name is skipped. *)
IsNamed(attrs) == AttrText(attrs, "name", << >>) # << >>

(* The text of a commentary keyword is its comment or, in files of older   *)
(* versions, its value.                                                    *)
ParseKeyword(attrs) ==
  LET name == AttrText(attrs, "name", << >>)
      value == AttrText(attrs, "value", << >>)
      comment == AttrText(attrs, "comment", << >>)
  IN  CASE ~IsCommentary(name) ->
             [name |-> name, value |-> ClassifyValue(value), comment |-> comment]
        [] IsCommentary(name) /\ comment = << >> ->
             [name |-> name, value |-> ClassifyValue(value), comment |-> << >>]
        [] IsCommentary(name) /\ comment # << >> ->
             [name |-> name, value |-> Str(comment), comment |-> << >>]

-------------------------------------------------------------------------------
(* Properties *)

(* A property always gets a value attribute; `format` and `comment` only   *)
(* if they say something.                                                  *)
RenderProperty(id, p) ==
  <<Attr("id", id), Attr("type", p.type), Attr("value", p.value)>>
  \o (IF p.format = << >> THEN << >> ELSE <<Attr("format", p.format)>>)
  \o (IF p.comment = << >> THEN << >> ELSE <<Attr("comment", p.comment)>>)

(* A property without an id is skipped; one without a value attribute may  *)
(* have its value in its content.                                          *)
HasId(attrs) == Has(attrs, "id")
IdOf(attrs) == AttrText(attrs, "id", << >>)
HasValue(attrs) == Has(attrs, "value")
ParseProperty(attrs) ==
  [type |-> AttrText(attrs, "type", <<String>>), value |-> AttrText(attrs, "value", << >>),
   comment |-> AttrText(attrs, "comment", << >>), format |-> AttrText(attrs, "format", << >>)]

-------------------------------------------------------------------------------
(* What a cycle of writing and reading preserves *)

Smooth(text) == \A i \in DOMAIN text: text[i] # Break
IsQuoted(text) == Len(text) >= 2 /\ text[1] = Quote /\ text[Len(text)] = Quote

(* What the keyword becomes by being written and read. *)
Reread(kw) == ParseKeyword(RenderKeyword(kw))
RereadProperty(id, p) == ParseProperty(RenderProperty(id, p))

(* The keywords that a file can hold as they are. *)
IsStorable(kw) ==
  /\ Smooth(kw.name) /\ Smooth(kw.value.text) /\ Smooth(kw.comment)
  /\ IF IsCommentary(kw.name)
     THEN /\ kw.comment = << >>
          /\ kw.value.kind = IF kw.value.text = << >> THEN "Literal" ELSE "Str"
     ELSE kw.value.kind = "Literal" => ~IsQuoted(kw.value.text)
IsStorableProperty(p) == Smooth(p.type) /\ Smooth(p.value) /\ Smooth(p.comment) /\ Smooth(p.format)
===============================================================================
