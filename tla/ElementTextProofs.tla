--------------------------- MODULE ElementTextProofs ---------------------------
(***************************************************************************)
(* What ElementText says of keywords and properties of any length, with    *)
(* any texts: exactly the storable ones survive being written and read,    *)
(* and what has been read once survives.                                   *)
(***************************************************************************)
EXTENDS ElementText, TLAPS

-------------------------------------------------------------------------------
(* Texts *)

(* Texts of one length with the same tokens are one text. *)
LEMMA SameText ==
  ASSUME NEW s \in Text, NEW t \in Text, Len(s) = Len(t), \A i \in 1 .. Len(s): s[i] = t[i]
  PROVE  s = t
BY DEF Text

(* Normalization keeps length and type, and leaves nothing to normalize. *)
LEMMA NormalizedText ==
  ASSUME NEW text \in Text
  PROVE  /\ Normalized(text) \in Text /\ Len(Normalized(text)) = Len(text)
         /\ Smooth(Normalized(text))
         /\ Normalized(text) = text <=> Smooth(text)
<1>1. Space \in Tokens /\ Space # Break
  BY TextAssumption
<1>2. DOMAIN text = 1 .. Len(text) /\ \A i \in 1 .. Len(text): text[i] \in Tokens
  BY DEF Text
<1>3. Normalized(text) \in Text /\ Len(Normalized(text)) = Len(text)
  BY <1>1, <1>2 DEF Text, Normalized
<1>4. Smooth(Normalized(text))
  BY <1>1, <1>2, <1>3 DEF Smooth, Normalized
<1>5. ASSUME Smooth(text) PROVE Normalized(text) = text
  BY <1>2, <1>3, <1>5, SameText DEF Smooth, Normalized
<1>6. QED
  BY <1>3, <1>4, <1>5

(* The empty text is text, and no quotes or blanks are in it. *)
LEMMA EmptyText ==
  /\ << >> \in Text /\ Normalized(<< >>) = << >> /\ Smooth(<< >>) /\ ~IsQuoted(<< >>)
  /\ \A text \in Text: Len(text) = 0 <=> text = << >>
BY DEF Text, Normalized, Smooth, IsQuoted

(* The attribute that is the only one with its key is the one that counts. *)
LEMMA OnlyAttr ==
  ASSUME NEW attrs, NEW key, NEW default, NEW i \in DOMAIN attrs,
         \A j \in DOMAIN attrs: attrs[j].key = key <=> j = i, i \in Int
  PROVE  Has(attrs, key) /\ AttrText(attrs, key, default) = Normalized(attrs[i].text)
<1>1. Having(attrs, key) = {i}
  BY DEF Having
<1>2. (CHOOSE k \in Having(attrs, key): \A j \in Having(attrs, key): j <= k) = i
  BY <1>1
<1>3. QED
  BY <1>1, <1>2 DEF Has, AttrText

(* An attribute that is not there has its default. *)
LEMMA NoAttr ==
  ASSUME NEW attrs, NEW key, NEW default, \A j \in DOMAIN attrs: attrs[j].key # key
  PROVE  ~Has(attrs, key) /\ AttrText(attrs, key, default) = default
BY DEF Has, Having, AttrText

-------------------------------------------------------------------------------
(* Quotes *)

(* The quotes a string was given are the ones that are taken off. *)
LEMMA QuotedString ==
  ASSUME NEW text \in Text
  PROVE  LET quoted == <<Quote>> \o text \o <<Quote>>
         IN  /\ quoted \in Text /\ Len(quoted) = Len(text) + 2
             /\ IsQuoted(quoted)
             /\ \A i \in 1 .. Len(text): quoted[i + 1] = text[i]
             /\ SubSeq(quoted, 2, Len(quoted) - 1) = text
<1> DEFINE quoted == <<Quote>> \o text \o <<Quote>>
<1>1. Quote \in Tokens
  BY TextAssumption
<1>2. quoted \in Text /\ Len(quoted) = Len(text) + 2
  BY <1>1 DEF Text
<1>3. quoted[1] = Quote /\ quoted[Len(text) + 2] = Quote
        /\ \A i \in 1 .. Len(text): quoted[i + 1] = text[i]
  BY <1>1 DEF Text
<1>4. Len(text) \in Nat
  BY DEF Text
<1>5. IsQuoted(quoted)
  BY <1>2, <1>3, <1>4 DEF IsQuoted
<1> HIDE DEF quoted
<1>6. SubSeq(quoted, 2, Len(text) + 1) = text
  <2>1. SubSeq(quoted, 2, Len(text) + 1) \in Text
    BY <1>2, <1>4 DEF Text
  <2>2. Len(SubSeq(quoted, 2, Len(text) + 1)) = Len(text)
    BY <1>2, <1>4 DEF Text
  <2>3. \A i \in 1 .. Len(text): SubSeq(quoted, 2, Len(text) + 1)[i] = quoted[i + 1]
    BY <1>2, <1>4 DEF Text
  <2>4. QED
    BY <2>1, <2>2, <2>3, <1>3, SameText
<1>7. QED
  BY <1>2, <1>3, <1>4, <1>5, <1>6 DEF quoted

(* Normalization does not see the quotes. *)
LEMMA QuotedNormalized ==
  ASSUME NEW text \in Text
  PROVE  Normalized(<<Quote>> \o text \o <<Quote>>) = <<Quote>> \o Normalized(text) \o <<Quote>>
<1> DEFINE quoted == <<Quote>> \o text \o <<Quote>>
           normal == <<Quote>> \o Normalized(text) \o <<Quote>>
<1>1. /\ quoted \in Text /\ Len(quoted) = Len(text) + 2 /\ IsQuoted(quoted)
      /\ \A i \in 1 .. Len(text): quoted[i + 1] = text[i]
  BY QuotedString
<1>2. /\ normal \in Text /\ Len(normal) = Len(text) + 2 /\ IsQuoted(normal)
      /\ \A i \in 1 .. Len(text): normal[i + 1] = Normalized(text)[i]
  BY NormalizedText, QuotedString
<1>3. Len(text) \in Nat /\ DOMAIN text = 1 .. Len(text)
  BY DEF Text
<1> HIDE DEF quoted, normal
<1>4. Normalized(quoted) \in Text /\ Len(Normalized(quoted)) = Len(text) + 2
  BY <1>1, NormalizedText
<1>5. DOMAIN quoted = 1 .. Len(text) + 2
  BY <1>1 DEF Text
<1>6. ASSUME NEW i \in 1 .. Len(text) + 2
      PROVE  Normalized(quoted)[i] = normal[i]
  <2>1. Normalized(quoted)[i] = IF quoted[i] = Break THEN Space ELSE quoted[i]
    BY <1>5 DEF Normalized
  <2>2. CASE i \in {1, Len(text) + 2}
    BY <1>1, <1>2, <1>3, <2>1, <2>2, TextAssumption DEF IsQuoted
  <2>3. CASE i \in 2 .. Len(text) + 1
    <3>1. PICK j \in 1 .. Len(text): i = j + 1
      BY <1>3, <2>3
    <3>2. Normalized(text)[j] = IF text[j] = Break THEN Space ELSE text[j]
      BY <1>3 DEF Normalized
    <3>3. QED
      BY <1>1, <1>2, <2>1, <3>1, <3>2
  <2>4. QED
    BY <1>3, <2>2, <2>3
<1>7. QED
  BY <1>2, <1>4, <1>6, SameText DEF quoted, normal

(* Breaks are no quotes. *)
LEMMA NormalizedIsQuoted ==
  ASSUME NEW text \in Text
  PROVE  IsQuoted(Normalized(text)) <=> IsQuoted(text)
<1>1. Len(text) \in Nat /\ DOMAIN text = 1 .. Len(text) /\ Len(Normalized(text)) = Len(text)
  BY NormalizedText DEF Text
<1>2. Quote # Break /\ Quote # Space
  BY TextAssumption
<1>3. QED
  BY <1>1, <1>2 DEF IsQuoted, Normalized

(* The text between two quotes. *)
LEMMA Unquoted ==
  ASSUME NEW text \in Text, IsQuoted(text), Smooth(text)
  PROVE  LET inner == SubSeq(text, 2, Len(text) - 1) IN inner \in Text /\ Smooth(inner)
<1> DEFINE inner == SubSeq(text, 2, Len(text) - 1)
<1>1. Len(text) \in Nat /\ Len(text) >= 2 /\ DOMAIN text = 1 .. Len(text)
  BY DEF Text, IsQuoted
<1>2. inner \in Text /\ Len(inner) = Len(text) - 2
        /\ \A i \in 1 .. Len(text) - 2: inner[i] = text[i + 1]
  BY <1>1 DEF Text
<1>3. DOMAIN inner = 1 .. Len(text) - 2
  BY <1>1, <1>2 DEF Text
<1> HIDE DEF inner
<1>4. Smooth(inner)
  BY <1>1, <1>2, <1>3 DEF Smooth
<1>5. QED
  BY <1>2, <1>4 DEF inner

-------------------------------------------------------------------------------
(* Keywords *)

(* A value is a string or a literal, and renders to text. *)
LEMMA ValueShape ==
  ASSUME NEW v \in Value
  PROVE  /\ v.text \in Text /\ v.kind \in {"Str", "Literal"}
         /\ v.kind = "Str" => v = Str(v.text)
         /\ v.kind = "Literal" => v = Literal(v.text)
         /\ RenderedValue(v) \in Text
<1>1. v.text \in Text /\ v.kind \in {"Str", "Literal"}
        /\ (v.kind = "Str" => v = Str(v.text)) /\ (v.kind = "Literal" => v = Literal(v.text))
  BY DEF Value, Str, Literal
<1>2. QED
  BY <1>1, QuotedString DEF RenderedValue

(* What reading makes of the value that writing has made. *)
LEMMA ClassifiedValue ==
  ASSUME NEW v \in Value
  PROVE  LET w == ClassifyValue(Normalized(RenderedValue(v)))
         IN  /\ w \in Value /\ Smooth(w.text)
             /\ w.kind = "Literal" => ~IsQuoted(w.text)
             /\ w = v <=> Smooth(v.text) /\ (v.kind = "Literal" => ~IsQuoted(v.text))
<1> DEFINE w == ClassifyValue(Normalized(RenderedValue(v)))
           n == Normalized(v.text)
<1>1. n \in Text /\ Smooth(n) /\ (n = v.text <=> Smooth(v.text))
  BY ValueShape, NormalizedText
<1>2. CASE v.kind = "Str"
  <2>1. Normalized(RenderedValue(v)) = <<Quote>> \o n \o <<Quote>>
    BY <1>2, ValueShape, QuotedNormalized DEF RenderedValue
  <2>2. w = Str(n)
    BY <1>1, <2>1, QuotedString DEF ClassifyValue, IsQuoted
  <2>3. v = Str(v.text)
    BY <1>2, ValueShape
  <2>4. w = v <=> n = v.text
    BY <2>2, <2>3 DEF Str
  <2>5. w \in Value /\ w.text = n /\ w.kind = "Str"
    BY <1>1, <2>2 DEF Str, Value
  <2>6. QED
    BY <1>1, <1>2, <2>4, <2>5
<1>3. CASE v.kind = "Literal"
  <2>1. w = ClassifyValue(n) /\ v = Literal(v.text)
    BY <1>3, ValueShape DEF RenderedValue
  <2>2. CASE IsQuoted(v.text)
    <3>1. IsQuoted(n)
      BY <2>2, ValueShape, NormalizedIsQuoted
    <3>2. w = Str(SubSeq(n, 2, Len(n) - 1))
      BY <2>1, <3>1 DEF ClassifyValue, IsQuoted
    <3>3. SubSeq(n, 2, Len(n) - 1) \in Text /\ Smooth(SubSeq(n, 2, Len(n) - 1))
      BY <1>1, <3>1, Unquoted
    <3>4. w \in Value /\ Smooth(w.text) /\ w.kind = "Str"
      BY <3>2, <3>3 DEF Str, Value
    <3>5. QED
      BY <1>3, <2>2, <3>4
  <2>3. CASE ~IsQuoted(v.text)
    <3>1. ~IsQuoted(n)
      BY <2>3, ValueShape, NormalizedIsQuoted
    <3>2. w = Literal(n)
      BY <2>1, <3>1 DEF ClassifyValue, IsQuoted
    <3>3. w \in Value /\ w.text = n /\ w.kind = "Literal"
      BY <1>1, <3>2 DEF Literal, Value
    <3>4. w = v <=> n = v.text
      BY <2>1, <3>2 DEF Literal
    <3>5. QED
      BY <1>1, <2>3, <3>1, <3>3, <3>4
  <2>4. QED
    BY <2>2, <2>3
<1>4. QED
  BY <1>2, <1>3, ValueShape

(* The attributes of a keyword that the writer has made. *)
LEMMA KeywordAttrs ==
  ASSUME NEW kw \in KeywordRecord
  PROVE  LET attrs == RenderKeyword(kw)
             commentary == IsCommentary(kw.name)
         IN  /\ AttrText(attrs, "name", << >>) = Normalized(kw.name)
             /\ AttrText(attrs, "value", << >>) =
                  IF commentary THEN << >> ELSE Normalized(RenderedValue(kw.value))
             /\ AttrText(attrs, "comment", << >>) =
                  Normalized(IF commentary THEN kw.value.text ELSE kw.comment)
             /\ ~Duplicated(attrs)
<1> DEFINE attrs == RenderKeyword(kw)
           commentary == IsCommentary(kw.name)
           value == IF commentary THEN << >> ELSE RenderedValue(kw.value)
           comment == IF commentary THEN kw.value.text ELSE kw.comment
<1>1. attrs = <<Attr("name", kw.name), Attr("value", value), Attr("comment", comment)>>
  BY DEF RenderKeyword
<1> HIDE DEF attrs, value, comment
<1>2. /\ DOMAIN attrs = 1 .. 3
      /\ attrs[1].key = "name" /\ attrs[1].text = kw.name /\ attrs[1].spelling = "name"
      /\ attrs[2].key = "value" /\ attrs[2].text = value /\ attrs[2].spelling = "value"
      /\ attrs[3].key = "comment" /\ attrs[3].text = comment /\ attrs[3].spelling = "comment"
  BY <1>1 DEF Attr, SpelledAttr
<1>3. AttrText(attrs, "name", << >>) = Normalized(kw.name)
  <2>1. \A j \in DOMAIN attrs: attrs[j].key = "name" <=> j = 1
    BY <1>2
  <2>2. QED
    BY <1>2, <2>1, OnlyAttr
<1>4. AttrText(attrs, "value", << >>) = Normalized(value)
  <2>1. \A j \in DOMAIN attrs: attrs[j].key = "value" <=> j = 2
    BY <1>2
  <2>2. QED
    BY <1>2, <2>1, OnlyAttr
<1>5. AttrText(attrs, "comment", << >>) = Normalized(comment)
  <2>1. \A j \in DOMAIN attrs: attrs[j].key = "comment" <=> j = 3
    BY <1>2
  <2>2. QED
    BY <1>2, <2>1, OnlyAttr
<1>6. ~Duplicated(attrs)
  BY <1>2 DEF Duplicated
<1>7. QED
  BY <1>3, <1>4, <1>5, <1>6, EmptyText DEF attrs, value, comment

(* HISTORY and COMMENT are not made by normalization. *)
LEMMA NormalizedIsCommentary ==
  ASSUME NEW name \in Text
  PROVE  IsCommentary(Normalized(name)) <=> IsCommentary(name)
<1> DEFINE n == Normalized(name)
<1>1. n \in Text /\ Len(n) = Len(name) /\ (Smooth(name) => n = name)
  BY NormalizedText
<1>2. \A w \in {History, Comment}: <<w>> \in Text /\ Len(<<w>>) = 1 /\ <<w>>[1] = w /\ Smooth(<<w>>)
  <2>1. {History, Comment} \subseteq Tokens /\ Break \notin {History, Comment}
    BY TextAssumption
  <2>2. TAKE w \in {History, Comment}
  <2>3. w \in Tokens /\ w # Break
    BY <2>1, <2>2
  <2>4. QED
    BY <2>3 DEF Text, Smooth
<1>3. ASSUME IsCommentary(name) PROVE n = name
  BY <1>1, <1>2, <1>3 DEF IsCommentary
<1>4. ASSUME IsCommentary(n) PROVE n = name
  <2>1. PICK w \in {History, Comment}: n = <<w>>
    BY <1>4 DEF IsCommentary
  <2>2. Len(name) = 1 /\ n[1] = w
    BY <1>1, <1>2, <2>1
  <2>3. DOMAIN name = 1 .. 1
    BY <2>2 DEF Text
  <2>4. name[1] # Break
    <3>1. w # Space
      BY TextAssumption
    <3>2. QED
      BY <2>2, <2>3, <3>1 DEF Normalized
  <2>5. QED
    BY <1>1, <2>3, <2>4 DEF Smooth
<1>5. QED
  BY <1>3, <1>4

(* A keyword is its three fields. *)
LEMMA KeywordShape ==
  ASSUME NEW kw \in KeywordRecord
  PROVE  /\ kw.name \in Text /\ kw.value \in Value /\ kw.comment \in Text
         /\ kw = [name |-> kw.name, value |-> kw.value, comment |-> kw.comment]
BY DEF KeywordRecord

(* A keyword that is written and read is a keyword with a name, and one    *)
(* that a file can hold as it is.                                          *)
THEOREM KeywordSettles ==
  ASSUME NEW kw \in KeywordRecord, kw.name # << >>
  PROVE  /\ IsNamed(RenderKeyword(kw)) /\ ~Duplicated(RenderKeyword(kw))
         /\ Reread(kw) \in KeywordRecord /\ Reread(kw).name # << >>
         /\ IsStorable(Reread(kw))
<1> DEFINE name == Normalized(kw.name)
           comment == Normalized(kw.comment)
           text == Normalized(kw.value.text)
           value == ClassifyValue(Normalized(RenderedValue(kw.value)))
           r == Reread(kw)
<1>1. /\ name \in Text /\ Smooth(name) /\ comment \in Text /\ Smooth(comment)
      /\ text \in Text /\ Smooth(text) /\ name # << >>
  BY KeywordShape, ValueShape, NormalizedText, EmptyText
<1>2. IsNamed(RenderKeyword(kw)) /\ ~Duplicated(RenderKeyword(kw))
  BY <1>1, KeywordAttrs DEF IsNamed
<1>3. IsCommentary(name) <=> IsCommentary(kw.name)
  BY KeywordShape, NormalizedIsCommentary
<1>4. CASE ~IsCommentary(kw.name)
  <2>1. r = [name |-> name, value |-> value, comment |-> comment]
    BY <1>3, <1>4, KeywordAttrs DEF Reread, ParseKeyword
  <2>2. value \in Value /\ Smooth(value.text) /\ (value.kind = "Literal" => ~IsQuoted(value.text))
    BY KeywordShape, ClassifiedValue
  <2> HIDE DEF name, value, comment, r
  <2>3. r.name = name /\ r.value = value /\ r.comment = comment /\ r \in KeywordRecord
    BY <1>1, <2>1, <2>2 DEF KeywordRecord
  <2>4. IsStorable(r)
    BY <1>1, <1>3, <1>4, <2>2, <2>3 DEF IsStorable
  <2>5. QED
    BY <1>1, <1>2, <2>3, <2>4 DEF r
<1>5. CASE IsCommentary(kw.name)
  <2> DEFINE v == IF text = << >> THEN Literal(<< >>) ELSE Str(text)
  <2>1. r = [name |-> name, value |-> v, comment |-> << >>]
    <3>1. ClassifyValue(<< >>) = Literal(<< >>)
      BY EmptyText DEF ClassifyValue, IsQuoted
    <3>2. QED
      BY <1>3, <1>5, <3>1, KeywordAttrs DEF Reread, ParseKeyword
  <2>2. v \in Value /\ v.text = text
        /\ v.kind = IF text = << >> THEN "Literal" ELSE "Str"
    BY <1>1 DEF Value, Literal, Str
  <2> HIDE DEF name, v, text, comment, r
  <2>3. r.name = name /\ r.value = v /\ r.comment = << >> /\ r \in KeywordRecord
    BY <1>1, <2>1, <2>2, EmptyText DEF KeywordRecord
  <2>4. IsStorable(r)
    BY <1>1, <1>3, <1>5, <2>2, <2>3, EmptyText DEF IsStorable
  <2>5. QED
    BY <1>1, <1>2, <2>3, <2>4 DEF r
<1>6. QED
  BY <1>4, <1>5

(* A keyword survives being written and read if and only if it is          *)
(* storable: smooth, no literal in quotes, and no commentary keyword with  *)
(* a comment of its own or with a text of the other kind                   *)
(* (render_xml and parse_keyword).                                        *)
THEOREM KeywordRoundTrip ==
  ASSUME NEW kw \in KeywordRecord, kw.name # << >>
  PROVE  Reread(kw) = kw <=> IsStorable(kw)
<1> DEFINE name == Normalized(kw.name)
           comment == Normalized(kw.comment)
           text == Normalized(kw.value.text)
           value == ClassifyValue(Normalized(RenderedValue(kw.value)))
           r == Reread(kw)
<1>1. ASSUME r = kw PROVE IsStorable(kw)
  BY <1>1, KeywordSettles
<1>2. ASSUME IsStorable(kw) PROVE r = kw
  <2>1. name = kw.name /\ comment = kw.comment /\ text = kw.value.text
    BY <1>2, KeywordShape, ValueShape, NormalizedText DEF IsStorable
  <2>2. CASE ~IsCommentary(kw.name)
    <3>1. r = [name |-> name, value |-> value, comment |-> comment]
      BY <2>1, <2>2, KeywordAttrs DEF Reread, ParseKeyword
    <3>2. value = kw.value
      BY <1>2, <2>2, KeywordShape, ClassifiedValue DEF IsStorable
    <3>3. QED
      BY <2>1, <3>1, <3>2, KeywordShape
  <2>3. CASE IsCommentary(kw.name)
    <3>1. kw.comment = << >> /\ kw.value = IF text = << >> THEN Literal(text) ELSE Str(text)
      BY <1>2, <2>1, <2>3, KeywordShape, ValueShape DEF IsStorable
    <3>2. ClassifyValue(<< >>) = Literal(<< >>)
      BY EmptyText DEF ClassifyValue, IsQuoted
    <3>3. r = [name |-> name, value |-> IF text = << >> THEN Literal(text) ELSE Str(text), comment |-> << >>]
      BY <2>1, <2>3, <3>2, KeywordAttrs DEF Reread, ParseKeyword
    <3>4. QED
      BY <2>1, <3>1, <3>3, KeywordShape
  <2>4. QED
    BY <2>2, <2>3
<1>3. QED
  BY <1>1, <1>2

-------------------------------------------------------------------------------
(* Properties *)

(* A property is its four fields. *)
LEMMA PropertyShape ==
  ASSUME NEW p \in PropertyRecord
  PROVE  /\ p.type \in Text /\ p.value \in Text /\ p.comment \in Text /\ p.format \in Text
         /\ p = [type |-> p.type, value |-> p.value, comment |-> p.comment, format |-> p.format]
BY DEF PropertyRecord

(* The attributes of a property that the writer has made, present or not.  *)
LEMMA PropertyAttrs ==
  ASSUME NEW p \in PropertyRecord, NEW id \in Text
  PROVE  LET attrs == RenderProperty(id, p)
         IN  /\ HasId(attrs) /\ HasValue(attrs) /\ ~Duplicated(attrs)
             /\ IdOf(attrs) = Normalized(id)
             /\ ParseProperty(attrs) =
                  [type |-> Normalized(p.type), value |-> Normalized(p.value),
                   comment |-> Normalized(p.comment), format |-> Normalized(p.format)]
<1> DEFINE attrs == RenderProperty(id, p)
           f == IF p.format = << >> THEN 0 ELSE 1
           c == IF p.comment = << >> THEN 0 ELSE 1
           given == <<Attr("id", id), Attr("type", p.type), Attr("value", p.value)>>
<1>1. /\ DOMAIN attrs = 1 .. 3 + f + c
      /\ attrs[1] = Attr("id", id) /\ attrs[2] = Attr("type", p.type) /\ attrs[3] = Attr("value", p.value)
      /\ f = 1 => attrs[4] = Attr("format", p.format)
      /\ c = 1 => attrs[4 + f] = Attr("comment", p.comment)
  <2>1. CASE f = 0 /\ c = 0
    BY <2>1 DEF RenderProperty
  <2>2. CASE f = 1 /\ c = 0
    BY <2>2 DEF RenderProperty
  <2>3. CASE f = 0 /\ c = 1
    BY <2>3 DEF RenderProperty
  <2>4. CASE f = 1 /\ c = 1
    BY <2>4 DEF RenderProperty
  <2>5. QED
    BY <2>1, <2>2, <2>3, <2>4
<1> HIDE DEF attrs
<1>2. \A key, text: Attr(key, text).key = key /\ Attr(key, text).text = text
                    /\ Attr(key, text).spelling = key
  BY DEF Attr, SpelledAttr
<1>3. /\ f \in 0 .. 1 /\ c \in 0 .. 1
      /\ f = 0 => Normalized(p.format) = << >>
      /\ c = 0 => Normalized(p.comment) = << >>
  BY EmptyText
<1> HIDE DEF f, c
<1>4. \A i \in DOMAIN attrs: i \in {1, 2, 3} \/ (f = 1 /\ i = 4) \/ (c = 1 /\ i = 4 + f)
  BY <1>1, <1>3
<1>5. Has(attrs, "id") /\ AttrText(attrs, "id", << >>) = Normalized(id)
  <2>1. \A j \in DOMAIN attrs: attrs[j].key = "id" <=> j = 1
    BY <1>1, <1>2, <1>3, <1>4
  <2>2. 1 \in DOMAIN attrs /\ attrs[1].text = id
    BY <1>1, <1>2, <1>3
  <2>3. QED
    BY <2>1, <2>2, OnlyAttr
<1>6. AttrText(attrs, "type", <<String>>) = Normalized(p.type)
  <2>1. \A j \in DOMAIN attrs: attrs[j].key = "type" <=> j = 2
    BY <1>1, <1>2, <1>3, <1>4
  <2>2. 2 \in DOMAIN attrs /\ attrs[2].text = p.type
    BY <1>1, <1>2, <1>3
  <2>3. QED
    BY <2>1, <2>2, OnlyAttr
<1>7. Has(attrs, "value") /\ AttrText(attrs, "value", << >>) = Normalized(p.value)
  <2>1. \A j \in DOMAIN attrs: attrs[j].key = "value" <=> j = 3
    BY <1>1, <1>2, <1>3, <1>4
  <2>2. 3 \in DOMAIN attrs /\ attrs[3].text = p.value
    BY <1>1, <1>2, <1>3
  <2>3. QED
    BY <2>1, <2>2, OnlyAttr
<1>8. AttrText(attrs, "format", << >>) = Normalized(p.format)
  <2>1. CASE f = 1
    <3>1. 4 \in DOMAIN attrs /\ attrs[4].text = p.format
      BY <1>1, <1>2, <1>3, <2>1
    <3>2. \A j \in DOMAIN attrs: attrs[j].key = "format" <=> j = 4
      BY <1>1, <1>2, <1>3, <1>4, <2>1
    <3>3. QED
      BY <3>1, <3>2, OnlyAttr
  <2>2. CASE f = 0
    <3>1. \A j \in DOMAIN attrs: attrs[j].key # "format"
      BY <1>1, <1>2, <1>3, <1>4, <2>2
    <3>2. QED
      BY <1>3, <2>2, <3>1, NoAttr
  <2>3. QED
    BY <1>3, <2>1, <2>2
<1>9. AttrText(attrs, "comment", << >>) = Normalized(p.comment)
  <2>1. CASE c = 1
    <3>1. 4 + f \in DOMAIN attrs /\ attrs[4 + f].text = p.comment /\ 4 + f \in Int
      BY <1>1, <1>2, <1>3, <2>1
    <3>2. \A j \in DOMAIN attrs: attrs[j].key = "comment" <=> j = 4 + f
      BY <1>1, <1>2, <1>3, <1>4, <2>1
    <3>3. QED
      BY <3>1, <3>2, OnlyAttr
  <2>2. CASE c = 0
    <3>1. \A j \in DOMAIN attrs: attrs[j].key # "comment"
      BY <1>1, <1>2, <1>3, <1>4, <2>2
    <3>2. QED
      BY <1>3, <2>2, <3>1, NoAttr
  <2>3. QED
    BY <1>3, <2>1, <2>2
<1>10. ~Duplicated(attrs)
  BY <1>1, <1>2, <1>3, <1>4 DEF Duplicated
<1>11. QED
  BY <1>5, <1>6, <1>7, <1>8, <1>9, <1>10 DEF HasId, HasValue, IdOf, ParseProperty, attrs

(* A property survives being written and read if and only if its texts are *)
(* smooth, and what has been read once survives (render_xml and            *)
(* parse_property).                                                        *)
THEOREM PropertyRoundTrip ==
  ASSUME NEW p \in PropertyRecord, NEW id \in Text
  PROVE  /\ RereadProperty(id, p) = p <=> IsStorableProperty(p)
         /\ RereadProperty(id, p) \in PropertyRecord
         /\ IsStorableProperty(RereadProperty(id, p))
<1> DEFINE r == [type |-> Normalized(p.type), value |-> Normalized(p.value),
                 comment |-> Normalized(p.comment), format |-> Normalized(p.format)]
<1>1. RereadProperty(id, p) = r
  BY PropertyAttrs DEF RereadProperty
<1>2. /\ r \in PropertyRecord /\ IsStorableProperty(r)
  BY PropertyShape, NormalizedText DEF PropertyRecord, IsStorableProperty
<1>3. r = p <=> IsStorableProperty(p)
  <2>1. r = p <=> r.type = p.type /\ r.value = p.value /\ r.comment = p.comment /\ r.format = p.format
    BY PropertyShape
  <2>2. QED
    BY <2>1, PropertyShape, NormalizedText DEF IsStorableProperty
<1>4. QED
  BY <1>1, <1>2, <1>3
===============================================================================
