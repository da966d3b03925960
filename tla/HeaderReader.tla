------------------------------ MODULE HeaderReader ------------------------------
(***************************************************************************)
(* The event loop of parse_xml_with_index (src/src/reader.rs): one step    *)
(* per XML event.  Events are a tag, an end tag, text, character data, a   *)
(* reference to an entity, or anything else.  The span of an element is    *)
(* given by the numbers of its first and last event.                       *)
(***************************************************************************)
EXTENDS ElementText, ImageGeometry

VARIABLES
  phase,          \* "reading", then "done" or "error"
  events,         \* the events read so far
  stack,          \* the open elements, by the number of their start tag
  keywords,       \* Header::keywords
  keywordSpans,
  properties,     \* Header::properties
  propertySpans,
  open,           \* open_property
  images,         \* image_count
  imageEnd,       \* image_end_start; 0 before any </Image>
  locations,      \* what record_location found
  geometry        \* Header::geometry

readerVars == <<events, stack, keywords, keywordSpans, properties, propertySpans,
                open, images, imageEnd, locations, geometry>>

Event(kind, tag, attrs, text) == [kind |-> kind, tag |-> tag, attrs |-> attrs, text |-> text]
Empty(tag, attrs) == Event("empty", tag, attrs, << >>)
Start(tag, attrs) == Event("start", tag, attrs, << >>)
End(tag) == Event("end", tag, << >>, << >>)

IsTag(e) == e.kind \in {"empty", "start"}
Tagged(e, tag) == IsTag(e) /\ e.tag = tag

(* All attributes but the geometry hold texts. *)
IsEvent(e) ==
  /\ e.text \in Text /\ e.attrs \in Seq(Range(e.attrs))
  /\ \A i \in DOMAIN e.attrs: e.attrs[i].key # "geometry" => e.attrs[i].text \in Text

OpenProperties == [isOpen: BOOLEAN, first: Nat, id: Text, hasId: BOOLEAN, hasValue: BOOLEAN, prop: PropertyRecord]
Closed == [isOpen |-> FALSE, first |-> 0, id |-> << >>, hasId |-> FALSE,
           hasValue |-> FALSE, prop |-> ParseProperty(<< >>)]
Geometry(state, items) == [state |-> state, items |-> items]
Unseen == Geometry("unseen", << >>)

NothingRead ==
  /\ events = << >> /\ stack = << >>
  /\ keywords = << >> /\ keywordSpans = << >>
  /\ properties = [id \in {} |-> Closed.prop] /\ propertySpans = << >> /\ open = Closed
  /\ images = 0 /\ imageEnd = 0 /\ locations = << >> /\ geometry = Unseen

StartReading ==
  /\ events' = << >> /\ stack' = << >>
  /\ keywords' = << >> /\ keywordSpans' = << >>
  /\ properties' = [id \in {} |-> Closed.prop] /\ propertySpans' = << >> /\ open' = Closed
  /\ images' = 0 /\ imageEnd' = 0 /\ locations' = << >> /\ geometry' = Unseen

-------------------------------------------------------------------------------
(* quick_xml: start tags nest, an end tag closes the innermost one.        *)

Here == Len(events) + 1
Mismatched(e) ==
  e.kind = "end" /\ ~(stack # << >> /\ events[stack[Len(stack)]].tag = e.tag)
Advance(e) ==
  /\ phase = "reading" /\ ~Mismatched(e)
  /\ events' = Append(events, e)
  /\ stack' = CASE e.kind = "start" -> Append(stack, Here)
                [] e.kind = "end" -> SubSeq(stack, 1, Len(stack) - 1)
                [] OTHER -> stack

(* find_attr_value_span scans the bytes of the tag, attribute by attribute: *)
(* the first text that reads as a location is taken, be it the location    *)
(* attribute or part of another one's value.                               *)
Scanned(attrs) ==
  LET found == {i \in DOMAIN attrs: attrs[i].location.form # "none"}
  IN  {i \in found: \A j \in found: i <= j}

(* Slip: only images are looked at. *)
SlipRecordLocation(e) ==
  locations' = locations \o
    IF \E i \in Scanned(e.attrs): e.tag = "Image" /\ e.attrs[i].location.form \in {"attachment", "malformed"}
    THEN LET i == CHOOSE k \in Scanned(e.attrs): TRUE
         IN  <<[event |-> Here, attr |-> i, isImage |-> TRUE, is |-> e.attrs[i].location]>>
    ELSE << >>

(* Keywords excepted, a tag's location is recorded if it is an attachment, *)
(* well-formed or not.                                                     *)
RecordLocation(e) ==
  locations' = locations \o
    IF \E i \in Scanned(e.attrs): e.attrs[i].location.form \in {"attachment", "malformed"}
    THEN LET i == CHOOSE k \in Scanned(e.attrs): TRUE
         IN  <<[event |-> Here, attr |-> i, isImage |-> e.tag = "Image", is |-> e.attrs[i].location]>>
    ELSE << >>

-------------------------------------------------------------------------------
(* Tags *)

(* The geometry attribute; two of them, or any malformed attribute, spoil it. *)
GeometryAttr(attrs) ==
  CASE Duplicated(attrs) \/ \E i, j \in Having(attrs, "geometry"): i # j -> Geometry("malformed", << >>)
    [] ~Duplicated(attrs) /\ Having(attrs, "geometry") = {} -> Geometry("missing", << >>)
    [] OTHER -> LET items == attrs[CHOOSE i \in Having(attrs, "geometry"): TRUE].text
                IN  Geometry(IF IsGeometry(items) THEN "ok" ELSE "malformed", items)

(* Slip: each image is judged by itself. *)
SlipObserveImage(e) ==
  geometry' = IF geometry.state = "ok" THEN Geometry("multiple", << >>) ELSE GeometryAttr(e.attrs)

(* NativeGeometry::observe_image: whatever the first image says, a second  *)
(* one leaves no geometry.                                                 *)
ObserveImage(e) ==
  geometry' = IF geometry = Unseen THEN GeometryAttr(e.attrs) ELSE Geometry("multiple", << >>)

ReadImage(e) ==
  /\ Tagged(e, "Image") /\ Advance(e)
  /\ images' = images + 1
  /\ ObserveImage(e)
  /\ RecordLocation(e)
  /\ UNCHANGED <<phase, keywords, keywordSpans, properties, propertySpans, open, imageEnd>>

(* Slip: the span of a nameless keyword is recorded. *)
SlipReadKeyword(e) ==
  /\ Tagged(e, "FITSKeyword") /\ ~Duplicated(e.attrs) /\ Advance(e)
  /\ keywords' = IF IsNamed(e.attrs) THEN Append(keywords, ParseKeyword(e.attrs)) ELSE keywords
  /\ keywordSpans' = Append(keywordSpans, Here)
  /\ UNCHANGED <<phase, properties, propertySpans, open, images, imageEnd, locations, geometry>>

ReadKeyword(e) ==
  /\ Tagged(e, "FITSKeyword") /\ ~Duplicated(e.attrs) /\ Advance(e)
  /\ \/ /\ IsNamed(e.attrs)
        /\ keywords' = Append(keywords, ParseKeyword(e.attrs))
        /\ keywordSpans' = Append(keywordSpans, Here)
     \/ ~IsNamed(e.attrs) /\ UNCHANGED <<keywords, keywordSpans>>
  /\ UNCHANGED <<phase, properties, propertySpans, open, images, imageEnd, locations, geometry>>

(* Slip: the first of two properties with one id stays. *)
SlipInsert(id, p, first, last) ==
  /\ properties' = [i \in DOMAIN properties \cup {id} |-> IF i \in DOMAIN properties THEN properties[i] ELSE p]
  /\ propertySpans' = Append(propertySpans, <<first, last>>)

Insert(id, p, first, last) ==
  /\ properties' = [i \in DOMAIN properties \cup {id} |-> IF i = id THEN p ELSE properties[i]]
  /\ propertySpans' = Append(propertySpans, <<first, last>>)

ReadEmptyProperty(e) ==
  /\ Tagged(e, "Property") /\ e.kind = "empty" /\ ~Duplicated(e.attrs) /\ Advance(e)
  /\ RecordLocation(e)
  /\ \/ HasId(e.attrs) /\ Insert(IdOf(e.attrs), ParseProperty(e.attrs), Here, Here)
     \/ ~HasId(e.attrs) /\ UNCHANGED <<properties, propertySpans>>
  /\ UNCHANGED <<phase, keywords, keywordSpans, open, images, imageEnd, geometry>>

(* Slip: a property inside the one in progress is passed over. *)
SlipOpenProperty(e) ==
  /\ Tagged(e, "Property") /\ e.kind = "start" /\ ~Duplicated(e.attrs) /\ Advance(e)
  /\ RecordLocation(e)
  /\ open' = IF open.isOpen THEN open
             ELSE [isOpen |-> TRUE, first |-> Here, id |-> IdOf(e.attrs), hasId |-> HasId(e.attrs),
                   hasValue |-> HasValue(e.attrs), prop |-> ParseProperty(e.attrs)]
  /\ UNCHANGED <<phase, keywords, keywordSpans, properties, propertySpans, images, imageEnd, geometry>>

(* The property in progress is overwritten if there is one. *)
OpenProperty(e) ==
  /\ Tagged(e, "Property") /\ e.kind = "start" /\ ~Duplicated(e.attrs) /\ Advance(e)
  /\ RecordLocation(e)
  /\ open' = [isOpen |-> TRUE, first |-> Here, id |-> IdOf(e.attrs), hasId |-> HasId(e.attrs),
              hasValue |-> HasValue(e.attrs), prop |-> ParseProperty(e.attrs)]
  /\ UNCHANGED <<phase, keywords, keywordSpans, properties, propertySpans, images, imageEnd, geometry>>

ReadOtherTag(e) ==
  /\ IsTag(e) /\ e.tag \notin {"Image", "FITSKeyword", "Property"} /\ Advance(e)
  /\ RecordLocation(e)
  /\ UNCHANGED <<phase, keywords, keywordSpans, properties, propertySpans, open, images, imageEnd, geometry>>

-------------------------------------------------------------------------------
(* Content and end tags *)

ReadText(e) ==
  /\ e.kind \in {"text", "cdata"} /\ Advance(e)
  /\ \/ /\ open.isOpen /\ ~open.hasValue
        /\ open' = [open EXCEPT !.prop.value = @ \o e.text]
     \/ ~(open.isOpen /\ ~open.hasValue) /\ UNCHANGED open
  /\ UNCHANGED <<phase, keywords, keywordSpans, properties, propertySpans, images, imageEnd, locations, geometry>>

(* Slip: the span ends where the next event does. *)
SlipCloseProperty(e) ==
  /\ e.kind = "end" /\ e.tag = "Property" /\ Advance(e)
  /\ \/ open.isOpen /\ open.hasId /\ Insert(open.id, open.prop, open.first, Here + 1)
     \/ ~(open.isOpen /\ open.hasId) /\ UNCHANGED <<properties, propertySpans>>
  /\ open' = Closed
  /\ UNCHANGED <<phase, keywords, keywordSpans, images, imageEnd, locations, geometry>>

CloseProperty(e) ==
  /\ e.kind = "end" /\ e.tag = "Property" /\ Advance(e)
  /\ \/ open.isOpen /\ open.hasId /\ Insert(open.id, open.prop, open.first, Here)
     \/ ~(open.isOpen /\ open.hasId) /\ UNCHANGED <<properties, propertySpans>>
  /\ open' = Closed
  /\ UNCHANGED <<phase, keywords, keywordSpans, images, imageEnd, locations, geometry>>

CloseImage(e) ==
  /\ e.kind = "end" /\ e.tag = "Image" /\ Advance(e)
  /\ imageEnd' = Here
  /\ UNCHANGED <<phase, keywords, keywordSpans, properties, propertySpans, open, images, locations, geometry>>

(* Other end tags, declarations, comments -- and references to entities,   *)
(* which quick_xml takes out of the text around them.                      *)
SkipEvent(e) ==
  /\ ~IsTag(e) /\ e.kind \notin {"text", "cdata"}
  /\ e.kind = "end" => e.tag \notin {"Property", "Image"}
  /\ Advance(e)
  /\ UNCHANGED <<phase, keywords, keywordSpans, properties, propertySpans, open, images, imageEnd,
                 locations, geometry>>

(* The parse fails; what it has collected is dropped. *)
RejectEvent(e) ==
  /\ phase = "reading"
  /\ \/ Mismatched(e)
     \/ (Tagged(e, "FITSKeyword") \/ Tagged(e, "Property")) /\ Duplicated(e.attrs)
  /\ phase' = "error" /\ UNCHANGED readerVars

ReadEvent(e) ==
  \/ ReadImage(e) \/ ReadKeyword(e) \/ ReadEmptyProperty(e) \/ OpenProperty(e) \/ ReadOtherTag(e)
  \/ ReadText(e) \/ CloseProperty(e) \/ CloseImage(e) \/ SkipEvent(e) \/ RejectEvent(e)

(* quick_xml does not mind elements left open at the end. *)
EndOfInput == phase = "reading" /\ phase' = "done" /\ UNCHANGED readerVars

(* resolve_image *)
ImageIsResolved ==
  /\ images = 1
  /\ \E l \in Range(locations): l.isImage
  /\ \A l \in Range(locations): l.is.form # "malformed"
===============================================================================
