# A verification project for xisf-header

TLA+ modules that model the crate `xisf-header` (`src/src/*.rs`), TLC
configurations that check them on small instances, and theorems about the editing API,
the reader, the writer, updates in place, the relocation of data and concurrent calls on one
file, checked by TLAPS. Source lines
below are those of `src/src/`.

## 1. The system

A container file is a 16-byte preamble (signature, length of the XML header), an
XML header, and data blocks that the header locates by
`location="attachment:OFFSET:SIZE"`. The crate parses the header, lets the caller
edit keywords and properties in memory, and either writes a new container or
splices the edits into an existing one.

| Part | State | Operations | Talks to |
|---|---|---|---|
| Header editing API (`header.rs`, `key.rs`, `error.rs`) | ordered keyword vector, names possibly repeated in any letter case; map of properties | `get*`, `set`, `set_with_comment`, `set_comment`, `append`, `remove`, `remove_all`, `set_many`, `remove_many`, `set_property*`, `remove_property` | called by the user, and inside the closure given to `update_file` |
| Reader (`reader.rs`) | event loop: open property, spans, locations, image count | `parse`, `read_from_file`, `parse_xml_with_index`: preamble, then one XML event after another | `update_file` uses its spans; files |
| In-place update (`splice.rs`) | before/after headers, regions to replace, length deltas | `update_file`: match, render, relocate, splice, reassemble, replace atomically | reader, closure, file system |
| Writer (`writer.rs`) | none | `to_header_bytes`, `write_to_file`: two renderings around the offset of the data | file system |
| Values, properties, rendering (`value.rs`, `property.rs`, `keyword.rs`) | none | conversions | reader, writer, splice |
| Geometry (`geometry.rs`) | what was seen of `<Image geometry>` | `observe_image`, `parse` | reader |

The hard parts, and what makes each component correct:

- **Editing API.** Strict names: a bare name that is ambiguous is an error, never
  a guess. Batches are all-or-nothing, although they validate every entry before
  applying any, and applying one can change what the next one finds.
  `set_with_comment` resolves its key twice. And `match_keywords` (splice) is only
  right if *no* sequence of calls reorders keywords or inserts in the middle.
- **Content of an update.** The file must read back as the header the closure left, as
  far as an element can hold its values, and exactly if it can; everything unmodelled and unedited must stay byte for byte; every
  data block must still be found; and the result must be acceptable to the next
  update.
- **Reader.** Keywords and their spans are two vectors aligned by index, properties
  a map and a vector in closing order; both must describe one document, whatever is
  skipped in between. Locations are found by a scan of bytes, not of attributes. The
  geometry of a file with two images is nobody's. And two entry points check one cap.
- **Writer.** What is written must be read back as the same header, of the same Rust
  types, under three layers of text conventions (quotes, commentary keywords, XML
  attributes), and the location must lead to the data although its own digits are part
  of the header in front of it.
- **Relocation.** The header contains the decimal offsets of the data, which
  depend on the header's length, which depends on their digits: a fixpoint, cut
  off after 16 rounds.
- **Files.** Nothing is locked. Several processes or threads update, read and
  create one path; system calls fail; processes die between creating the temporary
  file and renaming it, and their ids are reused.

The full list of hazards, each at its line with the properties that watch it, is
in `PROJECT.json`.

## 2. Modules

| Module | Models | State ↔ code |
|---|---|---|
| `HeaderApi` | `impl Header`: every public call that reads or changes it | `keywords`, `properties` are the fields; `call` holds the locals of the loop in progress (entries, cursor, count); `res` is the last result. The looping calls take one iteration per step; no other call can start meanwhile (`&mut self`). |
| `HeaderContract` | what the API promises: for each name, up to letter case, the list of its occurrences; every call one indivisible step | refinement mapping (`Occurrences`, `Visible`) at the end of `HeaderApi` |
| `HeaderApiProofs` | theorems about `HeaderApi`; it implements `HeaderContract` | |
| `LocationText` | length of a location text and how it grows with a shift of the data | `relocate_attachment` |
| `Relocation` | the loop of `relocate_attachments` | `total` is `total_delta`, `round` the loop variable |
| `RelocationProofs` | theorems about `Relocation` | |
| `UpdateFile` | the content of one `update_file` call after another | `items` is the XML header cut into elements, tags, locations and runs of other bytes; `tail` the bytes behind it |
| `SpliceProofs`, `UpdateFileProofs` | what the operators of `UpdateFile` return; theorems about it | |
| `AtomicFile` | what the crate promises of one file shared by calls: whole reads, creations and replacements | |
| `ContainerFile` | `update_file`, `read_from_file`, `write_to_file`, one system call per step | `dir`, `tmp`, `data`, `mode` are the file system; `pc`, `path`, `target`, `ino`, `pos`, `buf` each call's locals |
| `ContainerFileProofs` | theorems about `ContainerFile`; it implements `AtomicFile` | |
| `ElementText` | keywords and properties as XML elements: quotes, the commentary form, attributes, and both directions | no state; a text is a sequence of tokens |
| `ImageGeometry` | a geometry as the reader parses it and as the writer computes a size from it | no state; an item is a notation and a number |
| `TypedValue` | `from_field` and `into_value` of `f64`, `i64`, `u32`, `bool` | no state; numbers in quarters, floats with few bits |
| `HeaderReader` | the event loop of `parse_xml_with_index`, one action per kind of event | `keywords`, `properties`, `keywordSpans`, `propertySpans`, `open`, `images`, `imageEnd`, `locations`, `geometry` are the function's locals and results; `events` and `stack` are the document read so far |
| `HeaderRoundTrip` | writer, preamble, reader: a header goes to bytes and comes back, again and again, or the file is somebody else's | `memory` is the `Header` in memory, `container` the preamble and lengths of the bytes, `written` what `render_xml` wrote; `phase` says who is at work |
| `ElementTextProofs`, `HeaderRoundTripProofs`, `ReaderProofs` | theorems about these modules | |
| `MC*` | small instances | |

How they compose. `ContainerFile` leaves out what an update writes, except for
"the container it read, with one more edit"; `UpdateFile` says what that is.
`UpdateFile` takes the edits a closure can make from `HeaderApi!SlotDiscipline`
(change, delete, append), which is proved for all headers; and it takes the
rounds of relocation as a function (`Guess`), while `Relocation` steps through
them. `LocationText` is shared by both. What a value becomes by
being rendered and read again are its constants `KeywordReadBack` and `PropertyReadBack`;
`MCUpdateFile` and `MCHeaderRoundTrip` give them as `ElementText` has it (`Reread`,
`RereadProperty`). `UpdateFile`'s result becoming the file
in one step is what `ContainerFile` shows of the rename.

`HeaderRoundTrip` extends `HeaderReader`, `TypedValue`, `ElementText`, `ImageGeometry` and
`LocationText`, so that one behaviour leads from a Rust value through a keyword, an
element, a container and the event loop back to a Rust value. `UpdateFile` does not run
the event loop: it has operators that say what a parse yields. `UpdateSeesThis`
(`MCHeaderRoundTrip`) instantiates `UpdateFile` and compares the two on every document of
the run: keywords, properties, spans, locations, image and insertion point.

Abstractions. Names, values and property texts are members of small sets.
Digits are a constant function, given as decimal digits to TLC. In `UpdateFile` an item
holds the value as the reader takes it, so rendering is not the identity
(`splice.rs:383-417`): a quoted literal is read as a string, a commentary keyword keeps no
comment of its own, a line break becomes a space. Names and ids are taken to be those that
`validate_name` and `validate_property_id` accept. A span is an item position, which orders
and overlaps as byte spans do: a tag that holds a location is cut around it, so an
edit of a property that owns a block does overlap its location. Comments of
keywords, type and format of properties have no item of their own there: a value stands
for all that an element holds besides its name, and what matters for splicing is whether
it changed. Sorting of blocks with the same
start is taken to keep document order. In `ContainerFile` a container is two
chunks, header and data, each marked with the edits it belongs to; a data chunk
under another version's header is misplaced data.

In the reader's and writer's modules an XML event is one step and spans are numbers of
events. A token of a text is a quote, a space, a line break (tab, line feed, carriage
return), or a word without these; XML escaping is undone by unescaping and has no
counterpart, but attribute normalization has (`Normalized`: line breaks become
spaces, the exception `tests/proptest_roundtrip.rs:24-25` makes too). Tags are compared
without regard to letter case in the code and have one spelling here; attributes keep
theirs, because quick_xml and the crate differ on when two are the same
(`Duplicated`, `Having`). An attribute carries the location that its text reads as,
if any, which is all that the scan for locations sees. Attributes with an unknown
entity, invalid UTF-8 within text and encodings are errors of quick_xml and left out.
The written length is taken to fit 32 bits. A byte-order mark is skipped by the parser.

Definitions whose name starts with `Slip` are plausible mistakes (a dropped check,
an off-by-one, a missing copy). No specification uses them; each is there to show
that a property would notice.

## 3. Runs

Bounds are in the `.cfg` files.

| Run (`cfg`) | Question | Bounds and why they suffice |
|---|---|---|
| `MCHeaderKeywords` | slot discipline, strict names, read-back, types | three keywords (so one before, at and behind any slot), two spellings of one name, one illegal name that only a file can hold, occurrence numbers 0 and 1 (2 would need a third equal name; out of range is reached with 1). All headers within the bound are initial. |
| `MCHeaderBatches` | loops and refinement of `HeaderContract`; property frame | batches of up to two entries: distinct, equal up to case, and unsorted, on headers of up to three keywords; one legal property id, one illegal |
| `MCRelocation` | is the shift the nearest consistent one; monotony, cost and end of the rounds | up to three attachments around 100 and 1000 with zero-padded texts, three attachments for which shifts of 2, 3 and 4 are all consistent with one more byte, and rows of 14 to 18 one-byte attachments just below 1000, which need more rounds than the cap |
| `MCUpdateFile` | round trip, verbatim bytes, no-op identity, blocks kept, readable and updatable again | a first update of up to two changes and a second of one, so that every property also meets what the crate itself has written; values that an element can hold (a long string) and that it cannot (a quoted literal with a comment, a text with a line break), on ordinary and commentary keywords and on properties; twelve layouts: the crate's own, two blocks with a gap and a block before the image's, repeated names and ids, a property with its own block, a self-closing image, an image left open at the end of the header, and six that must be refused; offsets gain a digit on the way |
| `MCHeaderRoundTrip` | does what the event loop collects agree with the document; does what is written come back; do `UpdateFile` and the reader see the same | *Own* headers: every keyword with an ordinary or a commentary name, either kind of value, six texts (empty, plain, a lone quote, quoted, padded, with a line break) and three comments; seven typed values; properties with every optional attribute; two ids that normalization makes equal. Eight hints: sizes that fit, that saturate, that wrap, that are zero, not decimal or no numbers. Two cycles, the second of which starts from what was read. *Foreign* headers: all sequences of up to four of nineteen events, which suffice for two images and more, a property in a property with text before and after, nameless and long-form keywords, lookalike locations and duplicate attributes; five preambles. `MaxHeader` is reached by some of the crate's own headers, `Usize` is 32, `u32::MAX` 15, a float has four bits and `Steps` reaches 16: enough for each boundary to be crossed. |
| `MCFileProcesses` | atomicity of the replacement under failures and crashes; refinement of `AtomicFile` | three updates from two processes; two of them share a process id, which is what a crash and a reused id need |
| `MCFileCreate` | creation racing creation, update and read; refinement of `AtomicFile`; every call ends | two creators, one updater, one reader |

Deadlock checking is off where the system really stops: finished calls, a settled
relocation, used-up updates. `HeaderApi` never stops and is checked for it.

**Fairness.** `MCFileCreate` assumes weak fairness of the steps of each call in
progress (`WF_vars(Step(c))`): a thread inside a system call or between two of
them keeps running. Nobody has to start a call, and a process may die at any time.
`Relocation` assumes weak fairness of its only action, a loop body. The other
specifications are safety only.

**Disagreements between code and documentation** (each a run in which TLC finds the
violation):

- `MCFileThreadsTargetWhole`: the temporary name is
  made of the file name and the process id (`splice.rs:372-378`). Two threads of
  one process that update the same file share it: the file may become a truncated
  container, and a call that returns an error may have replaced the file (`ErrorUntouched`
  fails under the same configuration). The
  documentation promises an atomic write and an untouched file on error
  (`writer.rs:140,148`). With at most one such call per process
  (`Threaded = FALSE`) both properties hold, crashes and reused ids included.
- `MCUpdateLongForm`: the span recorded for `<FITSKeyword …></FITSKeyword>` is that
  of the start tag (`reader.rs:239-242`); editing or removing the keyword leaves an
  end tag that closes nothing, and the file is not readable any more.
- `MCUpdateBehindImage`: new keywords go in front of `</Image>`, but keywords behind
  it are read too; the order read back then differs from the closure's, while
  `header.rs:61-62` says that keyword order is preserved.
- `MCEntityContent`: quick_xml (0.41) reports `&amp;` within an element as an event of its
  own; the loop collects text and character data and lets everything else fall through
  (`reader.rs:286`). `<Property …>a &amp; b</Property>` reads as `a  b`, while
  `property.rs:33-35` says that the value is the child text. What survives is exactly
  the text and the character data (`PropertiesFollowSpans`).
- `MCUpdateTooLong`: the reader accepts headers up to 8 MiB, `update_file` writes
  up to 4 GiB; an update can make a file unreadable to the crate. `MaxHeader`
  stands for the 8 MiB in this run.

Some statements of the documentation hold with exceptions that the passing properties
spell out:

- `writer.rs:29-30` "round-trips back to `header`": `RoundTripsExactly` is an equivalence
  with `IsStorable`. A header does *not* come back if a text has a line break or tab, a
  literal is itself in single quotes, or a commentary keyword has a comment or a text
  of the other kind (its own comment is not written at all). It is changed once and then
  stays (`SettlesAfterOneCycle`). A string with quotes in it does come back, although
  nothing is `''`-escaped as `value.rs:26` has it.
- The same of an update: `splice.rs:383-417` renders by the rules of `writer.rs`, so what the
  closure sets may be changed once. `RoundTrip` says that every keyword and property read
  back is what the closure left or what that becomes by being rendered and read; only
  edited elements are rendered (`UneditedVerbatim`). `StorableRoundTrip`, a
  consequence and a theorem only, says that the file reads back as exactly the header the
  closure left if all its values can be stored.
- `reader.rs:33` "extracts every `<FITSKeyword>` and `<Property>`": of nested properties in
  the long form only the innermost (`OnlyEnclosingPropertiesAreLost`).
- `reader.rs:374-377` "a plain scan … is sufficient": unless another attribute's text
  reads like a location (`LooksAlike` in `LocationsAreAttributes`).
- `writer.rs:243` "implied by the hinted geometry": a geometry with a hexadecimal, octal or
  binary item counts as one sample for the writer, though the reader accepts it; and a
  product beyond `usize` wraps in a release build and panics in a debug build (`panic` in
  `ToHeaderBytes`). `SizeCoversImage` says when the size is right.

The passing run of `UpdateFile` uses a `MaxHeader` no document reaches and no
document with these two forms, and says what holds apart from these cases. `InPlace`
(`MCUpdateFile`), which TLC evaluates, says which documents it uses: every one of them that is
not refused has properties with only text and their own location between the tags, and
keywords that are one tag in front of `</Image>`.

## 4. Proofs

`HeaderApiProofs` proves, for any names, letter cases, values, batches (of any
length) and header sizes, from `ApiAssumption` (the shapes of the constants) alone:

- `TypeCorrect`: `Spec => []TypeOK`. One lemma per kind of call; `TypeStep` has one step
  per action.
- `BatchesProgress`: `Spec => []BatchProgress`. The inductive invariant is
  `IInv == TypeOK /\ BatchProgress`. `BatchProgress` says what the entries *behind* a loop's
  cursor have established and that those *ahead* are still legal and unambiguous; without
  the second half the step of `set_many` that pushes a keyword could make a later name
  of the batch ambiguous, and nothing would be inductive. The lemmas
  `IndicesAfterUpdate`, `IndicesAfterPush` and `IndicesAfterDelete` say where a name is found
  after each of the three edits.
- `SlotDisciplineHolds`: no step reorders or inserts; the assumption `match_keywords`
  writes down.
- `StrictNamesHold`: a call with a bare repeated name is refused and changes nothing.
- `ReadBackHolds`: both lookups of `set_with_comment` agree in every reachable header.
- `PropertyFrameHolds`: a property call touches one property, and of that only what it was
  asked to.

`FirstOf` is the least element of a set of positions; that every nonempty set has one
(`FirstIsLeast`) is derived from the well-foundedness of `<` on the naturals.

`Refinement` says `Spec => Implements`, from the same assumption.
`Occurrences` is a recursive function over the vector, so what each of the three edits
does to it is an induction over positions (`UpToAgree`, then `OccurrencesAfterPush`,
`OccurrencesAfterUpdate` and `OccurrencesAfterDelete`): a push adds a last occurrence to one
class, the others change or take out one occurrence of one class. A call on one
keyword is then one step of the contract. For the calls that loop `IInv` is not enough,
since it compares the header with the batch and not with the header that was
lent; `LoopInv` says, class by class, that what lies behind the cursor is as the
contract wants it and everything else as it was at the start. The beginning and the
iterations of a loop are stutters, its end is `DropAll`, `DropBatch` or `Assign`. A
name that is not repeated has one occurrence or none (`Unrepeated`), which is why the first
hit that `set_many` and `remove_many` take is all there is.

`ElementTextProofs` proves, for texts of any length over any tokens, from `TextAssumption`
(the special tokens are tokens, and distinct):

- `KeywordRoundTrip`: a keyword with a name comes back from its element if and only if it
  is `IsStorable`; `KeywordSettles`: what comes back is always storable. Both rest on
  what `Normalized`, the quotes and the lookup of attributes do to one text, and on a
  split into commentary and other keywords.
- `PropertyRoundTrip`: the same of properties.

`HeaderRoundTripProofs` proves, for any set of headers, hints, data lengths, foreign
events, preambles and bounds, from `HeaderAssumption` and `ForeignAssumption` (headers are
headers, events are events, `InOrder` enumerates a set of ids) and those of the modules
below:

- `TypeCorrect`, `SpansAligned` and `GeometryCorrect`: type correctness,
  `SpansNameKeywords` and `GeometryIsTheImages`, for documents of any length.
- `RoundTripExact` and `Settled`: `RoundTripsExactly` and `SettlesAfterOneCycle`, for headers
  of any size and any number of cycles.
- `IntegersRead` and `TypedValues`: `IntegersReadExactly` and `TypedSurvives`, for floats of any
  precision and integers of any width. They rest on `ValueAssumption` (number words are
  words, and `"T"` and `"F"` mean what they say), `FloatAssumption` (the distances between
  floats are `Steps`, a set closed under halving, and no word is beyond the largest float: an
  infinity is no number here) and `TypedAssumption` (a value given to `into_value` has a type
  that has it and the word that it is printed as).

The inductive invariant is `IInv == TypeOK /\ CycleInv /\ ReadInv /\ OwnInv`. `ReadInv` holds
for any document: spans and geometry against the events so far. `OwnInv` holds while
the crate reads its own output: the events so far are a prefix of `Document`, and the
keywords and properties read so far are those rendered at these positions, reread, with
nothing left open. `CycleInv` says that what is in memory in a second cycle was
read in a first and is storable. Only together are they inductive: that the
last event completes the header is a statement about the shape of `Document`
(`DocumentShape`), the step of the second cycle needs `KeywordSettles`, and a map of
properties read back needs that `InOrder` lists each id once while
`Normalized` may still merge two of them.

`ReaderProofs` extends this to what else the event loop collects, for any document, texts of
any length and any nesting:

- `LocationsCorrect`: `LocationsAreAttributes`. The invariant `LocationsInv` says of each
  event what it is recorded as (`Record`) and that nothing else is recorded; that a record
  is the location attribute unless something looks alike is then a fact about one tag.
- `PropertiesCorrect`: `PropertiesFollowSpans`. The map of properties and the vector of spans
  say nothing about a property that is still open, so the invariant adds `Opening`: the
  property in progress is what its start tag says and, if that has no value, all text and
  character data since. When its end tag comes this is the `Content` of the new span.
- `InnermostAreRead`: `OnlyEnclosingPropertiesAreLost`. `EnclosingInv` keeps for each event what was
  open after it (`Nesting`), and of every property its `Fate`: it is in progress and the
  innermost of the open ones, or it has a span and encloses none, or it encloses one and
  has no span. That an end tag ends the property in progress, if there is one, is
  not what the loop looks at (it looks at the tag's name): it follows from `Fate`, since the
  open elements are in the order in which they started (`Increasing`) and quick_xml rejects
  an end tag that closes nothing.

`Content` is a fold over the events. That one more event adds what it says and
changes nothing about earlier spans (`SaidGrows`, `SaidKept`) is an induction over data; it is
done by taking the shortest row of texts that fails (`FirstExists`), which the prover's lack of
induction schemes leaves as the way.

It also proves of every file that the crate itself writes, whatever the header and the hints,
if every event and every number is printed in some number of bytes (`Measured`) and, as
`SizeAssumption` has it, sizes are natural numbers and an offset within `MaxHeader` fits the
width that the writer leaves for it:

- `OwnRead`: `OwnIsReadable`, for `parse` and `read_from_file`.
- `OwnLocated`: `OwnLocatesData`. The writer renders twice and takes the length of the first
  rendering, with a place for the offset, to compute the offset of the second. The length of
  a document is a sum over its events (`Weight`), the two documents are the same but for one
  location (`SameBut`, `SameWeight`), and that location is as long as its place.
- `SizesCovered`: `SizeCoversImage`. The products of the writer and of the reader run over the
  same items; the writer's wraps at `Usize`, and a product of numbers that are not zero fits
  only if all partial products do (`ProductFits`).

The invariant is `OwnFileInv`: which rendering of which header the bytes are, and, once they
are being read, `Layout`: which locations, image, geometry and open elements the event
loop has after each of its events. It needs to know where the image's start and end tags
are among the elements in between, however many (`MiddleEvents`). `SizeAssumption` is what
TLC evaluates of it; `Measured` ranges over all headers and is stated as the theorems'
hypothesis.

`RelocationProofs` proves, for any number of attachments, any edit, any number of rounds and
any count of digits that does not decrease (`Lengths`; decimal digits are such a count,
`DecimalFits`):

- `NearestIsFound`: `NearestShift`; `RoundsPaid`: `RoundsArePaidFor`; `NeverTurnsBack`: `OneDirection`.

A shift is `Consistent` if the header grows by exactly what the offsets were shifted by and
none is below zero. There may be several, since a digit more makes room for itself;
`NearestShift` says that the loop returns the one nearest to the edit's own growth, and that it
gives up, below zero or at the cap, without having passed any.

The invariant is `IInv`: `Shape`, `Direction`, `Stuck` (a first guess below zero
is the only one), `NonePassed` (no consistent shift lies between the first guess and the latest,
the latest excepted) and that a shift returned is consistent. A round keeps `NonePassed`
because the growth is monotone: a consistent shift ahead of a guess is ahead of, or at, what
that guess needs (`PassesNone`). `Direction` says that the guesses have
all gone one way, that what the latest one needs (`Now`) is no step back from it, and
that each round but the first two has moved it by at least one. It is inductive because the total growth of the locations is
monotone in the shift, an induction over the attachments that is again
done on the first attachment that fails.

`ContainerFileProofs` proves, for any number of calls and processes, process ids given to
calls in any way, any links, inodes and number of chunks, and whatever system calls fail and
processes die, from `FileAssumption` (the shapes of the constants, at least two chunks, and
one inode): if no two updates of one process overlap (`~Threaded`), then

- `TypeCorrect`: `Spec => []TypeOK`;
- `WholeHolds`: `TargetWhole`, the atomicity of the write; `FailuresLeaveNoTrace`: `ErrorUntouched`;
- `CreationIsKept`: `CreatedIsKept`; `NoTmpIsLeft`: `NoStrayTmp`; `ModeIsKept`: `ModeKept`;
  `LinksAreKept`: `LinksStay`.

The hypothesis is needed: `MCFileThreadsTargetWhole` shows that with threads
`TargetWhole` is false. None of the properties is inductive; the invariant `IInv` says what
everybody works on:

- `Alone` and `Separate`: at most one update uses a temporary name, and the inode under
  it is nobody else's: not the file, not under another name, not being read or created.
  Hence writing and truncating it, a dead process's left-over included, disturbs nobody.
- `FileInv` and `Valid`: the file is a prefix of one container whose version holds no update
  that has not returned `Ok`; a proper prefix only while, or after, somebody creates it.
- `CallsOK`: `ReaderOK` and `UpdaterOK` say of each call, phase by phase, that what it
  has read is the beginning of one such container, that this is one the file has been since
  the call began if it is whole, and that what it writes is that container with its own edit.
  An old inode that has been replaced keeps its content, so this survives other calls'
  renames.
- `CreatorOK`, `Sole`, `NotYet` and `NotBegun`: while the file is being created no update is
  past its layout check, so none can rename over the unfinished file, and there is only
  one creator to wait for. Without the first, `CreatedIsKept` would fail: an update
  that had read half of the file would replace the whole.
- `ModeInv` and `Current`: the mode is copied before the rename; every call in
  progress has witnessed what the file is now.

Most steps change neither the file nor another call (`LocalStep`), or only what is under a
temporary name (`TmpStep`); the four that do more (opening for creation, writing the new
file, the rename and the crash) have proofs of their own. `InvStep` puts them together, one
step per action.

`Refinement` says, under the same hypothesis, `Spec => ImplementsAtomicFile`.
Every system call of a call in progress leaves
`Value` and `Status` as they are, except for the rename (`Update`), the last write of a
creation (`Create`), the read of the header (`Read`), beginnings, failures and crashes.
That the rename is an `Update` needs `Ready` (the version edited is in `seen`), and
that reading a header is a `Read` needs `Reading` for a whole file and `FileInv` for one that is
being created.

`UpdateFileProofs` proves, for any number of updates of documents of any length, with any
number of changes in each, any count of digits, any length of a rendered element and any
number of rounds of relocation, from `UpdateAssumption` (the shapes of the constants) and
the hypothesis `Printed` (digit counts and rendered lengths are natural numbers, and what a
value is read back as is a string; it ranges over all numbers and texts, so TLC cannot
evaluate it):

- `UpdateFileTypes`: `Spec => []TypeInvariant`; no offset gets below zero.
- `NoOpTheorem`: `NoOpIsIdentity`, for every document that is updated at all.

and, if the documents are `DocumentsInPlace` (those of `InPlace` above),

- `StaysUpdatableTheorem`: `StaysUpdatable`; `BlocksKeptTheorem`: `BlocksKept`;
- `RoundTripTheorem`: `RoundTrip`, keywords in order and with repetitions;
  `StorableRoundTripTheorem`: `StorableRoundTrip`, the exact round trip of storable values;
- `UneditedVerbatimTheorem`: `UneditedVerbatim`.

`DocumentsInPlace` restricts the first document only. That each update leaves such a document
(`StaysInPlace`, `KeywordsStay`) is proved, and it is why the second update is as safe
as the first. The hypothesis on keywords is needed: `MCUpdateBehindImage` and `MCUpdateLongForm`
are the two ways to break it, and updates do go wrong there. That on properties is
needed for what may be inside of one: a property that encloses a thumbnail takes its
location along when it is removed.

The inductive invariant is `UpdateInvariant == TypeInvariant /\ ItemsInPlace /\ StaysUpdatable`;
the round trip adds `RoundTrip` itself, and the exact one that the goal is a header
(`GoalInvariant`), for which `StorableIsSame` shows that nothing has two readings. The argument, in the order of the modules:

- `SpliceProofs` says what the operators return. `Splice` flattens a row of texts, one for each
  position; `Placed` names where each text ends (`B`), and `SplicePlaced` says that a position
  that is not `Gone` reappears there as it was. `SpliceLength`: the header grows by
  `DeltaOf`. `KeywordRegionsFacts`, `PropertyRegionsFacts`, `LocationRegionsFacts` and
  `AdditionsFacts` say what each kind of region replaces by what, and `Cuts` that an update has
  no others.
- The recursive functions (`TotalLen`, `DeltaOf`, `Matched`, `Guess`, the stack of open elements,
  `EditsOf`) are each reduced to one step at a time: that such a function exists and is
  the only one (`StepsExist`, `StepsAgree`) is an induction, done once on the first place that fails.
- Layout and blocks: everything behind the header moves by the difference of the two lengths
  (`MovesBy`, `EndMoves`), the sum of the edits' deltas and of those of the rewritten
  locations; that this is the guess the rounds ended with is what `Relocates` checks.
- Keywords: a match keeps the name (`Matching`), so the elements that stay or are rendered
  again are the first keywords of `after`, in order (`MatchedRises`), the inserted ones are
  the rest and stand behind all of them (`AddedRises`), and there are no others
  (`KeywordOrigin`). Two rising rows, one behind the other, are the list (`TwoRuns`).
- Properties: an element is taken, rewritten or left as its id was asked to be
  (`PropertyStands`), so that the last of several with one id says what `after` says, whichever
  it is.
- Verbatim: what is `Unmodeled` is never cut, and the splice keeps its order (`KeptRise`). A keyword
  of a unique name that was not removed and appended again (`Stayed`) is matched with itself:
  `match_keywords` is greedy, so at keyword i it has come at least as far as any choice of the
  names before (`MatchesAsFar`).

**Model-checked only.** `UpdateSeesThis` compares `UpdateFile`'s account of a document with the
event loop's; it maps events to items in `MCHeaderRoundTrip`, a module of the runs only.
Liveness (`EveryCallEnds`, `Settles`) stays with TLC: the prover does not reason about fairness
and ENABLED. That the documents of `MCUpdateFile` are in place is evaluated by TLC.

## 5. Not modelled

- `Fixed` and `Sci` (formatting a float with given digits) and date-times (parsed by the
  skymath crate): the outcome is all digits and wording. `serde` and re-exports: derived.
- quick_xml itself: events, end-tag check, duplicate attributes and normalization are
  modelled as the crate meets them; malformed syntax and encodings are not.
- White space around the items of a geometry, `str::trim` of the writer's against the
  reader's wider class.
- Loss of buffered writes at a power failure (nothing is fsynced), and a link that is
  pointed elsewhere during a call.
- In `UpdateFile`: names and ids that the API would refuse but a foreign file may hold, with a
  line break written as a character reference, which rendering would change as it does
  values; comments inside elements and attributes the crate does not know, which
  are bytes of their items.

## 6. Plan

Written: `HeaderApi` with its contract and proofs, `ContainerFile` with `AtomicFile`,
`LocationText` and `Relocation`, `UpdateFile`, then `ElementText`, `ImageGeometry`,
`TypedValue`, `HeaderReader` and `HeaderRoundTrip` with their proofs; in that order of
importance, the editing API first because every update goes through it.

What is left: `UpdateSeesThis` for any document, by an induction over its events, once the map
from events to items is a module of its own; and, in `ContainerFile`, a link that is pointed
elsewhere during a call, and more than one file.
