----------------------------- MODULE ImageGeometry -----------------------------
(***************************************************************************)
(* The `geometry` of an image, `dim1:...:dimN:channels`: how the reader    *)
(* parses it (src/src/geometry.rs) and the size of the data that the       *)
(* writer derives from it (src/src/writer.rs).  A text is the sequence of  *)
(* its items, of which only the notation and the number matter.            *)
(***************************************************************************)
EXTENDS Integers, Sequences, SequencesExt

CONSTANTS
  MaxU32,           \* largest dimension
  Usize,            \* 2^w: sizes are computed modulo this
  SampleBytes       \* bytes per sample of each sample format

ASSUME GeometryAssumption ==
  /\ MaxU32 \in Nat /\ Usize \in Nat /\ MaxU32 < Usize
  /\ \A f \in DOMAIN SampleBytes: SampleBytes[f] \in Nat \ {0}

(* 16, +16, 016, -16, 0x10, and what is no number in any notation *)
Notations == {"decimal", "plus", "zeros", "minus", "radix", "junk"}
Item(notation, n) == [notation |-> notation, n |-> n]
Decimal(n) == Item("decimal", n)

(* parse_item: a positive number, decimal without leading zeros or in      *)
(* another radix, that fits 32 bits.                                       *)
IsDimension(item) ==
  item.notation \in {"decimal", "plus", "radix"} /\ item.n \in 1 .. MaxU32

(* ImageGeometry::parse *)
IsGeometry(items) == Len(items) >= 2 /\ \A i \in DOMAIN items: IsDimension(items[i])
Numbers(items) == [i \in DOMAIN items |-> items[i].n]

Product(numbers) ==
  LET upto[k \in 0 .. Len(numbers)] == IF k = 0 THEN 1 ELSE upto[k - 1] * numbers[k]
  IN  upto[Len(numbers)]

(* usize::from_str: leading zeros pass, other radices do not. *)
IsUsize(item) == item.notation \in {"decimal", "plus", "zeros"} /\ item.n \in 0 .. Usize - 1

AtLeastOne(n) == IF n < 1 THEN 1 ELSE n
Saturated(n) == IF n >= Usize THEN Usize - 1 ELSE n

(* The dimensions are multiplied without a check: a product that does not  *)
(* fit wraps in a release build and ends the program in a debug build.     *)
Overflows(items) ==
  /\ \A i \in DOMAIN items: IsUsize(items[i])
  /\ \E i \in DOMAIN items: Product(Numbers(SubSeq(items, 1, i))) >= Usize

Samples(items) ==
  LET upto[k \in 0 .. Len(items)] == IF k = 0 THEN 1 ELSE (upto[k - 1] * items[k].n) % Usize
  IN  IF \A i \in DOMAIN items: IsUsize(items[i]) THEN AtLeastOne(upto[Len(items)]) ELSE 1

(* Slip: every sample takes one byte. *)
SlipDataSize(items, format) == AtLeastOne(Samples(items))

DataSize(items, format) == AtLeastOne(Saturated(Samples(items) * SampleBytes[format]))
===============================================================================
