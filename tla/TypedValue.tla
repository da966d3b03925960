------------------------------ MODULE TypedValue ------------------------------
(***************************************************************************)
(* Keyword values as Rust types (src/src/value.rs): IntoValue prints them, *)
(* FromField reads them, leniently.                                        *)
(*                                                                         *)
(* A word that denotes a number does so in quarters, with or without a     *)
(* decimal point or exponent.  The sizes of i64 and of the significand of  *)
(* f64 are constants here, that of u32 is ImageGeometry's.                 *)
(***************************************************************************)
EXTENDS ElementText, ImageGeometry

CONSTANTS
  Number,       \* of the words that are numbers: quarters, and whether pointed
  Significand,  \* 2^53: every integer up to it is a float
  Steps,        \* the powers of two up to that between the largest floats
  MaxI64,
  TrueWords, FalseWords   \* the spellings of bool

ASSUME ValueAssumption ==
  /\ DOMAIN Number \cup TrueWords \cup FalseWords \subseteq Tokens \ {Quote, Space, Break}
  /\ \A w \in DOMAIN Number: Number[w].quarters \in Int /\ Number[w].pointed \in BOOLEAN
  /\ MaxI64 \in Nat /\ MaxU32 <= MaxI64
  /\ "T" \in TrueWords /\ "F" \in FalseWords /\ TrueWords \cap FalseWords = {}

Abs(n) == IF n < 0 THEN -n ELSE n

(* No word denotes a number beyond the largest float. *)
ASSUME FloatAssumption ==
  /\ Significand \in Nat \ {0} /\ Significand % 2 = 0
  /\ Steps \subseteq Nat \ {0} /\ 1 \in Steps
  /\ \A u \in Steps \ {1}: u % 2 = 0 /\ u \div 2 \in Steps
  /\ \A w \in DOMAIN Number: \E u \in Steps: Abs(Number[w].quarters) < Significand * u

None == [some |-> FALSE, is |-> 0]
Some(n) == [some |-> TRUE, is |-> n]

(* str::trim *)
Trimmed(text) ==
  LET full == {i \in DOMAIN text: text[i] \notin {Space, Break}}
      first == CHOOSE i \in full: \A j \in full: i <= j
      last == CHOOSE i \in full: \A j \in full: j <= i
  IN  IF full = {} THEN << >> ELSE SubSeq(text, first, last)

IsNumber(text) == Len(text) = 1 /\ text[1] \in DOMAIN Number
NumberOf(text) == Number[text[1]]

(* The float nearest to n quarters, ties to even. *)
Nearest(n) ==
  LET m == Abs(n)
      ulp == CHOOSE u \in Steps: m < Significand * u /\ (u = 1 \/ m >= Significand * (u \div 2))
      below == m \div ulp
      rest == m % ulp
      up == 2 * rest > ulp \/ (2 * rest = ulp /\ below % 2 = 1)
      nearest == ulp * (IF up THEN below + 1 ELSE below)
  IN  IF n < 0 THEN -nearest ELSE nearest

FieldF64(text) ==
  IF IsNumber(Trimmed(text)) THEN Some(Nearest(NumberOf(Trimmed(text)).quarters)) ELSE None

(* i64::from_str *)
IsI64(text) ==
  /\ IsNumber(text) /\ ~NumberOf(text).pointed
  /\ NumberOf(text).quarters \in -4 * (MaxI64 + 1) .. 4 * MaxI64

(* Slip: the first float that two integers round to is let through. *)
SlipFieldI64(text) ==
  LET t == Trimmed(text)
      float == FieldF64(text)
  IN  IF IsI64(t) THEN Some(NumberOf(t).quarters \div 4)
      ELSE IF float.some /\ float.is % 4 = 0 /\ Abs(float.is) <= 4 * Significand
           THEN Some(float.is \div 4) ELSE None

(* Slip: every number is read as a float. *)
SlipFieldI64ByFloat(text) ==
  LET float == FieldF64(text)
  IN  IF float.some /\ float.is % 4 = 0 /\ Abs(float.is) < 4 * Significand
      THEN Some(float.is \div 4) ELSE None

(* lenient_int *)
FieldI64(text) ==
  LET t == Trimmed(text)
      float == FieldF64(text)
  IN  IF IsI64(t) THEN Some(NumberOf(t).quarters \div 4)
      ELSE IF float.some /\ float.is % 4 = 0 /\ Abs(float.is) < 4 * Significand
           THEN Some(float.is \div 4) ELSE None

FieldU32(text) ==
  LET i == FieldI64(text) IN IF i.some /\ i.is \in 0 .. MaxU32 THEN i ELSE None

FieldBool(text) ==
  LET t == Trimmed(text)
  IN  IF Len(t) # 1 THEN None
      ELSE IF t[1] \in TrueWords THEN Some(1) ELSE IF t[1] \in FalseWords THEN Some(0) ELSE None

Field(type, text) ==
  CASE type = "i64" -> FieldI64(text)
    [] type = "u32" -> FieldU32(text)
    [] type = "f64" -> FieldF64(text)
    [] type = "bool" -> FieldBool(text)

(* to_string of an integer; format_f64 gives a float a point; "T" or "F".  *)
(* Floats are in quarters.                                                 *)
Printed(quarters, pointed) ==
  CHOOSE w \in DOMAIN Number: Number[w] = [quarters |-> quarters, pointed |-> pointed]

IsPrinted(quarters, pointed) ==
  \E w \in DOMAIN Number: Number[w] = [quarters |-> quarters, pointed |-> pointed]

(* The values of each type, if there is a word for them. *)
IsTyped(v) ==
  CASE v.type = "i64" -> v.is \in -(MaxI64 + 1) .. MaxI64 /\ IsPrinted(4 * v.is, FALSE)
    [] v.type = "u32" -> v.is \in 0 .. MaxU32 /\ IsPrinted(4 * v.is, FALSE)
    [] v.type = "f64" -> v.is \in Int /\ Nearest(v.is) = v.is /\ IsPrinted(v.is, TRUE)
    [] v.type = "bool" -> v.is \in {0, 1}

IntoValue(type, n) ==
  CASE type \in {"i64", "u32"} -> Literal(<<Printed(4 * n, FALSE)>>)
    [] type = "f64" -> Literal(<<Printed(n, TRUE)>>)
    [] type = "bool" -> Literal(<<IF n = 1 THEN "T" ELSE "F">>)
===============================================================================
