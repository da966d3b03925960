----------------------------- MODULE MCRelocation -----------------------------
(* Relocation with one to three attachments around powers of ten, and with *)
(* a row of one-byte attachments that needs more rounds than the cap.      *)
EXTENDS Relocation

(* Decimal digits, up to 10^6. *)
MCDigits(n) == IF n < 0 THEN 1 ELSE CHOOSE d \in 1 .. 7: n < 10^d /\ (d = 1 \/ n >= 10^(d - 1))

At(offset, size, padding) ==
  [offset |-> offset, size |-> size,
   span |-> LocationLength(offset, size) + padding]

(* Offsets just below and above 100 and 1000; paddings as in the crate's   *)
(* own zero-padded locations.                                              *)
Near == {At(o, s, p): o \in {97, 99, 100, 998, 1000}, s \in {0, 10}, p \in {0, 9}}
Row(n) == [i \in 1 .. n |-> At(1000 - n + i - 1, 1, 0)]

(* Growing by one byte, these agree with shifts of 2, 3 and 4. *)
Several == <<At(996, 1, 0), At(997, 2, 0), At(999, 1, 0)>>

MCEdits == {-101, -98, -10, -1, 1, 2, 3, 9, 10, 900}

MCLayouts == {<< >>} \cup {<<a>>: a \in Near}
             \cup {<<a, b>>: a \in Near, b \in Near}
             \cup {<<At(97, 2, 0), At(99, 901, 0), At(1000, 1, 9)>>, Several}
             \cup {Row(n): n \in 14 .. 18}
===============================================================================
