---------------------------- MODULE HeaderContract ----------------------------
(***************************************************************************)
(* What the in-memory editing API of xisf-header promises its caller, with *)
(* no vectors, indices or loops: a header maps every keyword name, up to   *)
(* letter case, to the list of its occurrences, and a call changes the     *)
(* occurrences it names and no others, in one indivisible step.  HeaderApi *)
(* implements it.                                                          *)
(***************************************************************************)
EXTENDS Naturals, Sequences, FiniteSets, SequencesExt

CONSTANTS
  Classes,    \* keyword names that differ in more than letter case
  Values,     \* keyword values
  Comments,   \* keyword comments
  NoComment,  \* the empty comment of a keyword created by a write
  Refusals    \* the errors a call may return

VARIABLES
  occ,        \* for each class, its occurrences in document order
  outcome     \* what the last call returned: "ok", "none" or a refusal

vars == <<occ, outcome>>

Occurrence == [value: Values, comment: Comments]

Init == occ \in [Classes -> Seq(Occurrence)] /\ outcome = "ok"

(* One existing occurrence gets a value, a comment, or both. *)
Rewrite(c, i, v, k) ==
  /\ i \in DOMAIN occ[c]
  /\ occ' = [occ EXCEPT ![c][i] = [value |-> v, comment |-> k]]
  /\ outcome' = "ok"

(* A write to an absent name creates its only occurrence; an append adds a *)
(* last one.                                                               *)
AddLast(c, v, k) ==
  /\ occ' = [occ EXCEPT ![c] = Append(@, [value |-> v, comment |-> k])]
  /\ outcome' = "ok"

Drop(c, i) ==
  /\ i \in DOMAIN occ[c]
  /\ occ' = [occ EXCEPT ![c] = RemoveAt(@, i)]
  /\ outcome' = "ok"

DropAll(c) ==
  /\ occ' = [occ EXCEPT ![c] = << >>]
  /\ outcome' = "ok"

(* set_many: every class of the batch ends with exactly one occurrence and *)
(* keeps its comment; allowed only when none of them is repeated.           *)
Assign(C) ==
  /\ \A c \in C: \E v \in Values:
       \/ occ[c] = << >> /\ occ'[c] = <<[value |-> v, comment |-> NoComment]>>
       \/ Len(occ[c]) = 1 /\ occ'[c] = <<[occ[c][1] EXCEPT !.value = v]>>
  /\ \A c \in Classes \ C: occ'[c] = occ[c]
  /\ outcome' = "ok"

(* remove_many: every class of the batch ends absent. *)
DropBatch(C) ==
  /\ \A c \in C: Len(occ[c]) <= 1
  /\ occ' = [c \in Classes |-> IF c \in C THEN << >> ELSE occ[c]]
  /\ outcome' = "ok"

(* A read, a call on an absent name, or a call that is refused. *)
NoEffect == /\ UNCHANGED occ
            /\ outcome' \in {"ok", "none"} \cup Refusals

Next == \/ NoEffect
        \/ \E c \in Classes, v \in Values, k \in Comments:
              \/ AddLast(c, v, k)
              \/ \E i \in DOMAIN occ[c]: Rewrite(c, i, v, k)
        \/ \E c \in Classes: DropAll(c) \/ \E i \in DOMAIN occ[c]: Drop(c, i)
        \/ \E C \in SUBSET Classes: DropBatch(C) \/ Assign(C)

Spec == Init /\ [][Next]_vars
===============================================================================
