------------------------------ MODULE Relocation ------------------------------
(***************************************************************************)
(* relocate_attachments (src/src/splice.rs).  The header holds the decimal *)
(* offset of every attachment; the attachments move by the change of the   *)
(* header's length; that change depends on the digits of the new offsets.  *)
(* The code iterates at most MaxRounds times towards offsets that agree    *)
(* with the length they produce.                                           *)
(***************************************************************************)
EXTENDS LocationText

CONSTANTS
  Layouts,     \* the attachment lists to relocate
  Edits,       \* the length changes an edit causes, offsets aside
  MaxRounds

ASSUME RelocationAssumption == MaxRounds \in Nat \ {0} /\ Edits \subseteq Int

VARIABLES
  attachments,  \* [offset, size, span]: span bytes hold "attachment:OFFSET:SIZE"
  content,      \* content_delta
  total,        \* total_delta, this round's guess
  round,
  outcome       \* "iterating", "relocated", "negative" or "divergent"

vars == <<attachments, content, total, round, outcome>>

(* Slip: the first guess leaves room for another digit in every location.  *)
SlipInit ==
  /\ attachments \in Layouts
  /\ content \in Edits
  /\ total = content + Len(attachments)
  /\ round = 1
  /\ outcome = "iterating"

Init ==
  /\ attachments \in Layouts
  /\ content \in Edits
  /\ total = content
  /\ round = 1
  /\ outcome = "iterating"

Give(result) ==
  /\ outcome' = result
  /\ UNCHANGED <<attachments, content, total, round>>

(* Slip: the rounds start over. *)
SlipStartOver ==
  LET needed == Needed(attachments, content, total) IN
  /\ outcome = "iterating"
  /\ \/ BelowZero(attachments, total) /\ Give("negative")
     \/ ~BelowZero(attachments, total) /\ needed = total /\ Give("relocated")
     \/ /\ ~BelowZero(attachments, total) /\ needed # total
        /\ total' = (IF round < MaxRounds THEN needed ELSE content)
        /\ round' = (IF round < MaxRounds THEN round + 1 ELSE 1)
        /\ UNCHANGED <<attachments, content, outcome>>

Round ==
  LET needed == Needed(attachments, content, total) IN
  /\ outcome = "iterating"
  /\ \/ BelowZero(attachments, total) /\ Give("negative")
     \/ /\ ~BelowZero(attachments, total)
        /\ \/ needed = total /\ Give("relocated")
           \/ /\ needed # total /\ round < MaxRounds
              /\ total' = needed
              /\ round' = round + 1
              /\ UNCHANGED <<attachments, content, outcome>>
           \/ needed # total /\ round = MaxRounds /\ Give("divergent")

Next == Round

Spec == Init /\ [][Next]_vars /\ WF_vars(Next)

-------------------------------------------------------------------------------
(* A shift with which the offsets agree with the header's length: it grows *)
(* by exactly what they were shifted by, and none is negative.  There may  *)
(* be several, as more digits make room for themselves.                    *)
Consistent(delta) ==
  /\ Needed(attachments, content, delta) = delta
  /\ ~BelowZero(attachments, delta)

(* The shift the loop returns is a consistent one, and no round steps over *)
(* another: the data moves no further than the new texts make it, and an   *)
(* update is not refused, for an offset below zero or for too many rounds, *)
(* where a consistent shift lay on the way.                                *)
NearestShift ==
  /\ outcome = "relocated" => Consistent(total)
  /\ \A t \in (content .. total) \cup (total .. content): Consistent(t) => t = total

(* Successive guesses never turn back, so the rounds cannot oscillate      *)
(* between two lengths.                                                    *)
OneDirection ==
  [][LET next == Needed(attachments, content, total')
     IN  \/ total' >= total /\ (next >= total' \/ BelowZero(attachments, total'))
         \/ total' <= total /\ (next <= total' \/ BelowZero(attachments, total'))]_total

(* Every round but two is paid for by a location whose number of digits    *)
(* changed: few attachments always converge long before the cap.           *)
RoundsArePaidFor ==
  LET widths == LocationsDelta(attachments, total) - LocationsDelta(attachments, content)
  IN  ~BelowZero(attachments, total) /\ ~BelowZero(attachments, content) =>
        round <= 2 + IF widths < 0 THEN -widths ELSE widths

(* The loop ends. *)
Settles == <>(outcome # "iterating")
===============================================================================
