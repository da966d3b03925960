----------------------------- MODULE LocationText -----------------------------
(***************************************************************************)
(* The text `attachment:OFFSET:SIZE` by which a header locates a data      *)
(* block, and what moving the block does to the header's length.           *)
(***************************************************************************)
EXTENDS Integers, Sequences

CONSTANT Digits(_)   \* how many digits a number is printed with

(* format!("attachment:{offset}:{size}") *)
LocationLength(offset, size) == 12 + Digits(offset) + Digits(size)

(* Slip: the data is taken to move the other way. *)
SlipGrowth(a, delta) == LocationLength(a.offset - delta, a.size) - a.span

Growth(a, delta) == LocationLength(a.offset + delta, a.size) - a.span

(* The sum of the growths of all locations when the data moves by delta. *)
LocationsDelta(atts, delta) ==
  LET sum[i \in 0 .. Len(atts)] ==
        IF i = 0 THEN 0 ELSE sum[i - 1] + Growth(atts[i], delta)
  IN  sum[Len(atts)]

(* Slip: the growth is added to the last guess, not to the edit. *)
SlipNeeded(atts, edit, delta) == delta + LocationsDelta(atts, delta)

Needed(atts, edit, delta) == edit + LocationsDelta(atts, delta)

(* checked_add_signed *)
BelowZero(atts, delta) == \E i \in DOMAIN atts: atts[i].offset + delta < 0
===============================================================================
