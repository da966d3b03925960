------------------------------ MODULE AtomicFile ------------------------------
(***************************************************************************)
(* What xisf-header promises of one container file shared by concurrent    *)
(* calls: no files, names or writes, only a value that calls create, read  *)
(* and replace whole.  A value is the set of calls whose effect it holds.  *)
(*                                                                         *)
(* An update computes its result from a value the file held since the call *)
(* began, so two overlapping updates may lose one: nothing here locks.     *)
(***************************************************************************)
EXTENDS FiniteSets

CONSTANTS
  Updaters, Readers, Creators,  \* calls of each kind
  NoValue                       \* the file is absent, or not yet whole

VARIABLES
  value,    \* the file
  status,   \* of each call
  seen,     \* for each call, what the file has held since it began
  got       \* what each finished read returned

vars == <<value, status, seen, got>>

Calls == Updaters \cup Readers \cup Creators
Busy(c) == status[c] = "busy"

Init == /\ value \in {NoValue, {}}
        /\ status = [c \in Calls |-> "idle"]
        /\ seen = [c \in Calls |-> {}]
        /\ got = [c \in Calls |-> NoValue]

Begin(c) ==
  /\ status[c] = "idle"
  /\ status' = [status EXCEPT ![c] = "busy"]
  /\ seen' = [seen EXCEPT ![c] = {value}]
  /\ UNCHANGED <<value, got>>

(* The one step in which a call takes effect. *)
Become(c, v) ==
  /\ Busy(c)
  /\ value' = v
  /\ status' = [status EXCEPT ![c] = "ok"]
  /\ seen' = [d \in Calls |-> IF Busy(d) THEN seen[d] \cup {v} ELSE seen[d]]
  /\ UNCHANGED got

Update(c) == \E v \in seen[c] \ {NoValue}: Become(c, v \cup {c})

Create(c) == value = NoValue /\ Become(c, {c})

(* A header is readable once it is whole, which may be before its data is: *)
(* the reader then sees what the creator was about to leave.               *)
Read(c) ==
  /\ Busy(c)
  /\ \E v \in (seen[c] \ {NoValue}) \cup {{d}: d \in {e \in Creators: status[e] # "idle"}}:
        got' = [got EXCEPT ![c] = v]
  /\ status' = [status EXCEPT ![c] = "ok"]
  /\ UNCHANGED <<value, seen>>

(* A call that fails has no effect: the file is left untouched. *)
Fail(c) ==
  /\ status[c] \in {"idle", "busy"}
  /\ status' = [status EXCEPT ![c] = "err"]
  /\ UNCHANGED <<value, seen, got>>

(* A process dies with its calls, none of which takes effect later. *)
Crash(C) ==
  /\ \A c \in C: Busy(c)
  /\ status' = [c \in Calls |-> IF c \in C THEN "crashed" ELSE status[c]]
  /\ UNCHANGED <<value, seen, got>>

Next == \/ \E c \in Calls: Begin(c) \/ Fail(c)
        \/ \E c \in Updaters: Update(c)
        \/ \E c \in Readers: Read(c)
        \/ \E c \in Creators: Create(c)
        \/ \E C \in SUBSET Calls: Crash(C)

Spec == Init /\ [][Next]_vars
===============================================================================
