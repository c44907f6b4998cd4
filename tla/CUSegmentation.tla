--------------------------- MODULE CUSegmentation ---------------------------
(***************************************************************************)
(* What the CU parser promises about .debug_info (spec 3, 4.2, 8 "CU       *)
(* segmentation"): starting at offset 0 it lists units, each starting     *)
(* where the previous one ended, taking at least its 4-byte length field   *)
(* and ending inside the section; it stops either with an error (the unit *)
(* being parsed may already be listed) or with success, and succeeds only *)
(* when the units cover the section exactly.                               *)
(*                                                                         *)
(* A read of memory outside the section (status "outside") is the one     *)
(* thing spec 7 forbids outright; the promise is about the behaviour up to *)
(* that read, and nothing is said of what follows it.                      *)
(***************************************************************************)
EXTENDS Naturals

VARIABLES
  size,      \* the section size
  segStart,  \* start of the last unit listed (0 while none is)
  segEnd,    \* end of the last unit listed: where the next one starts
  count,     \* number of units listed
  status     \* "scanning", "ok", "failed" or "outside"

vars == <<size, segStart, segEnd, count, status>>

Init ==
  /\ size \in Nat
  /\ segStart = 0 /\ segEnd = 0 /\ count = 0 /\ status = "scanning"

(* The next unit [segEnd, e), at least a length field long, in the section. *)
ListUnit ==
  /\ segStart' = segEnd
  /\ segEnd' \in (segEnd + 4)..size
  /\ count' = count + 1

Unit ==
  /\ status = "scanning" /\ ListUnit
  /\ UNCHANGED <<size, status>>

UnitThenFail ==
  /\ status = "scanning" /\ ListUnit
  /\ status' = "failed"
  /\ UNCHANGED size

Fail ==
  /\ status = "scanning" /\ status' = "failed"
  /\ UNCHANGED <<size, segStart, segEnd, count>>

Finish ==
  /\ status = "scanning" /\ segEnd = size /\ status' = "ok"
  /\ UNCHANGED <<size, segStart, segEnd, count>>

Outside ==
  /\ status \in {"scanning", "outside"} /\ status' = "outside"
  /\ UNCHANGED size

Next == Unit \/ UnitThenFail \/ Fail \/ Finish \/ Outside

Spec == Init /\ [][Next]_vars

====
