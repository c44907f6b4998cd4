------------------------------- MODULE DwarfCU -------------------------------
(***************************************************************************)
(* One unit of _dwarf_info_init past its version check (libdwarf_info.c,  *)
(* lines 96-107): the abbreviation table is parsed first (DwarfAbbrev) and *)
(* a failure ends the unit; the DIE builder (DwarfDie) then scans the      *)
(* unit's entries [offset, next_offset) with the table that was built,     *)
(* looking codes up in it.  DwarfInfo abstracts the two calls to their    *)
(* outcomes; here they are composed.                                      *)
(***************************************************************************)
EXTENDS DwarfAbbrev

CONSTANTS
  Streams,   \* the entry streams a unit may hold
  MaxDies    \* bound on the entries of a stream

VARIABLES
  phase,     \* "abbrev" (line 99) or "die" (line 105)
  abbrevs,   \* the parsed table keyed by code, as the DIE builder looks it up
  stream, pos, cursor, die, child, last, sibling, stack, index, status

dieVars == <<stream, pos, cursor, die, child, last, sibling, stack, index, status>>

Die == INSTANCE DwarfDie

Init ==
  /\ AbbrevInit /\ phase = "abbrev"
  /\ abbrevs = Declarations(<<>>) /\ stream = <<>> /\ Die!ScanStart

(* Line 99: _dwarf_abbrev_init, one step of the table parse. *)
AbbrevStep == phase = "abbrev" /\ AbbrevNext /\ UNCHANGED <<phase, abbrevs, dieVars>>

(* Lines 99-105: the table parsed, _dwarf_die_parse is called on the     *)
(* unit's entries, looking codes up in the table; a truncated table       *)
(* instead ends the unit at line 100.                                     *)
StartScan ==
  /\ phase = "abbrev" /\ astate = "done"
  /\ phase' = "die" /\ abbrevs' = Declarations(table) /\ stream' \in Streams
  /\ UNCHANGED <<abbrevVars, pos, cursor, die, child, last, sibling, stack, index, status>>

(* Line 105: one step of the DIE scan. *)
DieStep == phase = "die" /\ Die!Next /\ UNCHANGED <<phase, abbrevVars>>

Next == AbbrevStep \/ StartScan \/ DieStep

Spec == Init /\ [][Next]_<<phase, abbrevs, abbrevVars, dieVars>>

(* Every variable of the two parsers stays in its type; the parent stack *)
(* never loses the CU root.                                               *)
TypeOK == AbbrevTypeOK /\ Die!TypeOK /\ phase \in {"abbrev", "die"}

(* The DIE tree built with the table looked up by code hangs every DIE   *)
(* under the one that opened its level, children in stream order.        *)
TreeMatchesReference == Die!TreeMatchesReference

(* Every DIE is found in the offset index under its own offset. *)
IndexIntegrity == Die!IndexIntegrity

(* A unit whose entries leave a parent open is malformed-die. *)
OkOnlyIfClosed == Die!OkOnlyIfClosed

====
