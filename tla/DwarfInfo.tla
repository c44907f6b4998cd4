----------------------------- MODULE DwarfInfo -----------------------------
(***************************************************************************)
(* The compilation-unit iterator of libdwarf, _dwarf_info_init             *)
(* (src/branches/27-manualpages/libdwarf/libdwarf_info.c): the loop that   *)
(* walks .debug_info, reads each unit's initial length (4 bytes, or the    *)
(* escape 0xffffffff and 8 bytes), checks it against the bytes left,       *)
(* reads version, abbreviation offset and address size, appends the unit   *)
(* to dbg->dbg_cu, rejects versions other than 2 and 3, and hands the unit *)
(* to the abbreviation and DIE parsers before moving to next_offset.       *)
(*                                                                         *)
(* The section is the byte map sec: a position is NoByte until the parser  *)
(* reads it, and gets its value at the first read, chosen from encodings   *)
(* of the values that matter for that field (merged with the bytes        *)
(* already fixed).  Every behaviour is therefore the parse of one real     *)
(* byte string.  Positions at or past ds_size are the memory after the     *)
(* buffer: the code reads them when a header is truncated, and overread    *)
(* records that it did.                                                    *)
(*                                                                         *)
(* _dwarf_abbrev_init and _dwarf_die_parse are not in this source tree;    *)
(* their contents are unconstrained input here, so each of them may        *)
(* succeed or fail on any unit.                                            *)
(***************************************************************************)
EXTENDS DwarfRW, FiniteSets

CONSTANTS
  Sizes,    \* the values of ds->ds_size to try
  Orders,   \* byte orders of the object file: dbg->read is read_lsb or read_msb
  NoByte,   \* a byte of the section that has not been read
  NoCU,     \* dbg->dbg_cu is empty
  MaxUnits  \* bound on the length of dbg->dbg_cu (stands for memory running out)

ASSUME /\ Sizes \subseteq 0..64 /\ Orders \subseteq {"lsb", "msb"}
       /\ MaxUnits \in Nat /\ \A s \in Sizes : s \div 4 < MaxUnits

(* Positions the parse can reach: a unit starts below ds_size and reads at *)
(* most 4 + 8 + 2 + 8 + 1 bytes of header.                                 *)
Cap == 23 + CHOOSE m \in Sizes : \A s \in Sizes : s <= m

(* Return codes of _dwarf_info_init (the last two come from the callees). *)
Codes == {"DWARF_E_NONE", "DWARF_E_MEMORY", "DWARF_E_INVALID_CU",
          "DWARF_E_CU_VERSION", "ABBREV_ERROR", "DIE_ERROR"}

VARIABLES
  size,      \* ds->ds_size
  order,     \* the byte order dbg->read decodes
  sec,       \* position -> byte read there, or NoByte
  offset,    \* the loop cursor (uint64_t)
  last,      \* the unit most recently appended to dbg->dbg_cu, or NoCU
  units,     \* the number of units in dbg->dbg_cu
  ret,       \* the return code
  pc,        \* "loop" while in the while loop, "done" once returned
  overread   \* some read touched a position at or past ds_size

vars == <<size, order, sec, offset, last, units, ret, pc, overread>>

CU == [off : U64Bytes, next : U64Bytes, dsize : {4, 8}, version : 0..65535,
       hdrEnd : Nat]

(* --- reading the section ---------------------------------------------- *)

(* dbg->read *)
Read(s, p, w) == IF order = "lsb" THEN read_lsb(s, p, w) ELSE read_msb(s, p, w)

(* The w bytes that hold v in the file's byte order. *)
Encode(v, w) == [i \in 0..(w - 1) |-> IF order = "lsb" THEN v[i + 1] ELSE v[w - i]]

(* The sections that agree with s and hold one of the values vs in the w  *)
(* bytes at p, where those bytes have not been read yet.                  *)
Choose(s, p, w, vs) ==
  { [q \in DOMAIN s |-> IF q \in p..(p + w - 1) /\ s[q] = NoByte
                        THEN Encode(v, w)[q - p] ELSE s[q]] : v \in vs }

Esc32 == [i \in 1..8 |-> IF i <= 4 THEN 255 ELSE 0]   \* 0xffffffff

(* Initial lengths worth trying for a unit at p whose length field ends  *)
(* at e: empty, shorter than the header, exactly the header, exactly the *)
(* rest of the section, one byte more, 2^24; the 4-byte escape; and, for *)
(* an 8-byte length, 2^64 - 12, which takes next_offset back to p.       *)
SmallLengths(e, hdr) ==
  {U64(n) : n \in {0, 2, hdr} \cup (IF e <= size THEN {size - e, size - e + 1} ELSE {})}
  \cup {U64(2^24)}

Lengths32(p) == SmallLengths(p + 4, 7) \cup {Esc32}
Lengths64(p) == SmallLengths(p + 12, 11) \cup {Sub64(U64(p), U64(p + 12))}

(* Lines 50-55: the initial length and the DWARF format it selects. *)
LengthReads ==
  LET p == ToNat(offset)
  IN  UNION { LET l4 == Read(s1, p, 4)
              IN  IF l4.val = Esc32
                  THEN { [sec |-> s2, len |-> Read(s2, l4.off, 8).val,
                          dsize |-> 8, end |-> l4.off + 8] :
                         s2 \in Choose(s1, l4.off, 8, Lengths64(p)) }
                  ELSE { [sec |-> s1, len |-> l4.val, dsize |-> 4, end |-> l4.off] } :
              s1 \in Choose(sec, p, 4, Lengths32(p)) }

(* Variant without the length check of line 62. *)
FitsUnchecked(h) == TRUE

(* Variant that measures the bytes left from the start of the unit,     *)
(* length field included.                                                *)
FitsFromUnitStart(h) == ~ULT(Sub64(U64(size), offset), h.len)

(* Line 62: the length fits in what is left after the length field. *)
Fits(h) == ~ULT(Sub64(U64(size), U64(h.end)), h.len)

(* Lines 69-78: version, abbreviation offset and address size, read from *)
(* s4 once the first two are fixed.  The abbreviation offset and address  *)
(* size are data this model does not use.                                 *)
UnitOf(h, s4) ==
  LET e  == h.end
      s5 == CHOOSE x \in Choose(s4, e + 2 + h.dsize, 1, {U64(8)}) : TRUE
  IN  [sec |-> s5,
       cu  |-> [off |-> offset, next |-> Add64(U64(e), h.len), dsize |-> h.dsize,
                version |-> ToNat(Read(s4, e, 2).val), hdrEnd |-> e + 3 + h.dsize]]

UnitReads ==
  UNION { UNION { { UnitOf(h, s4) : s4 \in Choose(s3, h.end + 2, h.dsize, {U64(0)}) } :
                  s3 \in Choose(h.sec, h.end, 2, {U64(2), U64(3), U64(4)}) } :
          h \in {h \in LengthReads : Fits(h)} }

(* --- the loop ---------------------------------------------------------- *)

Init ==
  /\ size \in Sizes /\ order \in Orders
  /\ sec = [q \in 0..(Cap - 1) |-> NoByte]
  /\ offset = U64(0)
  /\ last = NoCU /\ units = 0
  /\ ret = "DWARF_E_NONE" /\ pc = "loop" /\ overread = FALSE

InLoop == pc = "loop" /\ ULT(offset, U64(size))

(* Line 42: calloc of the unit fails. *)
AllocFail ==
  /\ InLoop
  /\ ret' = "DWARF_E_MEMORY" /\ pc' = "done"
  /\ UNCHANGED <<size, order, sec, offset, last, units, overread>>

(* Lines 62-65: the length is larger than the bytes left. *)
InvalidLength ==
  /\ InLoop
  /\ \E h \in LengthReads :
       /\ ~Fits(h)
       /\ sec' = h.sec /\ overread' = (overread \/ h.end > size)
  /\ ret' = "DWARF_E_INVALID_CU" /\ pc' = "done"
  /\ UNCHANGED <<size, order, offset, last, units>>

(* Lines 72-88: the unit is read and appended to dbg->dbg_cu (the bound  *)
(* MaxUnits leaves only the calloc failure once the list is that long).  *)
Append(u) ==
  /\ units < MaxUnits /\ units' = units + 1
  /\ sec' = u.sec /\ last' = u.cu
  /\ overread' = (overread \/ u.cu.hdrEnd > size)

(* Lines 90-94: unsupported version; the unit stays in the list. *)
VersionReject ==
  /\ InLoop
  /\ \E u \in UnitReads :
       /\ u.cu.version \notin {2, 3}
       /\ Append(u)
  /\ ret' = "DWARF_E_CU_VERSION" /\ pc' = "done"
  /\ UNCHANGED <<size, order, offset>>

(* Lines 99-100: _dwarf_abbrev_init fails. *)
AbbrevFail ==
  /\ InLoop
  /\ \E u \in UnitReads : u.cu.version \in {2, 3} /\ Append(u)
  /\ ret' = "ABBREV_ERROR" /\ pc' = "done"
  /\ UNCHANGED <<size, order, offset>>

(* Lines 105-107: _dwarf_die_parse fails. *)
DieFail ==
  /\ InLoop
  /\ \E u \in UnitReads : u.cu.version \in {2, 3} /\ Append(u)
  /\ ret' = "DIE_ERROR" /\ pc' = "done"
  /\ UNCHANGED <<size, order, offset>>

(* Line 109: the unit is parsed; the loop moves to next_offset. *)
UnitParsed ==
  /\ InLoop
  /\ \E u \in UnitReads :
       /\ u.cu.version \in {2, 3}
       /\ Append(u)
       /\ offset' = u.cu.next
  /\ UNCHANGED <<size, order, ret, pc>>

(* Lines 41 and 112: offset >= ds_size ends the loop. *)
LoopExit ==
  /\ pc = "loop" /\ ~ULT(offset, U64(size))
  /\ pc' = "done"
  /\ UNCHANGED <<size, order, sec, offset, last, units, ret, overread>>

Next ==
  \/ AllocFail \/ InvalidLength \/ VersionReject \/ AbbrevFail \/ DieFail
  \/ UnitParsed \/ LoopExit

Spec == Init /\ [][Next]_vars

(* _dwarf_info_init runs on one thread, synchronously, with no blocking   *)
(* call (spec 5): once called it keeps taking steps until it returns.     *)
FairSpec == Spec /\ WF_vars(Next)

(* --- properties -------------------------------------------------------- *)

(***************************************************************************)
(* The promise of the CU parser (CUSegmentation): the units appended to   *)
(* dbg->dbg_cu tile the section from offset 0, each at least a length      *)
(* field long and ending inside the section, and a DWARF_E_NONE return     *)
(* means they cover it exactly.  It rests on the length check of line 62   *)
(* being made against the bytes left after the length field, on           *)
(* next_offset being computed from the same point, and on the loop test    *)
(* of line 41.  The mapping reads uint64_t offsets as numbers; they are    *)
(* small in every state before a read outside the section, after which    *)
(* CUSegmentation says nothing.                                            *)
(***************************************************************************)
Segmentation == INSTANCE CUSegmentation WITH
  segStart <- IF last = NoCU THEN 0 ELSE ToNat(last.off),
  segEnd   <- IF last = NoCU THEN 0 ELSE ToNat(last.next),
  count    <- units,
  status   <- IF overread THEN "outside"
              ELSE IF pc = "loop" THEN "scanning"
              ELSE IF ret = "DWARF_E_NONE" THEN "ok" ELSE "failed"

CUSegmentationRefined == Segmentation!Spec

(***************************************************************************)
(* The unit loop of lines 41-112 ends by its own tests: _dwarf_info_init   *)
(* returns before dbg->dbg_cu reaches MaxUnits units, that is, without     *)
(* relying on calloc failing.  A unit whose next_offset (line 69, a        *)
(* uint64_t sum) comes back to its own offset is parsed again and again;   *)
(* the length check of line 62 is what must reject it.                     *)
(***************************************************************************)
Termination == <>(pc = "done" /\ units < MaxUnits)

(***************************************************************************)
(* Termination for every section whose reads stay inside it: unless some  *)
(* read touches a byte at or past ds_size, the loop returns by its own    *)
(* tests.  An 8-byte length of 2^64 - 12 takes next_offset back to the    *)
(* unit's start; line 62 rejects it as long as ds_size - offset does not  *)
(* wrap, i.e. as long as the length field lies inside the section.        *)
(***************************************************************************)
TerminationInSection == <>overread \/ Termination

(***************************************************************************)
(* Spec 7: no read is satisfied by memory outside the section buffer,      *)
(* whatever the length fields say.                                         *)
(***************************************************************************)
NoReadPastSection == ~overread

(***************************************************************************)
(* Spec 4.2: a unit's header (version, abbreviation offset, address size)  *)
(* lies inside the unit, so that the DIE range [header end, next_offset)   *)
(* is well formed.                                                         *)
(***************************************************************************)
HeaderWithinUnit == (last # NoCU /\ ~overread) => ~ULT(last.next, U64(last.hdrEnd))

(***************************************************************************)
(* Spec 7: a unit rejected for its version is released, so dbg->dbg_cu     *)
(* only holds units of version 2 or 3.                                     *)
(***************************************************************************)
ListedUnitsSupported == last # NoCU => last.version \in {2, 3}

=============================================================================
