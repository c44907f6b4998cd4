--------------------------- MODULE MCDwarfNameTbl ---------------------------
(***************************************************************************)
(* Instance of DwarfNameTbl for TLC.  Section sizes: 0 (empty, the         *)
(* malloc(0) case), 3 (length read past the end), 16 (header fits, the     *)
(* terminator straddles the end), 18 (one empty 32-bit table), 24 (a table *)
(* with one pair, or names running to the end), 30 and 38 (one 64-bit     *)
(* table, empty at 38) and 42 (two 32-bit tables, or one with two pairs).  *)
(* dbg_cu holds CUs at offsets 0 and 11.                                   *)
(***************************************************************************)
EXTENDS DwarfNameTbl

MCSizes == {0, 3, 16, 18, 24, 30, 38, 42}
MCCUOffsets == <<0, 11>>
=============================================================================
