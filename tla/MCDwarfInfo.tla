---------------------------- MODULE MCDwarfInfo ----------------------------
(***************************************************************************)
(* Model-checking instance of DwarfInfo.  The section sizes are chosen so  *)
(* that the interesting layouts occur: an empty section; one trailing      *)
(* fragment shorter than a length field; one minimal 32-bit unit (11       *)
(* bytes); that unit followed by 2 stray bytes; two minimal 32-bit units   *)
(* (22 bytes) or units of other lengths; one minimal 64-bit unit (23       *)
(* bytes).  Both byte orders are tried.                                    *)
(***************************************************************************)
EXTENDS DwarfInfo

MCSizes == {0, 2, 11, 13, 22, 23}
MCOrders == {"lsb", "msb"}

=============================================================================
