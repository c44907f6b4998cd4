------------------------------ MODULE MCDwarfCU ------------------------------
(***************************************************************************)
(* DwarfCU with three abbreviation tables, each given whole and cut short  *)
(* at every byte, and every entry stream of up to MaxDies codes from 0..4. *)
(* Table 1 declares code 1 (subprogram, children, two data1 values), code  *)
(* 2 (variable, no children, no values) and code 3 (lexical block,        *)
(* children, no values); table 2 is empty; table 3 declares code 2 twice, *)
(* so lookup must take the first.  Entries without values make an         *)
(* off-by-one in the cursor put two DIEs at one offset; codes missing     *)
(* from a table are malformed-die.                                         *)
(***************************************************************************)
EXTENDS DwarfCU

(* DW_FORM_data2 and DW_FORM_data1. *)
MCFormSize == [f \in {5, 11} |-> IF f = 5 THEN 2 ELSE 1]

(* Tags: DW_TAG_subprogram 46, DW_TAG_variable 52, DW_TAG_lexical_block 11; *)
(* attributes: DW_AT_name 3, DW_AT_decl_file 58.                            *)
Table1 ==
  << [code |-> 1, tag |-> 46, children |-> TRUE, attrs |-> << <<3, 11>>, <<58, 11>> >>],
     [code |-> 2, tag |-> 52, children |-> FALSE, attrs |-> <<>>],
     [code |-> 3, tag |-> 11, children |-> TRUE, attrs |-> <<>>] >>
Table2 == <<>>
Table3 ==
  << [code |-> 2, tag |-> 52, children |-> FALSE, attrs |-> <<>>],
     [code |-> 2, tag |-> 46, children |-> TRUE, attrs |-> << <<58, 5>> >>] >>

MCAbbrevInputs ==
  UNION { { [src |-> t, bytes |-> SubSeq(Encode(t), 1, n)] : n \in 0..Len(Encode(t)) } :
          t \in {Table1, Table2, Table3} }

MCStreams == UNION {[1..n -> 0..4] : n \in 0..MaxDies}
====
