----------------------------- MODULE DwarfAbbrev -----------------------------
(***************************************************************************)
(* The Abbreviation Table Parser of spec 4.3 (_dwarf_abbrev_init, which is *)
(* not in src): from the CU's offset in the abbreviation section, read a   *)
(* code; 0 ends the table; otherwise read the tag and the one-byte         *)
(* has-children flag, then (attribute, form) pairs up to (0, 0), and add   *)
(* the declaration.  A read that needs bytes past the end of the section   *)
(* is truncated-buffer (spec 7).                                           *)
(*                                                                         *)
(* Codes, tags, attributes and forms stay below 128, so each ULEB128 is    *)
(* one byte (the multi-byte decoding is DwarfRW's read_uleb128).  The      *)
(* section is the bytes from the CU's abbreviation offset on.              *)
(***************************************************************************)
EXTENDS Naturals, Sequences
LOCAL INSTANCE SequencesExt

CONSTANTS
  AbbrevInputs,  \* records [src, bytes]: the bytes of the section, and the
                 \* table they were encoded from (used by the properties)
  FormSize       \* bytes a value of each form takes

VARIABLES
  ainput,   \* the section being parsed (read only)
  apos,     \* index of the next byte to read
  table,    \* the declarations added so far, in section order
  cur,      \* the declaration being read
  astate    \* "code", "decl", "pairs", "done" or "truncated"

abbrevVars == <<ainput, apos, table, cur, astate>>

abuf == ainput.bytes

(* The next n bytes are in the section. *)
Avail(n) == apos + n - 1 <= Len(abuf)

AbbrevInit ==
  /\ ainput \in AbbrevInputs
  /\ apos = 1 /\ table = <<>> /\ astate = "code"
  /\ cur = [code |-> 0, tag |-> 0, children |-> FALSE, attrs |-> <<>>]

(* Bytes each state reads next: a code, a tag and flag, a pair. *)
Need(s) == IF s = "code" THEN 1 ELSE 2

(* Code 0 terminates the table. *)
TableEnd ==
  /\ astate = "code" /\ Avail(1) /\ abuf[apos] = 0
  /\ astate' = "done" /\ apos' = apos + 1
  /\ UNCHANGED <<ainput, table, cur>>

(* A nonzero code starts a declaration. *)
ReadCode ==
  /\ astate = "code" /\ Avail(1) /\ abuf[apos] # 0
  /\ cur' = [code |-> abuf[apos], tag |-> 0, children |-> FALSE, attrs |-> <<>>]
  /\ astate' = "decl" /\ apos' = apos + 1
  /\ UNCHANGED <<ainput, table>>

(* The tag and the has-children flag (DW_CHILDREN_yes is 1). *)
ReadDeclHeader ==
  /\ astate = "decl" /\ Avail(2)
  /\ cur' = [cur EXCEPT !.tag = abuf[apos], !.children = (abuf[apos + 1] = 1)]
  /\ astate' = "pairs" /\ apos' = apos + 2
  /\ UNCHANGED <<ainput, table>>

(* An (attribute, form) pair other than (0, 0) joins the declaration. *)
ReadPair ==
  /\ astate = "pairs" /\ Avail(2) /\ <<abuf[apos], abuf[apos + 1]>> # <<0, 0>>
  /\ cur' = [cur EXCEPT !.attrs = Append(@, <<abuf[apos], abuf[apos + 1]>>)]
  /\ apos' = apos + 2
  /\ UNCHANGED <<ainput, table, astate>>

(* (0, 0) ends the declaration, which is added to the table. *)
EndDecl ==
  /\ astate = "pairs" /\ Avail(2) /\ <<abuf[apos], abuf[apos + 1]>> = <<0, 0>>
  /\ table' = Append(table, cur)
  /\ astate' = "code" /\ apos' = apos + 2
  /\ UNCHANGED <<ainput, cur>>

(* Variant that takes a section ending where a code is due as the end   *)
(* of the table.                                                         *)
TruncatedAsEnd ==
  /\ astate \in {"code", "decl", "pairs"} /\ ~Avail(Need(astate))
  /\ astate' = IF astate = "code" THEN "done" ELSE "truncated"
  /\ UNCHANGED <<ainput, apos, table, cur>>

(* The next read would need bytes past the section: truncated-buffer. *)
Truncated ==
  /\ astate \in {"code", "decl", "pairs"} /\ ~Avail(Need(astate))
  /\ astate' = "truncated"
  /\ UNCHANGED <<ainput, apos, table, cur>>

AbbrevNext == TableEnd \/ ReadCode \/ ReadDeclHeader \/ ReadPair \/ EndDecl \/ Truncated

(* Bytes the values of a declaration's attributes take. *)
RECURSIVE ValueBytes(_)
ValueBytes(attrs) ==
  IF attrs = <<>> THEN 0 ELSE FormSize[Head(attrs)[2]] + ValueBytes(Tail(attrs))

(* Lookup by code: the first declaration with the code, as the DIE       *)
(* builder sees it (tag, has-children flag, bytes of its values).         *)
Declarations(t) ==
  [c \in {t[i].code : i \in DOMAIN t} |->
     LET d == t[Min({i \in DOMAIN t : t[i].code = c})]
     IN  [tag |-> d.tag, children |-> d.children,
          size |-> ValueBytes(d.attrs)]]

(* The bytes a table is written as (the inverse of the parse). *)
EncodeDecl(d) ==
  <<d.code, d.tag, IF d.children THEN 1 ELSE 0>> \o FlattenSeq(d.attrs) \o <<0, 0>>
Encode(t) == FlattenSeq([i \in DOMAIN t |-> EncodeDecl(t[i])]) \o <<0>>

AbbrevTypeOK ==
  /\ apos \in 1..(Len(abuf) + 1)
  /\ table \in Seq([code : Nat, tag : Nat, children : BOOLEAN, attrs : Seq(Nat \X Nat)])
  /\ astate \in {"code", "decl", "pairs", "done", "truncated"}

(***************************************************************************)
(* Spec 4.3 and 7: the parse of a table's bytes gives back the table, its *)
(* declarations in section order; a section cut short anywhere, at a code *)
(* boundary included, is truncated-buffer and never a complete table.     *)
(***************************************************************************)
AbbrevParsed ==
  /\ astate = "done" => abuf = Encode(ainput.src) /\ table = ainput.src
  /\ astate = "truncated" => Len(abuf) < Len(Encode(ainput.src))

====
