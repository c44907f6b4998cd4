------------------------------ MODULE DwarfDie ------------------------------
(***************************************************************************)
(* The DIE Tree Builder of spec 4.4 (_dwarf_die_parse, which is not in    *)
(* src): the entry stream of one CU is scanned with a stack of current    *)
(* parents, each DIE is linked as the last child of the top of the stack  *)
(* and entered in the offset index, a null entry pops the stack, and the  *)
(* stream must end with only the CU root on it (spec 7, malformed-die).   *)
(*                                                                         *)
(* The stream is the sequence of abbreviation codes of the entries; an    *)
(* entry occupies one byte of code (codes stay below 128) and the bytes   *)
(* of its attribute values, which are decoded by the codec and abstracted *)
(* to their total size.  DIEs live in an arena (spec 6): DIE k is the k-th *)
(* created, 0 stands for the CU root as a parent and for "none" as a link. *)
(* The table and the stream are given by the unit (DwarfCU composes this  *)
(* module with the table parse, which supplies the initial state).        *)
(***************************************************************************)
EXTENDS Naturals, Sequences, FiniteSetsExt

CONSTANT
  MaxDies    \* bound on the entries of a stream

VARIABLES
  abbrevs,   \* the CU's table, code -> [tag, children, size] (read only)
  stream,    \* the entry stream of the CU (read only)
  pos,       \* index in stream of the next entry
  cursor,    \* byte offset of the next entry from the start of the DIEs
  die,       \* the arena: DIE k is [off, tag, parent]
  child,     \* first child of each DIE, and of the root (0)
  last,      \* last child so far of each DIE and of the root
  sibling,   \* next sibling of each DIE
  stack,     \* the parent stack, the root (0) at its bottom
  index,     \* the offset-keyed index: offset -> DIE
  status     \* "parsing", "ok" or "malformed_die"

vars == <<abbrevs, stream, pos, cursor, die, child, last, sibling, stack, index, status>>

Ids == 0..MaxDies

Top(s) == s[Len(s)]

(* Bytes taken by an entry: its code, and for a known code its values. *)
EntrySize(c) == IF c = 0 THEN 1 ELSE 1 + abbrevs[c].size

(* The scan before the first entry: the root alone on the stack, no     *)
(* DIE, an empty index.                                                  *)
ScanStart ==
  /\ pos = 1 /\ cursor = 0 /\ die = <<>>
  /\ child = [p \in Ids |-> 0] /\ last = [p \in Ids |-> 0]
  /\ sibling = [k \in Ids |-> 0]
  /\ stack = <<0>> /\ index = [o \in {} |-> 0] /\ status = "parsing"

Scanning == status = "parsing" /\ pos <= Len(stream)

(* Variant that pops whatever is on the stack, the root included. *)
PopAlways(s) == SubSeq(s, 1, Len(s) - 1)

(* Ascend one level; the CU root is never popped. *)
Pop(s) == IF Len(s) > 1 THEN SubSeq(s, 1, Len(s) - 1) ELSE s

(* Step 1, code 0: pops the stack; at the root the null entry ends a     *)
(* branch and scanning goes on with the root as parent.                  *)
NullEntry ==
  /\ Scanning /\ stream[pos] = 0
  /\ stack' = Pop(stack)
  /\ pos' = pos + 1 /\ cursor' = cursor + 1
  /\ UNCHANGED <<abbrevs, stream, die, child, last, sibling, index, status>>

(* Step 1: a nonzero code missing from the table is malformed-die. *)
UnknownCode ==
  /\ Scanning /\ stream[pos] # 0 /\ stream[pos] \notin DOMAIN abbrevs
  /\ status' = "malformed_die"
  /\ UNCHANGED <<abbrevs, stream, pos, cursor, die, child, last, sibling, stack, index>>

(* Variant that advances the cursor by the values only, forgetting the  *)
(* byte of the code.                                                     *)
AdvanceValuesOnly(c) == cursor + abbrevs[c].size

(* The cursor after the entry: the code and one value per attribute. *)
Advance(c) == cursor + EntrySize(c)

(* Variant of Link that leaves the last-child pointer alone when k is    *)
(* the first child of p.                                                 *)
LinkNoFirstTail(p, k) ==
  [child   |-> IF last[p] = 0 THEN [child EXCEPT ![p] = k] ELSE child,
   sibling |-> IF last[p] = 0 THEN sibling ELSE [sibling EXCEPT ![last[p]] = k],
   last    |-> IF last[p] = 0 THEN last ELSE [last EXCEPT ![p] = k]]

(* Step 2: k becomes the first child of p if p has none yet, else the   *)
(* next sibling of p's last child; either way p's last child.           *)
Link(p, k) ==
  [child   |-> IF last[p] = 0 THEN [child EXCEPT ![p] = k] ELSE child,
   sibling |-> IF last[p] = 0 THEN sibling ELSE [sibling EXCEPT ![last[p]] = k],
   last    |-> [last EXCEPT ![p] = k]]

(* Steps 1-4 for a known code: create DIE k at the cursor, link it as   *)
(* the last child of the top of the stack, index it by its offset, and  *)
(* push it when its declaration has children.                           *)
NewDie ==
  /\ Scanning /\ stream[pos] \in DOMAIN abbrevs
  /\ LET c == stream[pos]
         k == Len(die) + 1
         p == Top(stack)
     IN  /\ die' = Append(die, [off |-> cursor, tag |-> abbrevs[c].tag, parent |-> p])
         /\ child' = Link(p, k).child
         /\ sibling' = Link(p, k).sibling
         /\ last' = Link(p, k).last
         /\ index' = [o \in DOMAIN index \cup {cursor} |-> IF o = cursor THEN k ELSE index[o]]
         /\ stack' = IF abbrevs[c].children THEN Append(stack, k) ELSE stack
         /\ cursor' = Advance(c)
  /\ pos' = pos + 1
  /\ UNCHANGED <<abbrevs, stream, status>>

(* Variant that ends the scan successfully whatever is left open. *)
FinishAnyStack ==
  /\ status = "parsing" /\ pos > Len(stream)
  /\ status' = "ok"
  /\ UNCHANGED <<abbrevs, stream, pos, cursor, die, child, last, sibling, stack, index>>

(* Termination: the cursor is at the unit's end with only the root open. *)
Finish ==
  /\ status = "parsing" /\ pos > Len(stream) /\ Len(stack) = 1
  /\ status' = "ok"
  /\ UNCHANGED <<abbrevs, stream, pos, cursor, die, child, last, sibling, stack, index>>

(* Termination with a dangling parent stack: malformed-die. *)
Dangling ==
  /\ status = "parsing" /\ pos > Len(stream) /\ Len(stack) > 1
  /\ status' = "malformed_die"
  /\ UNCHANGED <<abbrevs, stream, pos, cursor, die, child, last, sibling, stack, index>>

Next == NullEntry \/ UnknownCode \/ NewDie \/ Finish \/ Dangling

(* Every variable stays in its type; the CU root stays at the bottom of  *)
(* the parent stack, which is never popped empty.                         *)
TypeOK ==
  /\ pos \in 1..(MaxDies + 1) /\ cursor \in Nat
  /\ die \in Seq([off : Nat, tag : {abbrevs[c].tag : c \in DOMAIN abbrevs}, parent : Ids])
  /\ child \in [Ids -> Ids] /\ last \in [Ids -> Ids] /\ sibling \in [Ids -> Ids]
  /\ stack \in Seq(Ids) /\ Len(stack) >= 1 /\ stack[1] = 0
  /\ status \in {"parsing", "ok", "malformed_die"}

(* --- the reference tree ------------------------------------------------ *)

(* Whether entry code c opens a level. *)
Opens(c) == c \in DOMAIN abbrevs /\ abbrevs[c].children

(* The nesting depth after the first i entries of s: a DIE with children *)
(* opens a level, a null entry closes one, and the CU root is never      *)
(* closed.                                                               *)
RECURSIVE DepthAfter(_, _)
DepthAfter(s, i) ==
  IF i = 0 THEN 0
  ELSE LET d == DepthAfter(s, i - 1)
       IN  IF s[i] = 0 THEN (IF d > 0 THEN d - 1 ELSE 0)
           ELSE IF Opens(s[i]) THEN d + 1 ELSE d

(* The entry of s that DIE k is: the k-th entry with a nonzero code. *)
EntryOf(s, k) ==
  CHOOSE i \in 1..Len(s) :
    s[i] # 0 /\ Cardinality({j \in 1..i : s[j] # 0}) = k

(* The DIE entry i of s is, 0 for none. *)
DieAt(s, i) == IF i = 0 THEN 0 ELSE Cardinality({j \in 1..i : s[j] # 0})

(* The parent of DIE k: the entry that opened the level k sits at and is *)
(* still open when k is read, 0 when k is at the top level.              *)
RefParent(s, k) ==
  LET e    == EntryOf(s, k)
      open == {j \in 1..(e - 1) :
                 /\ Opens(s[j])
                 /\ DepthAfter(s, j) = DepthAfter(s, e - 1)
                 /\ \A m \in j..(e - 1) : DepthAfter(s, m) >= DepthAfter(s, j)}
  IN  DieAt(s, IF open = {} THEN 0 ELSE Max(open))

(* First child of p and next sibling of k among the first n DIEs. *)
RefChild(s, n, p) ==
  LET c == {k \in 1..n : RefParent(s, k) = p} IN IF c = {} THEN 0 ELSE Min(c)
RefSibling(s, n, k) ==
  LET c == {j \in (k + 1)..n : RefParent(s, j) = RefParent(s, k)}
  IN  IF c = {} THEN 0 ELSE Min(c)

(***************************************************************************)
(* Spec 3 and 4.4 steps 2-3: at every point of the scan, each DIE built so *)
(* far hangs under the DIE that opened its level, and the first-child and *)
(* next-sibling links (kept through the last-child pointer of each        *)
(* parent) give every parent's children in stream order.                  *)
(***************************************************************************)
TreeMatchesReference ==
  LET n == Len(die)
  IN  /\ \A k \in 1..n : die[k].parent = RefParent(stream, k)
                         /\ sibling[k] = RefSibling(stream, n, k)
      /\ \A p \in 0..n : child[p] = RefChild(stream, n, p)

(***************************************************************************)
(* Spec 8, offset-index integrity: every DIE created is found in the      *)
(* index under its own offset, and the index holds nothing else, so no    *)
(* two DIEs share an offset.                                              *)
(***************************************************************************)
IndexIntegrity ==
  /\ DOMAIN index = {die[k].off : k \in 1..Len(die)}
  /\ \A k \in 1..Len(die) : index[die[k].off] = k

(***************************************************************************)
(* Spec 7: a CU whose entries leave a parent open is malformed-die; the   *)
(* scan succeeds only on a stream in which every DIE with children is     *)
(* closed by a null entry.                                                *)
(***************************************************************************)
OkOnlyIfClosed == status = "ok" => DepthAfter(stream, Len(stream)) = 0

====
