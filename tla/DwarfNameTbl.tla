---------------------------- MODULE DwarfNameTbl ----------------------------
(***************************************************************************)
(* The name-table builder, nametbl_init and nametbl_cleanup of            *)
(* src/users/kaiwang27/testing/libdwarf/libdwarf_nametbl.c.               *)
(*                                                                         *)
(* The builder walks a name section of d_size bytes with one cursor that  *)
(* only moves forward: every byte is read at most once, so the value of    *)
(* each read is chosen when it happens, from the few values that steer     *)
(* the code (the 0xffffffff escape or not, a CU offset that matches an     *)
(* entry of dbg_cu or not, a pair offset of 0 or not, where the name's     *)
(* NUL is).  A read that touches a byte at or past d_size reads memory     *)
(* outside the buffer; what follows depends on that memory, so the model   *)
(* stops in pc = "overread".                                               *)
(*                                                                         *)
(* Every malloc may fail (AllocFails); malloc(0), made for the pair array  *)
(* when no pair was read, may return NULL whatever AllocFails says (C11    *)
(* 7.22.3).  live is the set of allocated blocks, so that the cleanup can  *)
(* be checked against what was allocated.                                 *)
(***************************************************************************)
EXTENDS Naturals, Sequences, FiniteSets, SequencesExt

CONSTANTS
  Sizes,        \* the d_size values of the name section
  CUOffsets,    \* cu_offset of each CU of dbg->dbg_cu, in list order
  OtherOffset,  \* a cu_offset that no CU has
  AllocFails,   \* whether malloc may return NULL for a nonzero size
  NoCU          \* nt_cu left NULL by the lookup

ASSUME /\ Sizes \subseteq Nat
       /\ CUOffsets \in Seq(Nat)
       /\ OtherOffset \in Nat /\ \A i \in DOMAIN CUOffsets : CUOffsets[i] # OtherOffset
       /\ AllocFails \in BOOLEAN

VARIABLES
  size,     \* d->d_size
  offset,   \* the read cursor
  dsize,    \* dwarf_size of the table being read
  tables,   \* ns->ns_ntlist: each table's nt_cu and its pairs (np_name positions)
  nslen,    \* ns->ns_len
  array,    \* ns->ns_array's elements; allocated iff ArrayBlock \in live
  live,     \* the blocks allocated and not yet freed
  ret,      \* the value nametbl_init returns
  pc        \* where the function is

vars == <<size, offset, dsize, tables, nslen, array, live, ret, pc>>

(* Blocks are tagged with what they hold: ns and the array are single,    *)
(* tables are numbered in list order, pairs by their name's position.     *)
NsBlock == <<"ns", 0>>
ArrayBlock == <<"array", 0>>

(* Variant of nametbl_cleanup that frees the tables but not their pairs. *)
nametbl_cleanup_tablesonly(ts, arr) ==
  {NsBlock} \cup {<<"nt", k>> : k \in DOMAIN ts} \cup (IF arr THEN {ArrayBlock} ELSE {})

(* The blocks nametbl_cleanup frees: every pair of every table (inner     *)
(* STAILQ_FOREACH_SAFE), every table, the array when non-NULL, and ns.    *)
nametbl_cleanup(ts, arr) ==
  {NsBlock} \cup {<<"nt", k>> : k \in DOMAIN ts}
         \cup UNION {{<<"np", q>> : q \in ToSet(ts[k].pairs)} : k \in DOMAIN ts}
         \cup (IF arr THEN {ArrayBlock} ELSE {})

(* Every step of the failure path: "goto fail_cleanup" frees ns and all   *)
(* it holds, and the function returns ret.                                *)
FailCleanup(r) ==
  /\ live' = live \ nametbl_cleanup(tables, ArrayBlock \in live)
  /\ ret' = r /\ pc' = "done"

(* The linear search of dbg->dbg_cu for the CU whose cu_offset equals     *)
(* the header's; the loop variable is NULL when none does.                *)
LookupCU(o) ==
  IF \E i \in DOMAIN CUOffsets : CUOffsets[i] = o
  THEN CHOOSE i \in DOMAIN CUOffsets :
         CUOffsets[i] = o /\ \A j \in 1..(i - 1) : CUOffsets[j] # o
  ELSE NoCU

HeaderCUOffsets == ToSet(CUOffsets) \cup {OtherOffset}

Init ==
  /\ size \in Sizes
  /\ offset = 0 /\ dsize = 4
  /\ tables = <<>> /\ nslen = 0 /\ array = <<>>
  /\ live = {} /\ ret = "DWARF_E_NONE" /\ pc = "start"

(* malloc of ns, lines 69-77. *)
NsAlloc ==
  /\ pc = "start"
  /\ live' = {NsBlock} /\ pc' = "tables"
  /\ UNCHANGED <<size, offset, dsize, tables, nslen, array, ret>>

NsAllocFail ==
  /\ pc = "start" /\ AllocFails
  /\ ret' = "DWARF_E_MEMORY" /\ pc' = "done"
  /\ UNCHANGED <<size, offset, dsize, tables, nslen, array, live>>

(* malloc of a table fails, lines 81-85. *)
TableAllocFail ==
  /\ pc = "tables" /\ offset < size /\ AllocFails
  /\ FailCleanup("DWARF_E_MEMORY")
  /\ UNCHANGED <<size, offset, dsize, tables, nslen, array>>

(* One table header, lines 81-108: the table is allocated and inserted at *)
(* the tail, then length (4 bytes, or 8 more after the 0xffffffff escape), *)
(* version (2), cu_offset and cu_length (dwarf_size each) are read and    *)
(* nt_cu is looked up.  The header ends at offset + 14 or offset + 30.    *)
TableHeader ==
  /\ pc = "tables" /\ offset < size
  /\ \E esc \in BOOLEAN, cuoff \in HeaderCUOffsets :
       LET ds  == IF esc THEN 8 ELSE 4
           end == offset + (IF esc THEN 12 ELSE 4) + 2 + 2 * ds
       IN  /\ esc => offset + 4 <= size
           /\ tables' = Append(tables, [cu |-> LookupCU(cuoff), pairs |-> <<>>])
           /\ live' = live \cup {<<"nt", Len(tables) + 1>>}
           /\ offset' = end /\ dsize' = ds
           /\ pc' = IF end > size THEN "overread" ELSE "pairs"
  /\ UNCHANGED <<size, nslen, array, ret>>

(* The pair loop finds the cursor at d_size: back to the table loop. *)
PairsExhausted ==
  /\ pc = "pairs" /\ offset >= size
  /\ pc' = "tables"
  /\ UNCHANGED <<size, offset, dsize, tables, nslen, array, live, ret>>

(* The pair offset straddles or passes d_size, line 112. *)
PairOffsetOverread ==
  /\ pc = "pairs" /\ offset < size /\ offset + dsize > size
  /\ offset' = offset + dsize /\ pc' = "overread"
  /\ UNCHANGED <<size, dsize, tables, nslen, array, live, ret>>

(* Variant of PairEnd that increments ns_len before the break. *)
PairEndCounted ==
  /\ pc = "pairs" /\ offset + dsize <= size
  /\ offset' = offset + dsize /\ pc' = "tables" /\ nslen' = nslen + 1
  /\ UNCHANGED <<size, dsize, tables, array, live, ret>>

(* cuoff == 0 ends the table, lines 112-114. *)
PairEnd ==
  /\ pc = "pairs" /\ offset + dsize <= size
  /\ offset' = offset + dsize /\ pc' = "tables"
  /\ UNCHANGED <<size, dsize, tables, nslen, array, live, ret>>

(* A nonzero pair offset, then malloc of the pair fails, lines 115-120. *)
PairAllocFail ==
  /\ pc = "pairs" /\ offset + dsize <= size /\ AllocFails
  /\ offset' = offset + dsize
  /\ FailCleanup("DWARF_E_MEMORY")
  /\ UNCHANGED <<size, dsize, tables, nslen, array>>

(* Variant of PairAdd that inserts the pair at the head of the table. *)
PairAddHead(e) ==
  LET name == offset + dsize
      t    == Len(tables)
  IN  /\ pc = "pairs" /\ name <= size /\ e \in name..(size - 1)
      /\ tables' = [tables EXCEPT ![t].pairs = <<name>> \o @]
      /\ live' = live \cup {<<"np", name>>}
      /\ nslen' = nslen + 1
      /\ offset' = e + 1
      /\ UNCHANGED <<size, dsize, array, ret, pc>>

(* A nonzero pair offset and a pair whose name, at offset + dwarf_size,   *)
(* ends with the NUL at e, lines 112-128: np_name points at the name, the *)
(* scan leaves the cursor after the NUL, the pair goes to the tail of the *)
(* last table and ns_len is incremented.                                  *)
PairAdd(e) ==
  LET name == offset + dsize
      t    == Len(tables)
  IN  /\ pc = "pairs" /\ name <= size /\ e \in name..(size - 1)
      /\ tables' = [tables EXCEPT ![t].pairs = Append(@, name)]
      /\ live' = live \cup {<<"np", name>>}
      /\ nslen' = nslen + 1
      /\ offset' = e + 1
      /\ UNCHANGED <<size, dsize, array, ret, pc>>

(* The name has no NUL before d_size: "while (p[offset++] != '\0')" reads *)
(* on past the buffer, line 125. *)
NameOverread ==
  LET name == offset + dsize
  IN  /\ pc = "pairs" /\ name <= size
      /\ live' = live \cup {<<"np", name>>}
      /\ offset' = size + 1 /\ pc' = "overread"
      /\ UNCHANGED <<size, dsize, tables, nslen, array, ret>>

(* The array the nested STAILQ_FOREACH of lines 140-144 fills: the pairs  *)
(* of the first table, then those of the next, and so on.                 *)
RECURSIVE FlattenPairs(_)
FlattenPairs(ts) ==
  IF ts = <<>> THEN <<>> ELSE Head(ts).pairs \o FlattenPairs(Tail(ts))

(* Lines 133-150 once the table loop ends: malloc(ns_len pointers)         *)
(* succeeds, the array is filled, and "assert(i == ns_len)" aborts the     *)
(* program if the count differs.                                           *)
BuildArray ==
  /\ pc = "tables" /\ offset >= size
  /\ array' = FlattenPairs(tables)
  /\ live' = live \cup {ArrayBlock}
  /\ pc' = IF Len(FlattenPairs(tables)) = nslen THEN "done" ELSE "abort"
  /\ UNCHANGED <<size, offset, dsize, tables, nslen, ret>>

(* malloc of the array returns NULL: out of memory, or malloc(0) when no  *)
(* pair was read (lines 133-138). *)
ArrayAllocFail ==
  /\ pc = "tables" /\ offset >= size
  /\ AllocFails \/ nslen = 0
  /\ FailCleanup("DWARF_E_MEMORY")
  /\ UNCHANGED <<size, offset, dsize, tables, nslen, array>>

Next ==
  \/ NsAlloc \/ NsAllocFail
  \/ TableAllocFail \/ TableHeader
  \/ PairsExhausted \/ PairOffsetOverread \/ PairEnd \/ PairAllocFail
  \/ \E e \in 0..(size - 1) : PairAdd(e)
  \/ NameOverread
  \/ BuildArray \/ ArrayAllocFail

Spec == Init /\ [][Next]_vars

-----------------------------------------------------------------------------
(* The pairs read so far, table after table (spec 3: the flattened array  *)
(* is the concatenation, in table-then-pair order, of every table's pairs). *)
PairSeqs == [k \in DOMAIN tables |-> tables[k].pairs]
AllPairs == FlattenSeq(PairSeqs)

(***************************************************************************)
(* ns_len, incremented once per pair inserted in the pair loop, counts the *)
(* pairs of all tables in every state, so the assert of line 146 cannot    *)
(* fail.                                                                   *)
(***************************************************************************)
PairCountConsistent == pc # "abort" /\ nslen = Len(AllPairs)

(***************************************************************************)
(* On success ns_array holds every pair of every table exactly once, in    *)
(* the order of their names in the section: the table loop, the tail       *)
(* inserts of the pair loop and the flattening loop keep section order.    *)
(***************************************************************************)
FlatArrayInSectionOrder ==
  (pc = "done" /\ ret = "DWARF_E_NONE") =>
    /\ array = AllPairs
    /\ \A i \in 1..(Len(array) - 1) : array[i] < array[i + 1]

(***************************************************************************)
(* When nametbl_init returns, every block it allocated is either freed     *)
(* (an error: fail_cleanup runs nametbl_cleanup) or reachable from the     *)
(* returned name section (success): no table, pair or array leaks.         *)
(***************************************************************************)
NoLeak ==
  pc = "done" =>
    live = IF ret = "DWARF_E_NONE"
           THEN {NsBlock, ArrayBlock} \cup {<<"nt", k>> : k \in DOMAIN tables}
                                \cup {<<"np", q>> : q \in ToSet(AllPairs)}
           ELSE {}

(***************************************************************************)
(* Spec 7: no read is satisfied by memory outside the section buffer,      *)
(* whatever the length fields and names hold (header reads, pair offsets   *)
(* and the name scan of nametbl_init).                                     *)
(***************************************************************************)
NoReadPastSection == pc # "overread"

=============================================================================
