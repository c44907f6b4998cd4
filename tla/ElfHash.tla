------------------------------ MODULE ElfHash ------------------------------
(***************************************************************************)
(* The elf_hash test of libelf-test-suite/tset/elf_hash/hash.c: the table *)
(* htab of strings and expected hashes, and tpCheckHash, which calls       *)
(* elf_hash on every string up to the NULL sentinel and reports TET_FAIL   *)
(* if any result differs from the table.                                   *)
(*                                                                         *)
(* elf_hash itself is not in this repository; ElfHashABI is the hash of   *)
(* the System V ABI (gABI, "Hash Table") that libelf implements, taken    *)
(* as the reference.  Its word is unsigned and 32 bits wide; it is kept as *)
(* its top nibble (bits 28-31) and its low 28 bits so that no step leaves *)
(* TLC's integers.  The failure message (malloc, strvis, tet_printf) is    *)
(* output only and not modelled.                                           *)
(***************************************************************************)
EXTENDS Naturals, Sequences
LOCAL INSTANCE Bitwise
LOCAL INSTANCE SequencesExt

(* One round: h = (h << 4) + c; g = h & 0xf0000000; if (g) h ^= g >> 24;  *)
(* h &= ~g.  The addend c is a 32-bit word given as <<top nibble, low 28  *)
(* bits>>; h is below 2^28 on entry, as every round leaves it.            *)
HashRound(h, c) ==
  LET lo == (h % 2^24) * 16 + c[2]
      g  == (h \div 2^24 + c[1] + lo \div 2^28) % 16
      l  == lo % 2^28
  IN  IF g = 0 THEN l ELSE l ^^ (g * 16)

(* A char converted to unsigned long through unsigned char, as the ABI's *)
(* hash does.                                                              *)
UnsignedChar(b) == <<0, b>>

ElfHashABI(s) == FoldLeft(LAMBDA h, b : HashRound(h, UnsignedChar(b)), 0, s)

(* ht->s == NULL: the sentinel; no string (a sequence of bytes 1..255)    *)
(* equals it.                                                              *)
NULL == <<0>>

(* Variant of htab with 0x10FFEf mistyped as 0x10FEFf. *)
htab_typo ==
  << [s |-> <<>>, h |-> 0],
     [s |-> <<255, 255, 255, 255>>, h |-> 1113855],
     [s |-> <<24, 150, 53, 81, 19, 95, 59, 202, 140, 138, 35, 102, 1, 144, 148, 124>>,
      h |-> 235394396],
     [s |-> <<101, 108, 102, 45, 104, 97, 115, 104>>, h |-> 43249240],
     [s |-> NULL, h |-> 0] >>

(* Lines 44-56: "", "\377\377\377\377", the 16-byte string of line 52 and *)
(* "elf-hash" with 0, 0x10FFEf, 0xe07d55c and 0x293ee58.                   *)
htab ==
  << [s |-> <<>>, h |-> 0],
     [s |-> <<255, 255, 255, 255>>, h |-> 1114095],
     [s |-> <<24, 150, 53, 81, 19, 95, 59, 202, 140, 138, 35, 102, 1, 144, 148, 124>>,
      h |-> 235394396],
     [s |-> <<101, 108, 102, 45, 104, 97, 115, 104>>, h |-> 43249240],
     [s |-> NULL, h |-> 0] >>

VARIABLES
  ht,      \* index into htab of the entry being checked
  result,  \* TET_PASS or TET_FAIL
  pc       \* "loop", then "reported" once tet_result is called

hashVars == <<ht, result, pc>>

(* Lines 69-70: result = TET_PASS; ht = htab. *)
HashInit == ht = 1 /\ result = "TET_PASS" /\ pc = "loop"

(* Lines 70-80: one iteration for ht->s != NULL; elf_hash is the ABI     *)
(* hash, and a mismatch sets TET_FAIL whether or not the message buffer  *)
(* could be allocated.                                                    *)
Check ==
  /\ pc = "loop" /\ htab[ht].s # NULL
  /\ result' = IF ElfHashABI(htab[ht].s) # htab[ht].h THEN "TET_FAIL" ELSE result
  /\ ht' = ht + 1
  /\ UNCHANGED pc

(* Lines 70 and 81: the sentinel ends the loop and result is reported. *)
Report ==
  /\ pc = "loop" /\ htab[ht].s = NULL
  /\ pc' = "reported"
  /\ UNCHANGED <<ht, result>>

HashNext == Check \/ Report

HashSpec == HashInit /\ [][HashNext]_hashVars

====
