------------------------------ MODULE DwarfRW ------------------------------
(***************************************************************************)
(* The primitive codec of libdwarf, src/libdwarf/libdwarf_rw.c: fixed      *)
(* width reads and writes in both byte orders, ULEB128/SLEB128 decoding,   *)
(* NUL-terminated strings and opaque blocks.                               *)
(*                                                                         *)
(* A section buffer is a function from byte positions (C offsets, from 0)  *)
(* to Byte.  TLC integers are 32-bit, so a uint64_t/int64_t is kept as its *)
(* eight bytes, least significant first (U64Bytes); the LEB128 decoders,   *)
(* which work bit by bit, produce 64-bit vectors (Bits64).  All operators  *)
(* are pure: the modules of the CU parser and the name-table builder call  *)
(* them on their section state.                                            *)
(***************************************************************************)
EXTENDS Naturals

Byte == 0..255

U64Bytes == [1..8 -> Byte]

(* The uint64_t whose value is the small natural n (n < 2^31). *)
U64(n) == [i \in 1..8 |-> IF i <= 4 THEN (n \div 2^(8 * (i - 1))) % 256 ELSE 0]

(* The value of u, for a u that denotes a number below 2^31. *)
IsSmall(u) == u[4] < 128 /\ \A i \in 5..8 : u[i] = 0
ToNat(u) == u[1] + 256 * u[2] + 65536 * u[3] + 16777216 * u[4]

(* uint64_t addition and subtraction, modulo 2^64 as in C. *)
Add64(a, b) ==
  LET carry[i \in 1..8] ==
        IF i = 1 THEN 0 ELSE (a[i - 1] + b[i - 1] + carry[i - 1]) \div 256
  IN  [i \in 1..8 |-> (a[i] + b[i] + carry[i]) % 256]

Sub64(a, b) == Add64(a, Add64([i \in 1..8 |-> 255 - b[i]], U64(1)))

(* Unsigned a < b: the most significant differing byte decides. *)
ULT(a, b) == \E i \in 1..8 : a[i] < b[i] /\ \A j \in (i + 1)..8 : a[j] = b[j]

(***************************************************************************)
(* Fixed-width reads.  read_lsb ORs src[k] << 8k for every k below the     *)
(* width (the switch falls through from 8 to 1); read_msb takes src[0] as  *)
(* the most significant byte.  A width outside {1,2,4,8} returns 0 and     *)
(* leaves the cursor where it was.  The result is [val, off].              *)
(***************************************************************************)
FixedWidths == {1, 2, 4, 8}

read_lsb(buf, off, w) ==
  IF w \in FixedWidths
  THEN [val |-> [i \in 1..8 |-> IF i <= w THEN buf[off + i - 1] ELSE 0],
        off |-> off + w]
  ELSE [val |-> U64(0), off |-> off]

read_msb(buf, off, w) ==
  IF w \in FixedWidths
  THEN [val |-> [i \in 1..8 |-> IF i <= w THEN buf[off + w - i] ELSE 0],
        off |-> off + w]
  ELSE [val |-> U64(0), off |-> off]

(* decode_lsb / decode_msb do the same through a bare byte pointer. *)
decode_lsb(buf, p, w) == read_lsb(buf, p, w)
decode_msb(buf, p, w) == read_msb(buf, p, w)

(***************************************************************************)
(* Fixed-width writes: write_lsb stores byte k of the value at dst[k],     *)
(* write_msb at dst[w-1-k] (it shifts the value right as it falls through  *)
(* the cases).  The result is [buf, off].                                  *)
(***************************************************************************)
write_lsb(buf, off, v, w) ==
  IF w \in FixedWidths
  THEN [buf |-> [q \in DOMAIN buf |->
                   IF q \in off..(off + w - 1) THEN v[q - off + 1] ELSE buf[q]],
        off |-> off + w]
  ELSE [buf |-> buf, off |-> off]

(* Variant of write_msb that omits "value >>= 32" after the 8-byte case: *)
(* dst[0..3] would receive the low bytes again.                           *)
write_msb_noshift(buf, off, v, w) ==
  IF w \in FixedWidths
  THEN [buf |-> [q \in DOMAIN buf |->
                   IF q \in off..(off + w - 1)
                   THEN v[IF w = 8 /\ q < off + 4 THEN off + 4 - q ELSE off + w - q]
                   ELSE buf[q]],
        off |-> off + w]
  ELSE [buf |-> buf, off |-> off]

write_msb(buf, off, v, w) ==
  IF w \in FixedWidths
  THEN [buf |-> [q \in DOMAIN buf |->
                   IF q \in off..(off + w - 1) THEN v[off + w - q] ELSE buf[q]],
        off |-> off + w]
  ELSE [buf |-> buf, off |-> off]

(***************************************************************************)
(* LEB128.  The decoders loop "b = *src++; ret |= (b & 0x7f) << shift;     *)
(* shift += 7" while bit 7 of b is set, with no bound on the buffer.  The  *)
(* shift is done in 32-bit int: the payload is shifted inside a 32-bit     *)
(* word (bits pushed past bit 31 are lost, a carry into bit 31 makes the   *)
(* int negative) and the int is then sign-extended to 64 bits by the |=.   *)
(* A shift by 32 or more is undefined: x86 and AArch64 shift by            *)
(* shift % 32, 32-bit ARM shifts everything out; LebAccumulations keeps   *)
(* both outcomes (an effective shift of 32 stands for "all bits out").     *)
(***************************************************************************)
Bits64 == [0..63 -> 0..1]

Bit(n, j) == (n \div 2^j) % 2

(* Number of bytes of the LEB128 number starting at off. *)
LebLen(buf, off) ==
  CHOOSE n \in 1..10 : buf[off + n - 1] < 128 /\
                       \A k \in 1..(n - 1) : buf[off + k - 1] >= 128

(* Variant that shifts the whole byte b instead of b & 0x7f. *)
ContributionNoMask(b, e) ==
  LET word[j \in 0..31] == IF j >= e /\ j - e <= 7 THEN Bit(b, j - e) ELSE 0
  IN  [k \in 0..63 |-> IF k < 32 THEN word[k] ELSE word[31]]

(* (int)((b & 0x7f) << e) converted to a 64-bit integer. *)
Contribution(b, e) ==
  LET word[j \in 0..31] == IF j >= e /\ j - e <= 6 THEN Bit(b % 128, j - e) ELSE 0
  IN  [k \in 0..63 |-> IF k < 32 THEN word[k] ELSE word[31]]

(* Every value the loop can accumulate over the n groups at off: a group  *)
(* whose shift is 32 or more is shifted by shift % 32 or shifted out.      *)
LebAccumulations(buf, off, n) ==
  LET ub == {g \in 0..(n - 1) : 7 * g >= 32}
      acc(out) ==
        [k \in 0..63 |->
           IF \E g \in 0..(n - 1) :
                Contribution(buf[off + g], IF g \in out THEN 32 ELSE (7 * g) % 32)[k] = 1
           THEN 1 ELSE 0]
  IN  {acc(out) : out \in SUBSET ub}

(* read_uleb128: the set of possible results and the new cursor. *)
read_uleb128(buf, off) ==
  LET n == LebLen(buf, off)
  IN  [vals |-> LebAccumulations(buf, off, n), off |-> off + n]

(* read_sleb128: after the loop, "if (shift < 32 && (b & 0x40)) ret |=     *)
(* (-1 << shift)" sets every bit from shift up; no extension otherwise.    *)
(* Variant that tests b & 0x80 for the sign instead of b & 0x40. *)
read_sleb128_bit7(buf, off) ==
  LET n     == LebLen(buf, off)
      shift == 7 * n
      ext   == shift < 32 /\ Bit(buf[off + n - 1], 7) = 1
  IN  [vals |-> { [k \in 0..63 |-> IF ext /\ k >= shift THEN 1 ELSE r[k]] :
                  r \in LebAccumulations(buf, off, n) },
       off  |-> off + n]

read_sleb128(buf, off) ==
  LET n     == LebLen(buf, off)
      shift == 7 * n
      ext   == shift < 32 /\ Bit(buf[off + n - 1], 6) = 1
  IN  [vals |-> { [k \in 0..63 |-> IF ext /\ k >= shift THEN 1 ELSE r[k]] :
                  r \in LebAccumulations(buf, off, n) },
       off  |-> off + n]

decode_uleb128(buf, p) == read_uleb128(buf, p)
decode_sleb128(buf, p) == read_sleb128(buf, p)

(***************************************************************************)
(* read_string: the loop test "*src != 0 && *offsetp < d_size" reads the *)
(* byte at the cursor before comparing the cursor with d_size, and the    *)
(* final test "*src == 0 && *offsetp < d_size" reads it again.  StrStop   *)
(* is the position of the last byte read; the result is [str, off, last]. *)
(***************************************************************************)
RECURSIVE StrStop(_, _, _)
StrStop(buf, size, i) ==
  IF buf[i] = 0 \/ i >= size THEN i ELSE StrStop(buf, size, i + 1)

(* Variant whose final test omits "*offsetp < d_size". *)
read_string_nobound(buf, size, off) ==
  LET e == StrStop(buf, size, off)
  IN  [str |-> off, off |-> IF buf[e] = 0 THEN e + 1 ELSE e, last |-> e]

read_string(buf, size, off) ==
  LET e == StrStop(buf, size, off)
  IN  [str  |-> off,
       off  |-> IF buf[e] = 0 /\ e < size THEN e + 1 ELSE e,
       last |-> e]

(* read_block returns a pointer to the bytes at the cursor and moves the   *)
(* cursor by length, without looking at the buffer size.                   *)
read_block(buf, off, len) == [ptr |-> off, off |-> off + len]

=============================================================================
