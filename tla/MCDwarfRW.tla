----------------------------- MODULE MCDwarfRW -----------------------------
(***************************************************************************)
(* Checks the codec operators of DwarfRW against reference definitions    *)
(* over bounded inputs.  A behaviour picks one input (a test vector) and   *)
(* keeps it; the invariants state what must hold of the codec on it.       *)
(* Each input is tagged with its family: "fixed", "leb" or "string".       *)
(***************************************************************************)
EXTENDS DwarfRW, Sequences, FiniteSets

VARIABLE input

(* --- fixed-width reads and writes ------------------------------------- *)

(* Values whose eight bytes are pairwise distinct, so that a misplaced    *)
(* byte is always visible, and two with repeated bytes.                   *)
FixedValues ==
  { <<1, 2, 3, 4, 5, 6, 7, 8>>, <<255, 128, 127, 1, 0, 64, 32, 16>>,
    <<0, 0, 0, 0, 0, 0, 0, 0>>, <<255, 255, 255, 255, 255, 255, 255, 255>>,
    <<17, 34, 51, 68, 85, 102, 119, 136>> }

FixedInputs == [suite : {"fixed"}, order : {"lsb", "msb"}, w : {1, 2, 3, 4, 8},
                off : 0..2, v : FixedValues]

(* The buffer the value is written into: twelve bytes of 0xee. *)
FixedBuf == [q \in 0..11 |-> 238]

Write(order, buf, off, v, w) ==
  IF order = "lsb" THEN write_lsb(buf, off, v, w) ELSE write_msb(buf, off, v, w)
Read(order, buf, off, w) ==
  IF order = "lsb" THEN read_lsb(buf, off, w) ELSE read_msb(buf, off, w)

(* v reduced to its w low-order bytes. *)
Truncate(v, w) == [i \in 1..8 |-> IF i <= w THEN v[i] ELSE 0]

(* --- LEB128 ------------------------------------------------------------ *)

(* Encodings: continuation bytes (bit 7 set) followed by a final byte.    *)
(* Up to five groups with every mix of continuation bytes; six to ten     *)
(* groups with all-zero or all-one continuation payloads (which reach the *)
(* 2^32-1, 2^63-1 and INT64_MIN/2 encodings).                              *)
ContBytes == {128, 129, 136, 255}
LongContBytes == {128, 255}
FinalBytes == {0, 1, 7, 8, 15, 63, 64, 127}

Encodings ==
  UNION { { Append(c, f) : c \in [1..(n - 1) -> ContBytes], f \in FinalBytes } :
          n \in 1..5 }
  \cup
  UNION { { Append(c, f) : c \in [1..(n - 1) -> LongContBytes], f \in FinalBytes } :
          n \in 6..10 }

LebBuf(enc) == [q \in 0..(Len(enc) - 1) |-> enc[q + 1]]

(* Reference decodings (DWARF standard, 7.6): group g carries bits 7g to  *)
(* 7g+6; a signed number is extended from bit 6 of its last group.        *)
RefUleb(enc) ==
  [k \in 0..63 |-> IF k \div 7 < Len(enc) THEN Bit(enc[k \div 7 + 1] % 128, k % 7) ELSE 0]

RefSleb(enc) ==
  [k \in 0..63 |-> IF k \div 7 < Len(enc) THEN Bit(enc[k \div 7 + 1] % 128, k % 7)
                   ELSE Bit(enc[Len(enc)], 6)]

(* The 64-bit vector is the sign extension of a 32-bit int. *)
FitsInt32(bits) == \A k \in 31..63 : bits[k] = bits[31]

(* --- strings ----------------------------------------------------------- *)

(* A d_size-byte buffer of NULs and letters, followed by one byte of the  *)
(* memory beyond it, and a cursor within or at the end of the buffer.     *)
StringInputs ==
  UNION { [suite : {"string"}, size : {s}, bytes : [0..s -> {0, 97}], off : 0..s] :
          s \in 0..4 }

(* ---------------------------------------------------------------------- *)

Inputs == FixedInputs \cup { [suite |-> "leb", enc |-> e] : e \in Encodings } \cup StringInputs

Init == input \in Inputs
Next == UNCHANGED input
Spec == Init /\ [][Next]_input

(***************************************************************************)
(* write_lsb/write_msb then read_lsb/read_msb of the same width and order  *)
(* at the same cursor give back the value's low w bytes, both move the     *)
(* cursor by w, no byte outside the w written ones changes, and reading    *)
(* in the other order gives the bytes reversed; an unsupported width       *)
(* writes nothing, reads 0 and leaves the cursor alone (spec 8, round      *)
(* trip; the fall-through switches of libdwarf_rw.c).                      *)
(***************************************************************************)
FixedRoundTrip ==
  input.suite = "fixed" =>
    LET i     == input
        other == IF i.order = "lsb" THEN "msb" ELSE "lsb"
        wr    == Write(i.order, FixedBuf, i.off, i.v, i.w)
        rd    == Read(i.order, wr.buf, i.off, i.w)
        rev   == Read(other, wr.buf, i.off, i.w)
    IN  IF i.w \in FixedWidths
        THEN /\ rd.val = Truncate(i.v, i.w)
             /\ rd.off = i.off + i.w /\ wr.off = i.off + i.w
             /\ \A q \in DOMAIN FixedBuf \ (i.off..(i.off + i.w - 1)) :
                  wr.buf[q] = FixedBuf[q]
             /\ \A k \in 1..i.w : rev.val[k] = i.v[i.w + 1 - k]
        ELSE wr.buf = FixedBuf /\ rd.val = U64(0) /\ rd.off = i.off /\ wr.off = i.off

(***************************************************************************)
(* read_uleb128 decodes every encoding of a value below 2^31 exactly, on   *)
(* every build, whatever padding groups it carries (read_uleb128's int     *)
(* shift never reaches bit 31 for such values).                            *)
(***************************************************************************)
UlebExactBelow2p31 ==
  input.suite = "leb" =>
    LET enc == input.enc
        r   == read_uleb128(LebBuf(enc), 0)
    IN  (\A k \in 31..63 : RefUleb(enc)[k] = 0) =>
          r.vals = {RefUleb(enc)} /\ r.off = Len(enc)

(***************************************************************************)
(* Spec 8: ULEB128 decoding returns the encoded value, for boundary        *)
(* values up to 2^32-1 and 2^63-1 included (read_uleb128).                 *)
(***************************************************************************)
UlebRoundTrip ==
  input.suite = "leb" =>
    read_uleb128(LebBuf(input.enc), 0).vals = {RefUleb(input.enc)}

(***************************************************************************)
(* read_sleb128 decodes exactly every encoding of at most five groups of  *)
(* a value that fits in a 32-bit int: the shift stays below 32 for every  *)
(* group, and the missing sign extension after a 35-bit shift is made up  *)
(* by the int's own sign extension.                                        *)
(***************************************************************************)
SlebExactInt32 ==
  input.suite = "leb" =>
    LET enc == input.enc
        r   == read_sleb128(LebBuf(enc), 0)
    IN  (Len(enc) <= 5 /\ FitsInt32(RefSleb(enc))) =>
          r.vals = {RefSleb(enc)} /\ r.off = Len(enc)

(***************************************************************************)
(* read_string leaves the cursor just past the first NUL at or after it    *)
(* inside the buffer, or at d_size when there is none, and never beyond    *)
(* d_size; the string returned starts at the old cursor.                   *)
(***************************************************************************)
StringCursor ==
  input.suite = "string" =>
    LET i   == input
        r   == read_string(i.bytes, i.size, i.off)
        nul == {q \in i.off..(i.size - 1) : i.bytes[q] = 0}
    IN  /\ r.str = i.off
        /\ r.off = IF nul = {} THEN i.size
                   ELSE 1 + CHOOSE q \in nul : \A p \in nul : q <= p

(***************************************************************************)
(* Spec 4.1/7: read_string, started inside the buffer, reads no byte at or *)
(* past d_size, even on an unterminated string.                            *)
(***************************************************************************)
StringInBounds ==
  (input.suite = "string" /\ input.off < input.size) =>
    read_string(input.bytes, input.size, input.off).last < input.size

=============================================================================
