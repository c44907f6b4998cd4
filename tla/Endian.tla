------------------------------- MODULE Endian -------------------------------
(***************************************************************************)
(* The alignment-agnostic byte-stream codec of                             *)
(* src/common/windows-mingw/endian.h (be/le 16/32/64 dec/enc) and its      *)
(* host-order conversion macros (htobeN, betohN, htoleN, letohN).          *)
(*                                                                         *)
(* A value of w bytes is the sequence of its bytes, least significant      *)
(* first (a uint64_t is a DwarfRW U64Bytes).  Memory is a function from    *)
(* offsets to bytes; p + k is the memory shifted by k.  None of the shifts *)
(* can overflow: p[0] << 24 is done in unsigned, the others stay below     *)
(* 2^24 in int.                                                            *)
(***************************************************************************)
EXTENDS Naturals, Sequences

(* The memory at p + k. *)
Shift(p, k) == [q \in {d - k : d \in {e \in DOMAIN p : e >= k}} |-> p[q + k]]

(* p with the bytes of memory b stored from offset k on. *)
Store(p, k, b) == [q \in DOMAIN p |-> IF q - k \in DOMAIN b THEN b[q - k] ELSE p[q]]

(* The w low-order bytes of a value, and its high-order half. *)
Low(u, w) == [i \in 1..w |-> u[i]]
High(u, w) == [i \in 1..w |-> u[w + i]]

(* --- decoders, lines 85-131 ------------------------------------------- *)

be16dec(p) == <<p[1], p[0]>>
be32dec(p) == <<p[3], p[2], p[1], p[0]>>

(* Variant of be64dec that puts the word at p + 4 in the high half. *)
be64dec_swapped(p) == be32dec(p) \o be32dec(Shift(p, 4))

(* (uint64_t)be32dec(p) << 32 | be32dec(p + 4) *)
be64dec(p) == be32dec(Shift(p, 4)) \o be32dec(p)

le16dec(p) == <<p[0], p[1]>>
le32dec(p) == <<p[0], p[1], p[2], p[3]>>

(* (uint64_t)le32dec(p + 4) << 32 | le32dec(p) *)
le64dec(p) == le32dec(p) \o le32dec(Shift(p, 4))

(* --- encoders, lines 133-189: the memory p after the store ----------- *)

be16enc(p, u) == Store(p, 0, [q \in 0..1 |-> u[2 - q]])
be32enc(p, u) == Store(p, 0, [q \in 0..3 |-> u[4 - q]])
be64enc(p, u) == be32enc(Store(p, 4, be32enc(Shift(p, 4), Low(u, 4))), High(u, 4))

le16enc(p, u) == Store(p, 0, [q \in 0..1 |-> u[q + 1]])

(* Variant of le32enc that stores u >> 8 in p[2] as well as in p[1]. *)
le32enc_dup(p, u) == Store(p, 0, [q \in 0..3 |-> u[IF q = 2 THEN 2 ELSE q + 1]])

le32enc(p, u) == Store(p, 0, [q \in 0..3 |-> u[q + 1]])
le64enc(p, u) == Store(le32enc(p, Low(u, 4)), 4, le32enc(Shift(p, 4), High(u, 4)))

(* --- host-order macros, lines 41-79 ---------------------------------- *)

(* __bswap_N reverses the bytes of a value. *)
bswap(u) == [i \in DOMAIN u |-> u[Len(u) + 1 - i]]

(* Variant that selects the little-endian macro set on a big-endian host. *)
htobe_swapped(host, u) == IF host = "big" THEN bswap(u) ELSE u

(* htobeN and betohN: a byte swap on a little-endian host, the identity   *)
(* on a big-endian one; htoleN and letohN the other way round.            *)
htobe(host, u) == IF host = "little" THEN bswap(u) ELSE u
betoh(host, u) == htobe(host, u)
htole(host, u) == IF host = "big" THEN bswap(u) ELSE u
letoh(host, u) == htole(host, u)

(* A native store of value u on the host: its bytes in host order. *)
NativeBytes(host, u) ==
  [q \in 0..(Len(u) - 1) |-> IF host = "little" THEN u[q + 1] ELSE u[Len(u) - q]]

====
