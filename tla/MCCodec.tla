------------------------------ MODULE MCCodec ------------------------------
(***************************************************************************)
(* Checks the pure operators of the project over bounded inputs: a        *)
(* behaviour picks one input, tagged with its suite, and keeps it; the    *)
(* invariants state what must hold on it.  The suites are MCDwarfRW's      *)
(* ("fixed", "leb", "string") for libdwarf_rw.c; "endian" for endian.h,    *)
(* eight bytes of memory and a host byte order (bytes drawn from three     *)
(* values, so that most inputs have differing bytes in every position     *)
(* pair and a misplaced byte shows); "rawfile" for elf_rawfile.  The       *)
(* elf_hash test (ElfHash) runs alongside: its steps leave the input      *)
(* alone.  The suite "xlate" runs the gelf_xlate test case (XlateDriver)  *)
(* with one of its two purposes over a set of at most two anomalies; its  *)
(* steps, unlike the elf_hash ones, run only on that suite.               *)
(***************************************************************************)
EXTENDS Endian, MCDwarfRW, ElfHash, ElfRawfile, XlateDriver

EndianInputs == [suite : {"endian"}, mem : [0..7 -> {1, 128, 255}], host : {"little", "big"}]

(* Descriptors as libelf's elf_begin leaves them: a read descriptor has   *)
(* its image; a read-write one has it unless the file was empty; a write  *)
(* descriptor has none until elf_update.  An image is 64 bytes long.      *)
Descriptors ==
  {d \in Descriptor : /\ (d.rawfile = Image) = (d.rawsize > 0)
                      /\ d.cmd = "ELF_C_READ" => d.rawfile = Image
                      /\ d.cmd = "ELF_C_WRITE" => d.rawfile = NullPtr}

(* A call with or without a descriptor and a size pointer, the error slot *)
(* clear or holding an earlier call's error.                               *)
RawfileInputs == [suite : {"rawfile"}, e : Descriptors \cup {NullElf},
                  sz : {NullPtr, "size"}, error : {"ELF_E_NONE", "ELF_E_IO"}]

(* A purpose of the test case and what the translator and the system do  *)
(* to it: no anomaly, one, or two.                                         *)
XlateInputs == [suite : {"xlate"}, purpose : {"ToM", "ToF"},
                an : {{a, b} : a, b \in Anomaly} \cup {{}}]

CodecInit ==
  /\ input \in (Inputs \cup EndianInputs \cup RawfileInputs \cup XlateInputs)
  /\ HashInit /\ XlateInit
CodecNext ==
  /\ UNCHANGED input
  /\ \/ input.suite # "xlate" /\ HashNext /\ UNCHANGED xlateVars
     \/ input.suite = "xlate" /\ XlateNext(input.purpose, input.an) /\ UNCHANGED hashVars
     \/ UNCHANGED <<hashVars, xlateVars>>
CodecSpec == CodecInit /\ [][CodecNext]_<<input, hashVars, xlateVars>>

Widths == {2, 4, 8}

Dec(order, w, p) ==
  CASE order = "be" /\ w = 2 -> be16dec(p) [] order = "be" /\ w = 4 -> be32dec(p)
  []   order = "be" /\ w = 8 -> be64dec(p) [] order = "le" /\ w = 2 -> le16dec(p)
  []   order = "le" /\ w = 4 -> le32dec(p) [] order = "le" /\ w = 8 -> le64dec(p)

Enc(order, w, p, u) ==
  CASE order = "be" /\ w = 2 -> be16enc(p, u) [] order = "be" /\ w = 4 -> be32enc(p, u)
  []   order = "be" /\ w = 8 -> be64enc(p, u) [] order = "le" /\ w = 2 -> le16enc(p, u)
  []   order = "le" /\ w = 4 -> le32enc(p, u) [] order = "le" /\ w = 8 -> le64enc(p, u)

(* The w-byte value whose bytes, least significant first, are the memory's. *)
Value(w) == [i \in 1..w |-> input.mem[i - 1]]

(* Memory to encode into: all 0xee. *)
Blank == [q \in 0..7 |-> 238]

(***************************************************************************)
(* Encoding a value with beNenc/leNenc and decoding it with the matching  *)
(* beNdec/leNdec gives it back, the store touches only its N/8 bytes, and *)
(* the big-endian bytes are the little-endian ones reversed.               *)
(***************************************************************************)
EndianRoundTrip ==
  input.suite = "endian" =>
    \A w \in Widths, o \in {"be", "le"} :
      LET u  == Value(w)
          m  == Enc(o, w, Blank, u)
          mo == Enc(IF o = "be" THEN "le" ELSE "be", w, Blank, u)
      IN  /\ Dec(o, w, m) = u
          /\ \A q \in w..7 : m[q] = 238
          /\ \A q \in 0..(w - 1) : m[q] = mo[w - 1 - q]

(***************************************************************************)
(* Spec 6: a codec that duplicates the fixed-width reader must behave like *)
(* it.  leNdec/beNdec of memory give the value read_lsb/read_msb of        *)
(* libdwarf_rw.c read there at the same width.                             *)
(***************************************************************************)
EndianMatchesCodec ==
  input.suite = "endian" =>
    \A w \in Widths :
      /\ Dec("le", w, input.mem) = Low(read_lsb(input.mem, 0, w).val, w)
      /\ Dec("be", w, input.mem) = Low(read_msb(input.mem, 0, w).val, w)

(***************************************************************************)
(* On either host, storing htobeN(x) natively puts x's bytes in memory as *)
(* beNenc does, storing htoleN(x) as leNenc does, and betohN/letohN undo   *)
(* htobeN/htoleN (the __BYTE_ORDER selection of lines 41-79).              *)
(***************************************************************************)
HostOrderMacros ==
  input.suite = "endian" =>
    \A w \in Widths :
      LET h == input.host
          x == Value(w)
      IN  /\ NativeBytes(h, htobe(h, x)) = [q \in 0..(w - 1) |-> Enc("be", w, Blank, x)[q]]
          /\ NativeBytes(h, htole(h, x)) = [q \in 0..(w - 1) |-> Enc("le", w, Blank, x)[q]]
          /\ betoh(h, htobe(h, x)) = x /\ letoh(h, htole(h, x)) = x

(***************************************************************************)
(* tpCheckHash (hash.c, lines 58-82) reports TET_PASS when elf_hash is the *)
(* System V ABI hash: every expected value of htab, those of the strings  *)
(* of bytes above 0x7f included, is the hash of its string taken as       *)
(* unsigned chars.                                                         *)
(***************************************************************************)
HashVectors == pc = "reported" => result = "TET_PASS"

(***************************************************************************)
(* elf_rawfile returns the descriptor's image exactly when it has one;    *)
(* what it stores in *sz is the size of what it returns (0 with NULL);    *)
(* it sets the error slot only when it returns NULL (ARGUMENT without a   *)
(* descriptor, SEQUENCE for a write descriptor), and a successful call    *)
(* leaves an earlier error where it was.                                   *)
(***************************************************************************)
RawfileResult ==
  input.suite = "rawfile" =>
    LET e == input.e
        r == elf_rawfile(e, input.sz, input.error)
    IN  /\ r.ret = IF e = NullElf THEN NullPtr ELSE e.rawfile
        /\ input.sz # NullPtr => r.out = IF r.ret = NullPtr THEN 0 ELSE e.rawsize
        /\ r.error \in {input.error, "ELF_E_ARGUMENT", "ELF_E_SEQUENCE"}
        /\ r.ret # NullPtr => r.error = input.error

(***************************************************************************)
(* tcDriver with _tpToM reports the verdict of the first anomaly it meets *)
(* (ExpectedVerdict): a translator fault anywhere in any file fails the   *)
(* test case, a file or buffer it cannot have leaves it unresolved, and   *)
(* a later file never overwrites an earlier file's verdict.               *)
(***************************************************************************)
XlateToMVerdict ==
  input.suite = "xlate" /\ input.purpose = "ToM" /\ xpc = "done"
    => dresult = ExpectedVerdict(input.an)

(***************************************************************************)
(* The same of tcDriver with _tpToF: gelf_xlatetof is reported correct    *)
(* only when it is, in every file, type, offset and byte order.            *)
(***************************************************************************)
XlateToFVerdict ==
  input.suite = "xlate" /\ input.purpose = "ToF" /\ xpc = "done"
    => dresult = ExpectedVerdict(input.an)

====
