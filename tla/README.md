# TLA+ models of the libdwarf core (elftoolchain)

This directory holds TLA+ models of the DWARF decoding core in `src/`, together with the TLC configurations that check them. The models cover the primitive codec, the compilation-unit (CU) iterator, the name-table builder, the `endian.h` byte-stream codec, `elf_rawfile`, and the `elf_hash` and `gelf_xlate` test drivers. Every definition from those is translated from the C source. The abbreviation parser and the DIE tree builder are not in `src/`, so they are modelled from spec §4.3 and §4.4 and marked `spec_modelled`. They are composed with the CU loop in the order in which `_dwarf_info_init` calls them. An abstract specification of CU segmentation, `CUSegmentation`, is shown to be implemented by the CU parser. `PROJECT.json` maps each definition to the lines it models, lists the runs and their mutants, and records the findings and hazards.

## 1. Inventory of the system

| Part | Source | State it changes | Operations |
|------|--------|------------------|------------|
| Primitive codec | `src/libdwarf/libdwarf_rw.c` | a cursor (`*offsetp` or `*dp`); for writes, the buffer | `read_lsb/msb`, `decode_lsb/msb`, `write_lsb/msb`, `read/decode_uleb128`, `read/decode_sleb128`, `read_string`, `read_block` |
| CU parser | `src/branches/27-manualpages/libdwarf/libdwarf_info.c` | `dbg->dbg_cu` (list of CUs), the loop offset, the error slot | `_dwarf_info_init`: one loop iteration per unit |
| Abbreviation parser, DIE tree builder | not in `src/` (spec 4.3, 4.4) | a CU's abbreviation table and DIE tree | `_dwarf_abbrev_init`, `_dwarf_die_parse`, called by the CU parser |
| Name-table builder | `src/users/kaiwang27/testing/libdwarf/libdwarf_nametbl.c` | `ns` (list of tables, each with a list of pairs), `ns_len`, `ns_array` | `nametbl_init` (header, pair loop, name scan, flattening), `nametbl_cleanup` |
| Byte-stream codec | `src/common/windows-mingw/endian.h` | the memory written by `*enc` | `be/le 16/32/64 dec/enc`; host-order macros `htobeN`, `betohN`, `htoleN`, `letohN` |
| `elf_rawfile` | `src/libelf/elf_rawfile.c` | `*sz` and the libelf error slot | `elf_rawfile`: the image of a descriptor and its size |
| `elf_hash` test | `.../tset/elf_hash/hash.c` | the test's `result` | `tpCheckHash`: the loop over `htab` up to its NULL sentinel |
| `gelf_xlate` test | `.../tset/gelf_xlate/xlate.c` | the driver's and the test purpose's `result`, the loop positions | `tcDriver` over the test files; the purposes `_tpToM` and `_tpToF` (loop over types and offsets, LSB and MSB checks through `check_gelf_xlate`) |

How the parts interact:

- **The shared reader.** `dbg->read` is `read_lsb` or `read_msb`, depending on the object's byte order. The CU parser and the name-table builder read every field through it.
- **Call sequence inside the CU parser.** For each unit, it calls the abbreviation parser and then the DIE parser (spec §2, "3→4→5 per CU").
- **Name tables depend on the CU list.** The name-table builder runs after the CU list exists. It resolves each table's `cu_offset` against `dbg->dbg_cu` by a linear search.
- **Two codecs for one job.** `endian.h` duplicates the fixed-width readers. Spec §6 requires the two to behave the same.

Nothing runs concurrently (spec §5), so the hard behaviours are sequential ones:

- lengths and names controlled by the input, driving reads past the buffer;
- unsigned wrap-around in cursor arithmetic;
- C integer-shift semantics, including undefined shifts;
- allocation failure at each `malloc`/`calloc`, and the cleanup that must follow;
- the order of "insert, then check";
- the termination of loops whose progress depends on decoded lengths.

## 2. Modules and how they correspond to the code

### `DwarfRW` — the primitive codec (pure operators)

**Representation.**

- Buffers are functions from byte positions to bytes.
- TLC integers are 32-bit, so a `uint64_t` is represented as its 8 bytes, least significant first (`U64Bytes`).
- `Add64`, `Sub64` and `ULT` are C's unsigned 64-bit `+`, `-` and `<`, modulo 2^64.

**Fixed-width reads and writes.**

- `read_lsb`, `read_msb`, `write_lsb` and `write_msb` follow the fall-through switches.
- A width outside {1,2,4,8} returns 0 and does not move the cursor.

**LEB128 decoding.**

- `(b & 0x7f) << shift` is evaluated in a 32-bit `int` (`Contribution`). The `int` is then sign-extended by the `|=` into the 64-bit result.
- A shift of 32 or more is undefined behaviour. `LebAccumulations` keeps both outcomes that real builds produce: `shift % 32` (x86, AArch64) or all bits shifted out (32-bit ARM). The decoders therefore return a set of possible values.

**`read_string`.**

- The recursive `StrStop` follows the loop `*src != 0 && *offsetp < d_size`.
- It returns the last position read, so a read at `d_size` is visible.

### `DwarfInfo` — `_dwarf_info_init`

**Variables.**

| Variable | Code |
|---|---|
| `offset` | the loop cursor (`uint64_t`) |
| `last` | the tail of `dbg_cu`: offset, next offset, offset size, version, header end |
| `units` | the length of `dbg_cu` |
| `ret`, `pc` | return code and position in the function |
| `overread` | whether any read touched a byte at or past `ds_size` |
| `sec` | the section's bytes |

**The section is chosen lazily.**

- A byte of `sec` is `NoByte` until it is read.
- When the code reads a field, the bytes still unset are fixed to the encoding of one of the field values that steer the code. These include: a length of 0 or 2, a length exactly the header size, a length exactly or one more than the bytes left, `0xffffffff`, a wrapping 8-byte length, and versions 2, 3 or 4.
- The new bytes are merged with those already fixed, so every behaviour parses one real byte string.

**Actions.** Each action models one whole path through the loop body:

| Action | Path in the loop body |
|---|---|
| `AllocFail` | calloc fails |
| `InvalidLength` | the length check fails |
| `VersionReject` | the unit is appended, then rejected for its version |
| `AbbrevFail` | the abbreviation parser fails |
| `DieFail` | the DIE parser fails |
| `UnitParsed` | the unit is parsed; the loop moves to `next_offset` |
| `LoopExit` | the loop ends (`offset >= ds_size`) |

`Append(u)` is the insert that three of the actions share. The abbreviation and DIE parsers are not in `src/`, so each may succeed or fail on any unit.

`FairSpec` adds weak fairness on `Next` (section 5) for the two termination properties.

### `DwarfNameTbl` — `nametbl_init` and `nametbl_cleanup`

**A forward-only cursor.** The cursor only moves forward, so each byte is read at most once. The value of each read can therefore be chosen when it happens, and nothing about the section needs to be stored. The choices are:

- the escape or not;
- a `cu_offset` that matches a CU, or `OtherOffset`;
- a pair offset of zero or not;
- the position of a name's NUL.

**Reads past the buffer.** A read that touches a byte at or past `d_size` reads memory outside the buffer. The model stops there, in `pc = "overread"`.

**Variables.**

| Variable | Code |
|---|---|
| `tables` | `ns_ntlist`; each table has `nt_cu` and the positions of its pairs' names |
| `nslen` | `ns_len` |
| `array` | `ns_array` |
| `live` | the set of allocated blocks |

**Failures and cleanup.**

- Every `malloc` can fail when `AllocFails` holds.
- `malloc(0)` may return NULL on any run (C11 7.22.3).
- Every failure path includes the call to `nametbl_cleanup`, which is modelled as the set of blocks it frees.

**Actions.**

| Action | Code |
|---|---|
| `NsAlloc`, `NsAllocFail` | malloc of `ns` succeeds or fails |
| `TableAllocFail` | malloc of a table fails |
| `TableHeader` | malloc and insert of a table, its header reads, and the CU lookup |
| `PairsExhausted` | the pair loop finds the cursor at `d_size` |
| `PairOffsetOverread` | the pair offset straddles or passes `d_size` |
| `PairEnd` | a zero pair offset ends the table |
| `PairAllocFail` | malloc of a pair fails |
| `PairAdd(e)` | a pair whose name ends with the NUL at `e` |
| `NameOverread` | a name with no NUL before `d_size` |
| `BuildArray` | malloc of the array, the flattening loop and its `assert` |
| `ArrayAllocFail` | malloc of the array returns NULL |

### `CUSegmentation` — what the CU parser promises

This is an abstract specification of spec §3, §4.2 and §8 ("CU segmentation"). It has no bytes, lengths or formats. Its state is:

- the section size;
- the start and end of the last unit listed;
- the number of units;
- a status: `"scanning"`, `"ok"`, `"failed"` or `"outside"`.

Its steps:

| Step | Meaning |
|---|---|
| `Unit` | lists the next unit `[segEnd, e)`, with `e` at least 4 bytes on and at most `size` |
| `UnitThenFail` | does the same and fails |
| `Fail` | fails |
| `Finish` | succeeds, only when `segEnd = size` |
| `Outside` | a read outside the section, after which nothing is promised |

`DwarfInfo` defines `Segmentation == INSTANCE CUSegmentation WITH ...`, a refinement mapping:

- `segStart` and `segEnd` are `last.off` and `last.next`, read as numbers;
- `count` is `units`;
- `status` comes from `pc`, `ret` and `overread`.

The `info` run checks `CUSegmentationRefined == Segmentation!Spec` as a temporal property. Every step of `_dwarf_info_init` must therefore be a step of the abstract specification, or leave its variables unchanged:

- `UnitParsed` is `Unit`;
- `VersionReject`, `AbbrevFail` and `DieFail` are `UnitThenFail`;
- `AllocFail` and `InvalidLength` are `Fail`;
- `LoopExit` is `Finish` or `Fail`;
- any read past `ds_size` is `Outside`.

### `DwarfAbbrev` — `_dwarf_abbrev_init` (spec_modelled, spec §4.3)

**Parsing.** The parser reads, in order:

- a code; a code of 0 ends the table;
- the tag and the one-byte has-children flag;
- (attribute, form) pairs, up to `(0, 0)`.

After the `(0, 0)` pair, `EndDecl` appends the declaration to `table`.

**Truncation.** A read that needs bytes past the end of the section is truncated-buffer (spec §7); this includes a section that ends exactly where a code is due.

**Representation.**

- Values stay below 128, so each ULEB128 is one byte.
- `Declarations(t)` is the lookup by code that the DIE builder uses. It takes the first declaration with a given code, and gives the bytes of its values from `FormSize`.
- `Encode` is the inverse of the parse. The properties use it.

### `DwarfDie` — `_dwarf_die_parse` (spec_modelled, spec §4.4)

**Representation.** The unit's entries are a stream of codes. Each entry takes its code byte plus the bytes of its values; attribute decoding is abstracted to that size. DIEs live in an arena (spec §6):

- `die[k]` holds `[off, tag, parent]`;
- `child`, `last` and `sibling` are the first-child, last-child and next-sibling links;
- `0` is the CU root as a parent, and "none" as a link;
- `stack` is the parent stack, with the root at its bottom;
- `index` maps each offset to its DIE.

**Actions.**

| Action | What it does |
|---|---|
| `NullEntry` | pops the stack, except at the root |
| `UnknownCode` | malformed-die |
| `NewDie` | creates the DIE at the cursor, links it through `Link` under the top of the stack, indexes it, and pushes it if it has children |
| `Finish` | at the end of the stream, with only the root open, the scan succeeds |
| `Dangling` | at the end of the stream, with a parent still open, malformed-die |

**Reference parse.** The recursive `DepthAfter` and `RefParent`/`RefChild`/`RefSibling` compute the tree from nesting depths alone, without a stack. The tree-shape property compares the built tree with them.

### `DwarfCU` — one unit's abbreviation and DIE parse (`libdwarf_info.c` 96-107)

This module composes `DwarfAbbrev` with `DwarfDie` (`Die == INSTANCE DwarfDie`):

- `AbbrevStep` runs the table parse (line 99);
- a truncated table ends the unit;
- `StartScan` builds the lookup `abbrevs = Declarations(table)` and starts the DIE scan on one of the unit's entry streams (line 105);
- `DieStep` runs the DIE builder.

In `DwarfInfo`, this pair of calls is abstracted to the outcomes `AbbrevFail`, `DieFail` and `UnitParsed`.

### `ElfHash` — the `elf_hash` test (`hash.c`)

- `htab` is the table of lines 44-56, with each string as its bytes.
- `HashInit`, `Check` and `Report` are the loop of `tpCheckHash`: one `Check` per entry, up to the NULL sentinel, and then `tet_result`.
- `elf_hash` is not in this repository. `ElfHashABI` is the System V ABI hash, used as the reference; `elf_hash` is libelf's implementation of that hash.
- The 32-bit word of the hash is kept as its top nibble and its low 28 bits, so that no step leaves TLC's integers.
- The failure message (`malloc`, `strvis`, `tet_printf`) is output only and is not modelled.

### `ElfRawfile` — `elf_rawfile` (`elf_rawfile.c`)

- A descriptor is the three fields the function reads: `e_cmd`, `e_rawfile` (an image, or NULL) and `e_rawsize`. `NullElf` is the NULL `Elf *`.
- `elf_rawfile(e, sz, error)` is the whole function (lines 35-53) as one operator. It yields the pointer returned, what `*sz` holds afterwards (nothing is written when `sz` is NULL), and the error slot `LIBELF_PRIVATE(error)`, which `LIBELF_SET_ERROR` overwrites and which otherwise keeps an earlier call's error.

### `XlateDriver` — the `gelf_xlate` test (`xlate.c`)

- `gelf_xlatetom`/`gelf_xlatetof` and the file opening are not in this repository. What they do to a run is a set `an` of anomalies, each at a point of the test's traversal:
  - a file that does not open (`e == NULL`);
  - a failed `malloc` of a type's buffers;
  - a translator fault at (file, type, offset, byte order). A `"call"` fault is a wrong return pointer, `d_type` or `d_size`, so `check_gelf_xlate` returns `TET_FAIL`. A `"data"` fault is converted bytes that differ, so the `memcmp` fails.
- Variables: `fn`, `td` and `offset` are the code's loop positions. `tfresult` is the purpose's `result` and `dresult` is `tcDriver`'s. `xpc` is the point reached.
- Actions:
  - `Loop` is the `for` test of `tcDriver` (line 93).
  - `Open` is the open and the `e == NULL` break.
  - `Type` is the purposes' type loop and its `malloc`.
  - `CheckLSB` is the LSB check and compare, which is the same in both purposes.
  - `CheckMSBToM` and `CheckMSBToF` are the two MSB checks. The ToF one keeps the code's `== TET_PASS` (line 504).
  - `NextOffset` is the end of an offset.
  - `Return` is `result = (*tf)(...)` followed by `elf_end`/`close`.
- `ExpectedVerdict(an)` is what the test is for. The verdict is that of the first anomaly in traversal order: `TET_UNRESOLVED` for a resource, `TET_FAIL` for a fault, and `TET_PASS` when there is none.
- Buffers, bytes, `NCOPIES` and the messages are abstracted away. A fault stands for any bad copy among the `NCOPIES`.

### `Endian` — `endian.h`

- Decoders return the value's bytes, least significant first.
- Encoders return the memory after the store.
- `htobe`, `betoh`, `htole` and `letoh` take the host byte order as an argument and select the macro set the way lines 41-79 do.

### MC modules

| Module | What it instantiates |
|---|---|
| `MCDwarfRW` | test vectors for the pure codec. `Init` picks one input and `Next` keeps it, so every invariant is checked once per input. Each input is tagged with its family: `"fixed"`, `"leb"` or `"string"`. |
| `MCCodec` | extends `MCDwarfRW` with two more suites in the same style: `"endian"` (every 8-byte memory over {1, 128, 255}, on both hosts) for `endian.h`, and `"rawfile"` for `elf_rawfile`. It also runs the `elf_hash` test alongside, since its steps leave the input alone. The suite `"xlate"` runs `XlateDriver` with either purpose over no anomaly, one, or two (1,482 inputs), and its steps run only on that suite. The `codec` run checks all of these. |
| `MCDwarfCU` | `DwarfCU` with three abbreviation tables, each whole and cut short at every byte, and every entry stream of up to 5 codes from 0..4 |
| `MCDwarfInfo` | `DwarfInfo` with its section sizes |
| `MCDwarfNameTbl` | `DwarfNameTbl` with its section sizes and the CU offsets of `dbg_cu` |

## 3. Runs

Pass runs:

| Run | Properties | What it shows |
|---|---|---|
| `codec` | `FixedRoundTrip`, `UlebExactBelow2p31`, `SlebExactInt32`, `StringCursor`, `EndianRoundTrip`, `EndianMatchesCodec`, `HostOrderMacros`, `HashVectors`, `RawfileResult`, `XlateToMVerdict` | For both byte orders, widths 1-8 and offsets 0-2: a write followed by a read returns the value's low bytes, and both move the cursor by w. Bytes outside the write are untouched, the other byte order reads the bytes reversed, and an unsupported width (3) is a no-op. The LEB128 decoders are exact, on every build, for values the `int` shift can hold, padded encodings included. `read_string` leaves the cursor just past the first NUL inside the buffer, or at `d_size`. The `endian.h` codec round-trips, agrees with `read_lsb`/`read_msb` (spec §6), and its host macros match native stores on both hosts. `tpCheckHash` reports `TET_PASS`: every expected value of `htab` is the ABI hash of its string, with the bytes taken as unsigned chars. `elf_rawfile` returns the image exactly when the descriptor has one. `*sz` receives the size of what is returned (0 with NULL). The error slot changes only on a NULL return, and a successful call leaves an earlier error in place. The `gelf_xlate` test with `_tpToM` reports the verdict of the first anomaly it meets (`XlateToMVerdict`). A later file never overwrites an earlier verdict, because `tcDriver` stops at the first result that is not `TET_PASS`. |
| `info` | `CUSegmentationRefined`, `TerminationInSection` | `_dwarf_info_init` implements `CUSegmentation` up to the first read past the section. Each appended unit starts where the previous one ended, is at least a length field long, and ends inside the section. A successful return has covered the section exactly. The number of units is at most `ds_size/4`. Under weak fairness, unless a read leaves the section, the loop returns by its own tests before `dbg_cu` reaches `MaxUnits`. The wrapping 8-byte length that would bring `next_offset` back to the unit start is rejected by the length check. |
| `nametbl` | `PairCountConsistent`, `FlatArrayInSectionOrder`, `NoLeak` | `ns_len` equals the number of pairs in every state, so the `assert` cannot fail. On success the array holds every pair once, in section order. When the function returns, every block is either freed (on error) or reachable from `ns` (on success). |
| `die` | `TypeOK`, `AbbrevParsed`, `TreeMatchesReference`, `IndexIntegrity`, `OkOnlyIfClosed` | The abbreviation parse gives back the encoded table, or fails with truncated-buffer on any cut. With the parsed table, at every step of the DIE scan, each DIE hangs under the DIE that opened its level, and the children are in stream order. Every DIE is indexed under its own, distinct offset. A stream that leaves a parent open is malformed-die. |

Violation runs. Each one checks a single property stated by the spec, and TLC finds it violated by what the code does. The details are under `findings` in `PROJECT.json`.

| Run | Property | Counterexample |
|---|---|---|
| `codec_uleb_spec` | `UlebRoundTrip` | `80 80 80 80 08` (2^31) decodes to `0xffffffff80000000` |
| `codec_string_bounds` | `StringInBounds` | the unterminated string "a" in a 1-byte buffer: the byte at `d_size` is read |
| `info_overread` | `NoReadPastSection` | a 2-byte section: the length read passes the end, `ds_size - offset` wraps, and the header is read past the end |
| `info_header_in_unit` | `HeaderWithinUnit` | an 11-byte section holding a unit of length 0: the unit ends at offset 4, its header is read from bytes 4-10, past its end, and the unit is appended with it (then rejected for the version 4 read there) |
| `info_version_listed` | `ListedUnitsSupported` | a version-4 unit is left in `dbg_cu` |
| `info_termination` | `Termination` | a 2-byte section: the 4-byte and then the 8-byte length are read past the end, `ds_size - offset` wraps, a length of 2^64 - 12 passes the check and `next_offset` wraps back to 0; the same unit is parsed again until `calloc` fails (`MaxUnits`) |
| `nametbl_overread` | `NoReadPastSection` | a 3-byte section: the 14-byte header is read past the end |
| `xlate_tof` | `XlateToFVerdict` | `_tpToF` in file 1 returns `TET_PASS` on the first passing MSB call of type 1 and never reaches a translator fault (of either kind) at type 2, so `tcDriver` goes on to file 2, which does not open, and reports `TET_UNRESOLVED` instead of `TET_FAIL`. With no open failure the verdict is a false `TET_PASS`. |

Every property of a pass run has a mutant in `PROJECT.json`: a variant of a mapped definition, shaped like a plausible bug, under which TLC finds the property violated. Examples:

- the missing `value >>= 32` in `write_msb`;
- the length check measured from the unit start;
- the length check dropped (the loop then never ends);
- `e_rawfile` tested without being kept in `ptr`;
- a pair inserted at the head of its table;
- `ns_len++` before the break;
- a cleanup that forgets the pairs;
- the swapped halves of `be64dec`;
- a tail pointer not set on a parent's first child;
- a cursor that forgets the code byte;
- a section end taken as the end of the table;
- a mistyped expected hash;
- `tcDriver`'s loop without its `result == TET_PASS` test.

## 4. Bounds and why they are enough

**Codec.**

- Fixed-width inputs: 5 values with distinct bytes, widths {1,2,3,4,8} and offsets 0-2. A misplaced, missing or extra byte always shows.
- LEB inputs: every encoding of 1 to 5 groups over the continuation bytes {128,129,136,255}, and of 6 to 10 groups over {128,255}. The final bytes are {0,1,7,8,15,63,64,127}. Together these reach:
  - every shift that crosses bits 28-35, where the int overflow and the undefined shift begin;
  - the spec's boundary values 2^32-1 and 2^63-1;
  - both signs of the last group.
- String inputs: every buffer of 0-4 bytes over {NUL, 'a'}, with every start offset.

**CU parser.** Section sizes {0, 2, 11, 13, 22, 23}, both byte orders, and `MaxUnits = 7`. These sizes cover:

- an empty section;
- a section shorter than a length field;
- exactly one minimal 32-bit unit (11 bytes);
- a unit plus trailing bytes;
- two units, or one unit of length 11 bytes;
- one byte more, which reaches the one-too-long length.

The 64-bit format is reached through the escape followed by a length that wraps. State count: 3,086.

**Name tables.** Sizes {0, 3, 16, 18, 24, 30, 38, 42}. These cover:

- the empty section (the `malloc(0)` path);
- a truncated header;
- a straddling terminator;
- one empty table;
- one table with a pair;
- one 64-bit table;
- two tables, or one table with two pairs.

`dbg_cu` holds CUs at offsets 0 and 11, plus one unmatched offset. State count: 22,624.

**Endian.** Every 8-byte memory over {1, 128, 255}, on both hosts. The `elf_hash` loop runs over the four strings and the sentinel of `htab`.

**`elf_rawfile`.** No descriptor; read descriptors with an image; read-write descriptors with and without one (a file that was empty); write descriptors without one. Each is tried with and without a size pointer, and with the error slot clear or holding an earlier error. These are the descriptors libelf's `elf_begin` (not in this repository) creates: an image exactly when `e_rawsize` is nonzero.

**Abbreviation and DIE parse.** The three tables cover:

- declarations with and without children, and with and without values;
- an empty table, in which every code is unknown;
- a duplicated code.

Each table is cut at every byte, which reaches a cut at each code, header and pair boundary. Every stream of up to 5 codes from {0,...,4} reaches:

- nesting three deep;
- a sibling after a closed subtree;
- nulls at the root;
- an unknown code;
- dangling parents;
- two DIEs in a row that have no values.

The last case puts two DIEs one byte apart, or, with the off-by-one, at the same offset. State count: 37,383.

**`gelf_xlate` test.** Two files, two types and `NOFFSET = 2`, with at most two anomalies. This gives:

- every anomaly at every traversal point, alone;
- every ordered pair of anomalies, so that the first one met decides the verdict, whether the two are in one file or in two;
- for the MSB check of `_tpToF`, faults after the first offset, after the first type and in the next file.

Two of each is the least that has a "later" offset, type and file. The code's four files, and its type tables with their own lengths, only repeat the same loops. State count of the whole `codec` run: 163,940.

## 5. Fairness

`_dwarf_info_init` runs on one thread, synchronously, and makes no blocking call (spec §5). Once called, it keeps taking steps until it returns. `DwarfInfo!FairSpec` states this as weak fairness on `Next`, and the `info` and `info_termination` runs use it. `MaxUnits` stands for memory running out. The termination properties therefore ask that the function return before `dbg_cu` is `MaxUnits` long, that is, by the loop's own tests and not because `calloc` failed:

- `TerminationInSection` holds for every behaviour whose reads stay inside the section;
- `Termination` is violated by a truncated section (`info_termination`).

No other run uses fairness. The name-table builder, the DIE scan and the table parse move their cursor forward on every step, so their termination holds by construction of the model and would say nothing. `CHECK_DEADLOCK FALSE` is set in `info`, `nametbl` and `die` because the function returns: `pc = "done"` (and `"overread"` or `"abort"`) are final states.

## 6. Not modelled, and why

- **The rest of `xlate.c`.** The following are not modelled:
  - `_tcByte` (the same checks over the byte type; its leak of `membuf` when the second `malloc` fails is listed as a hazard);
  - the one-call purposes (`_tpNullArgs`, `_tpBadType`, `_tpBadEncoding`, `_tpDstSrcVersion` and the following), which compare the error code of the translator, whose code is not here;
  - the structure tables, which are data.
- **`malloc(0)` in `nametbl_init`.** `DwarfNameTbl` keeps the NULL that `malloc(0)` may return for an empty pair array. The result is `DWARF_E_MEMORY` with memory to spare. No run states spec §7's claim against this path, because it is taken only on C libraries that return NULL for a zero size.
- **`elf_hash` itself, and its behaviour on a 64-bit `unsigned long`.** The function is not in this repository; the model checks the test's table against the ABI hash. On a 64-bit `unsigned long`, `(h << 4) + c` can carry into bit 32, and `h &= ~g` does not clear that bit. No string of `htab` makes the carry, so the model keeps the 32-bit word of the ABI.
- **Attribute decoding in the DIE builder.** The per-form reads are the codec's (`DwarfRW`); an entry is abstracted to its size.
- **Multi-byte ULEB128 in the abbreviation parser.** Likewise, the codec covers it.
- **What the two parsers release on failure.** This is not specified beyond spec §7's policy, and the code is not in `src/`.
- **One section-wide DIE index across several units.** `DwarfCU` scans one unit.
- **What follows a read past the buffer in `DwarfNameTbl`.** It depends on memory outside the buffer.

## 7. Plan for the rest of the project

1. **Composition of `DwarfInfo` and `DwarfNameTbl`.** The name tables would resolve against the CU list the parser left, including a unit rejected for its version.
2. **Tracking `nt_length` in `DwarfNameTbl`.** This would allow stating that a table's pairs lie within its declared length.
3. **Composition of `DwarfCU` with `DwarfInfo`.** The entry stream would become the bytes `[header end, next_offset)` of each unit.
4. **An SLEB128 run beyond 32 bits.** It would document spec §9's open question with the set of results each build gives.
