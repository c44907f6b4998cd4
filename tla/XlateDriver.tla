---------------------------- MODULE XlateDriver ----------------------------
(***************************************************************************)
(* The gelf_xlate test case of the libelf test suite (tset/gelf_xlate/     *)
(* xlate.c): tcDriver runs a test purpose over the test files while the   *)
(* verdict stays TET_PASS; the purposes _tpToM and _tpToF loop over the   *)
(* types of the file's class and the offsets 0..NOFFSET-1, and at each   *)
(* offset translate LSB then MSB data with check_gelf_xlate and compare   *)
(* the result with the canonical bytes.                                    *)
(*                                                                         *)
(* gelf_xlatetom/gelf_xlatetof are not in this repository: what they do  *)
(* is the set of anomalies a run meets, each at a place of the test's     *)
(* traversal: a file that does not open (e == NULL), a malloc that fails  *)
(* for a type, or a translator fault at (file, type, offset, order) that  *)
(* is either a bad call (wrong pointer, d_type or d_size: check_gelf_xlate *)
(* returns TET_FAIL) or bad data (the memcmp differs).  Buffers, bytes    *)
(* and messages are left out: only the verdicts and the control flow are  *)
(* kept.                                                                   *)
(***************************************************************************)
EXTENDS Integers, FiniteSets

CONSTANTS
  NFiles,   \* entries of testfns before its NULL
  NTypes,   \* entries of tests32/tests64 before the one without tsd_name
  NOFFSET   \* alignment offsets tried for the file data

VARIABLES
  fn,        \* index into testfns of the file being tested
  td,        \* index into the type table of the test purpose
  offset,    \* offset of the file data in its buffer
  tfresult,  \* the test purpose's result
  dresult,   \* tcDriver's result
  xpc        \* where the driver or the purpose is

xlateVars == <<fn, td, offset, tfresult, dresult, xpc>>

PASS == "TET_PASS"
FAIL == "TET_FAIL"
UNRESOLVED == "TET_UNRESOLVED"

Orders == {"LSB", "MSB"}

(* Every anomaly has the same fields; those that do not apply hold 0, -1  *)
(* or "none".                                                              *)
Anomaly ==
       [at : {"open"}, file : 1..NFiles, type : {0}, off : {-1},
        order : {"none"}, kind : {"none"}]
  \cup [at : {"malloc"}, file : 1..NFiles, type : 1..NTypes, off : {-1},
        order : {"none"}, kind : {"none"}]
  \cup [at : {"xlate"}, file : 1..NFiles, type : 1..NTypes,
        off : 0..(NOFFSET - 1), order : Orders, kind : {"call", "data"}]

OpenFails(an) == \E a \in an : a.at = "open" /\ a.file = fn

MallocFails(an) == \E a \in an : a.at = "malloc" /\ a.file = fn /\ a.type = td

Fault(an, o, k) ==
  \E a \in an : /\ a.at = "xlate" /\ a.kind = k /\ a.order = o
                /\ a.file = fn /\ a.type = td /\ a.off = offset

(* Lines 51-75: the translator's call is checked, its data is not.        *)
check_gelf_xlate(an, o) == IF Fault(an, o, "call") THEN FAIL ELSE PASS

(* The memcmp loop over the NCOPIES converted items. *)
MemcmpFails(an, o) == Fault(an, o, "data")

XlateInit ==
  /\ fn = 1 /\ td = 1 /\ offset = 0
  /\ tfresult = PASS /\ dresult = PASS /\ xpc = "loop"

(* tcDriver's loop without its test of the result. *)
LoopAll ==
  /\ xpc = "loop"
  /\ xpc' = IF fn <= NFiles THEN "open" ELSE "done"
  /\ UNCHANGED <<fn, td, offset, tfresult, dresult>>

(* Lines 92-93: the next file while the verdict is still TET_PASS. *)
Loop ==
  /\ xpc = "loop"
  /\ xpc' = IF dresult = PASS /\ fn <= NFiles THEN "open" ELSE "done"
  /\ UNCHANGED <<fn, td, offset, tfresult, dresult>>

(* Lines 95-100 and the purposes' entry: a file that does not open ends   *)
(* the loop UNRESOLVED; otherwise the purpose starts at its first type     *)
(* with result TET_PASS.                                                   *)
Open(an) ==
  /\ xpc = "open"
  /\ \/ /\ OpenFails(an)
        /\ dresult' = UNRESOLVED /\ xpc' = "done"
        /\ UNCHANGED <<fn, td, offset, tfresult>>
     \/ /\ ~OpenFails(an)
        /\ td' = 1 /\ tfresult' = PASS /\ xpc' = "type"
        /\ UNCHANGED <<fn, offset, dresult>>

(* The type loop: past the last type the purpose returns its result; a    *)
(* failed malloc returns TET_UNRESOLVED; otherwise offset 0.               *)
Type(an) ==
  /\ xpc = "type"
  /\ \/ td > NTypes /\ xpc' = "ret" /\ UNCHANGED <<td, offset, tfresult>>
     \/ /\ td <= NTypes /\ MallocFails(an)
        /\ tfresult' = UNRESOLVED /\ xpc' = "ret" /\ UNCHANGED <<td, offset>>
     \/ /\ td <= NTypes /\ ~MallocFails(an)
        /\ offset' = 0 /\ xpc' = "LSB" /\ UNCHANGED <<td, tfresult>>
  /\ UNCHANGED <<fn, dresult>>

(* The end of an offset: the next one, or the next type. *)
NextOffset ==
  IF offset + 1 < NOFFSET
  THEN offset' = offset + 1 /\ xpc' = "LSB" /\ td' = td
  ELSE offset' = offset /\ xpc' = "type" /\ td' = td + 1

(* The LSB check of both purposes: a check_gelf_xlate result other than   *)
(* TET_PASS is returned, a differing memcmp returns TET_FAIL.             *)
CheckLSB(an) ==
  /\ xpc = "LSB"
  /\ LET r == check_gelf_xlate(an, "LSB")
     IN  \/ r # PASS /\ tfresult' = r /\ xpc' = "ret"
         \/ r = PASS /\ MemcmpFails(an, "LSB") /\ tfresult' = FAIL /\ xpc' = "ret"
         \/ r = PASS /\ ~MemcmpFails(an, "LSB") /\ tfresult' = PASS /\ xpc' = "MSB"
  /\ UNCHANGED <<fn, td, offset, dresult>>

(* _tpToM's MSB check (lines 361-376): as the LSB one, then the next      *)
(* offset.                                                                 *)
CheckMSBToM(an) ==
  /\ xpc = "MSB"
  /\ LET r == check_gelf_xlate(an, "MSB")
     IN  \/ r # PASS /\ tfresult' = r /\ xpc' = "ret" /\ UNCHANGED <<td, offset>>
         \/ r = PASS /\ MemcmpFails(an, "MSB") /\ tfresult' = FAIL /\ xpc' = "ret"
            /\ UNCHANGED <<td, offset>>
         \/ r = PASS /\ ~MemcmpFails(an, "MSB") /\ tfresult' = PASS /\ NextOffset
  /\ UNCHANGED <<fn, dresult>>

(* _tpToF's MSB check (lines 503-518), whose test is `== TET_PASS`: a     *)
(* passing call leaves the purpose with TET_PASS; a failing one goes on   *)
(* to the memcmp, and past it to the next offset with TET_FAIL held.      *)
CheckMSBToF(an) ==
  /\ xpc = "MSB"
  /\ LET r == check_gelf_xlate(an, "MSB")
     IN  \/ r = PASS /\ tfresult' = r /\ xpc' = "ret" /\ UNCHANGED <<td, offset>>
         \/ r # PASS /\ MemcmpFails(an, "MSB") /\ tfresult' = FAIL /\ xpc' = "ret"
            /\ UNCHANGED <<td, offset>>
         \/ r # PASS /\ ~MemcmpFails(an, "MSB") /\ tfresult' = r /\ NextOffset
  /\ UNCHANGED <<fn, dresult>>

(* Lines 102-105: tcDriver takes the purpose's result, ends the           *)
(* descriptor, closes the file and moves to the next.                      *)
Return ==
  /\ xpc = "ret"
  /\ dresult' = tfresult /\ fn' = fn + 1 /\ xpc' = "loop"
  /\ UNCHANGED <<td, offset, tfresult>>

XlateNext(purpose, an) ==
  \/ Loop \/ Open(an) \/ Type(an) \/ CheckLSB(an) \/ Return
  \/ purpose = "ToM" /\ CheckMSBToM(an)
  \/ purpose = "ToF" /\ CheckMSBToF(an)

(***************************************************************************)
(* What the test case is for: its verdict is that of the first anomaly    *)
(* met in its traversal (files, then types, then offsets, then at each    *)
(* offset the LSB call, the LSB data, the MSB call and the MSB data):     *)
(* TET_UNRESOLVED for a file or a buffer that could not be had, TET_FAIL  *)
(* for a translator fault, and TET_PASS when there is none.               *)
(***************************************************************************)
Step(a) ==
  CASE a.at # "xlate"                          -> 0
    [] a.order = "LSB" /\ a.kind = "call"      -> 1
    [] a.order = "LSB" /\ a.kind = "data"      -> 2
    [] a.order = "MSB" /\ a.kind = "call"      -> 3
    [] a.order = "MSB" /\ a.kind = "data"      -> 4

Rank(a) == (((a.file * (NTypes + 1)) + a.type) * (NOFFSET + 1) + a.off + 1) * 5 + Step(a)

FirstAnomaly(an) == CHOOSE a \in an : \A b \in an : Rank(a) <= Rank(b)

ExpectedVerdict(an) ==
  IF an = {} THEN PASS
  ELSE IF FirstAnomaly(an).at = "xlate" THEN FAIL ELSE UNRESOLVED

====
