----------------------------- MODULE ElfRawfile -----------------------------
(***************************************************************************)
(* elf_rawfile of src/libelf/elf_rawfile.c: the image of an ELF descriptor *)
(* and its size.  A descriptor is given by the three fields the function   *)
(* reads (e_cmd, e_rawfile, e_rawsize); the image is a model value.  The   *)
(* call is one step that yields what it changes: the value returned, what *)
(* is stored in *sz, and libelf's error slot (LIBELF_PRIVATE(error)),      *)
(* which LIBELF_SET_ERROR overwrites and which is otherwise left as an     *)
(* earlier call left it.                                                   *)
(***************************************************************************)

(* The C null pointer. *)
NullPtr == "NULL"
Image == "image"

ElfCmds == {"ELF_C_READ", "ELF_C_RDWR", "ELF_C_WRITE"}

Descriptor == [cmd : ElfCmds, rawfile : {Image, NullPtr}, rawsize : {0, 64}]

(* A NULL Elf pointer, given the shape of a descriptor so that it        *)
(* compares with one.                                                      *)
NullElf == [cmd |-> "none", rawfile |-> NullPtr, rawsize |-> 0]

(* Variant that tests e->e_rawfile without storing it in ptr. *)
elf_rawfile_noassign(e, sz, error) ==
  LET size == IF e = NullElf THEN 0 ELSE e.rawsize
  IN  [ret   |-> NullPtr,
       out   |-> IF sz = NullPtr THEN NullPtr ELSE size,
       error |-> IF e = NullElf THEN "ELF_E_ARGUMENT"
                 ELSE IF e.rawfile = NullPtr /\ e.cmd = "ELF_C_WRITE" THEN "ELF_E_SEQUENCE"
                 ELSE error]

(* Lines 35-53: size is e_rawsize (0 without a descriptor); ptr is        *)
(* e_rawfile; no descriptor sets ARGUMENT, no image on a write descriptor *)
(* sets SEQUENCE; *sz is written whenever sz is not NULL, failure or not. *)
(* out is what *sz holds afterwards (NullPtr: nothing was written).       *)
elf_rawfile(e, sz, error) ==
  LET size == IF e = NullElf THEN 0 ELSE e.rawsize
      ptr  == IF e = NullElf THEN NullPtr ELSE e.rawfile
  IN  [ret   |-> ptr,
       out   |-> IF sz = NullPtr THEN NullPtr ELSE size,
       error |-> IF e = NullElf THEN "ELF_E_ARGUMENT"
                 ELSE IF ptr = NullPtr /\ e.cmd = "ELF_C_WRITE" THEN "ELF_E_SEQUENCE"
                 ELSE error]

====
