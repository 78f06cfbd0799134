----------------------------- MODULE ElfParser ------------------------------
(***************************************************************************)
(* IsValidElfFile and ParseElfFile of src/elf.cc over an abstract image:   *)
(* whether the file is at least sizeof(ElfHdr_t) long, whether the four    *)
(* magic bytes are 7F 'E' 'L' 'F', the EI_CLASS, EI_DATA and EI_VERSION    *)
(* bytes, and the set of section names the section table holds.  Section  *)
(* offsets and sizes are not represented: nothing checked here reads them.*)
(***************************************************************************)

\* The ELF32 check of IsValidElfFile, on the e_ident of the image.
Elf32Ok(h) == h.magicOk /\ h.cls = 1 /\ h.data = 1 /\ h.version = 1

\* The ELF64 check; e_ident has the same layout in both headers.
Elf64Ok(h) == h.magicOk /\ h.cls = 2 /\ h.data = 1 /\ h.version = 1

\* A check that forgets EI_DATA (accepts big-endian images).
IsValidElfFileAnyEndian(h) ==
  h.sizeOk /\ h.magicOk /\ h.cls \in {1, 2} /\ h.version = 1

\* IsValidElfFile: long enough, then the ELF32 or the ELF64 check.
IsValidElfFile(h) == h.sizeOk /\ (Elf32Ok(h) \/ Elf64Ok(h))

\* ParseElfFile: a valid header and both a .rodata (the OAT data) and a
\* .text (the OAT code) section among the section names.
ParseElfFile(h) ==
  /\ IsValidElfFile(h)
  /\ ".rodata" \in h.sections
  /\ ".text" \in h.sections

=============================================================================
