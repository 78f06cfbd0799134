---------------------------- MODULE OatDexLoader ----------------------------
(***************************************************************************)
(* One LoadClassesOfOatDexFile(table, linker, path) of src/class.cc:       *)
(* OpenOatDexFile (src/oat.cc) with each of its failure paths, the ELF and *)
(* OAT checks, ParseOatDexFile building the DexFileData list with          *)
(* LlAddObjectToHead, CloseOatDexFile with LlFreeAllObject on the failure  *)
(* paths, then RegisterOatDexFile walking the list and calling             *)
(* ParseDexClass on each node.                                             *)
(*                                                                         *)
(* The container is an abstract file: its ELF header (ElfParser), whether  *)
(* the OAT data is long enough and carries the magic "oat\n" and version   *)
(* "039\0", its dex_file_count and whether each embedded DEX header has    *)
(* the magic "dex\n035\0".  open, lseek, malloc and mmap may each fail,    *)
(* and ParseDexClass may succeed or fail (its class walk is ClassLinker).  *)
(* Node i is the DexFileData_t of the i-th DEX file.                       *)
(***************************************************************************)
EXTENDS Naturals, Sequences, FiniteSets, LinkedList, ElfParser
LOCAL INSTANCE SequencesExt

CONSTANTS
  DexCounts,  \* dex_file_count_ values of the containers considered
  MaxParses   \* bound on ParseDexClass calls of one registration

MaxDex == CHOOSE m \in DexCounts : \A c \in DexCounts : c <= m
Nodes  == 1 .. MaxDex

ElfHeaders ==
  [sizeOk : BOOLEAN, magicOk : BOOLEAN, cls : {1, 2, 3}, data : {1, 2},
   version : {0, 1}, sections : SUBSET {".rodata", ".text"}]

Files ==
  UNION { [elf : ElfHeaders, oatSizeOk : BOOLEAN, oatMagicOk : BOOLEAN,
           oatVersionOk : BOOLEAN, nDex : {n}, dexOk : [1 .. n -> BOOLEAN]]
          : n \in DexCounts }

VARIABLES
  file,     \* the container at path
  pc,       \* where the call is
  fd,       \* "none", "open" or "closed"
  handle,   \* the OatDexFile_t: "none", "live" or "freed"
  mapping,  \* the mmap of the file: "none", "mapped" or "unmapped"
  list,     \* dex_files: head and Next of every node
  alloced,  \* DexFileData_t nodes malloc'd
  frees,    \* free() calls on each node
  i,        \* DEX index of ParseOatDexFile's loop, from 1
  p, pp,    \* cursors of LlFreeAllObject; p is also the walk of Register
  parsed,   \* the nodes ParseDexClass was called on, in order
  ret       \* what LoadClassesOfOatDexFile returned

vars == << file, pc, fd, handle, mapping, list, alloced, frees, i, p, pp, parsed, ret >>

Init ==
  /\ file \in Files
  /\ pc = "open"
  /\ fd = "none" /\ handle = "none" /\ mapping = "none"
  /\ list = EmptyList(Nodes)
  /\ alloced = {} /\ frees = [x \in Nodes |-> 0]
  /\ i = 1 /\ p = 0 /\ pp = 0 /\ parsed = << >> /\ ret = FALSE

\* The call returns FALSE here.
Fail(ch) == pc' = "returned" /\ ret' = FALSE /\ ch

\* open(path): NULL if it fails.
Open ==
  /\ pc = "open"
  /\ \/ fd' = "open" /\ pc' = "seek" /\ UNCHANGED ret
     \/ Fail(UNCHANGED fd)
  /\ UNCHANGED << file, handle, mapping, list, alloced, frees, i, p, pp, parsed >>

\* The two lseek calls: on failure NULL is returned and fd stays open.
Seek ==
  /\ pc = "seek"
  /\ \/ pc' = "handle" /\ UNCHANGED ret
     \/ Fail(TRUE)
  /\ UNCHANGED << file, fd, handle, mapping, list, alloced, frees, i, p, pp, parsed >>

\* malloc of the handle: on failure fd is closed and NULL returned.
AllocHandle ==
  /\ pc = "handle"
  /\ \/ handle' = "live" /\ pc' = "mmap" /\ UNCHANGED << fd, ret >>
     \/ Fail(fd' = "closed" /\ UNCHANGED handle)
  /\ UNCHANGED << file, mapping, list, alloced, frees, i, p, pp, parsed >>

\* mmap: on failure fd is closed and NULL returned; the handle stays.
Mmap ==
  /\ pc = "mmap"
  /\ \/ mapping' = "mapped" /\ pc' = "elf" /\ UNCHANGED << fd, ret >>
     \/ Fail(fd' = "closed" /\ UNCHANGED mapping)
  /\ UNCHANGED << file, handle, list, alloced, frees, i, p, pp, parsed >>

\* ParseElfFile, and ParseOatDexFile's IsValidOatDexFile; a failure goes
\* to CloseOatDexFile.
IsValidOatDexFile(f) == f.oatSizeOk /\ f.oatMagicOk /\ f.oatVersionOk

ParseElf ==
  /\ pc = "elf"
  /\ pc' = IF ParseElfFile(file.elf) THEN "oat" ELSE "close"
  /\ UNCHANGED << file, fd, handle, mapping, list, alloced, frees, i, p, pp, parsed, ret >>

ParseOatHeader ==
  /\ pc = "oat"
  /\ pc' = IF IsValidOatDexFile(file) THEN "dex" ELSE "close"
  /\ UNCHANGED << file, fd, handle, mapping, list, alloced, frees, i, p, pp, parsed, ret >>

\* One iteration of ParseOatDexFile's loop: malloc a node (failure returns
\* false), check the DEX header (failure returns false, the node is in no
\* list), add the node with LlAddObjectToHead.
ParseDexEntry ==
  /\ pc = "dex" /\ i <= file.nDex
  /\ \/ pc' = "close" /\ UNCHANGED << alloced, list, i >>
     \/ /\ alloced' = alloced \cup {i}
        /\ IF file.dexOk[i]
           THEN list' = LlAddObjectToHead(list, i) /\ i' = i + 1 /\ UNCHANGED pc
           ELSE pc' = "close" /\ UNCHANGED << list, i >>
  /\ UNCHANGED << file, fd, handle, mapping, frees, p, pp, parsed, ret >>

\* The loop ends: OpenOatDexFile returns the handle and RegisterOatDexFile
\* starts at dex_files.
OpenDone ==
  /\ pc = "dex" /\ i > file.nDex
  /\ pc' = "register" /\ p' = list.head
  /\ UNCHANGED << file, fd, handle, mapping, list, alloced, frees, i, pp, parsed, ret >>

\* LlFreeAllObject(dex_files), entry: nothing for NULL, free the head if it
\* has no Next, otherwise start the loop at head->Next.
FreeAllStart ==
  /\ pc = "close"
  /\ \/ list.head = 0 /\ pc' = "release" /\ UNCHANGED << frees, p, pp >>
     \/ /\ list.head # 0 /\ list.next[list.head] = 0
        /\ frees' = [frees EXCEPT ![list.head] = @ + 1]
        /\ pc' = "release" /\ UNCHANGED << p, pp >>
     \/ /\ list.head # 0 /\ list.next[list.head] # 0
        /\ p' = list.next[list.head] /\ pp' = 0 /\ pc' = "freeloop"
        /\ UNCHANGED frees
  /\ UNCHANGED << file, fd, handle, mapping, list, alloced, i, parsed, ret >>

\* One iteration: free(pp) if set (glibc aborts the process on a second
\* free of a chunk); stop at a NULL p; else pp = p and
\* p = p->Next.  Next of a freed node holds whatever the allocator wrote
\* there, so it is read as any node or NULL.
FreeAllStep ==
  /\ pc = "freeloop"
  /\ IF pp # 0 /\ frees[pp] > 0
     THEN frees' = [frees EXCEPT ![pp] = @ + 1] /\ pc' = "aborted" /\ UNCHANGED << p, pp >>
     ELSE /\ frees' = IF pp # 0 THEN [frees EXCEPT ![pp] = @ + 1] ELSE frees
          /\ IF p = 0
             THEN pc' = "release" /\ UNCHANGED << p, pp >>
             ELSE /\ pp' = p /\ UNCHANGED pc
                  /\ IF frees'[p] > 0 THEN p' \in {0} \cup Nodes ELSE p' = list.next[p]
  /\ UNCHANGED << file, fd, handle, mapping, list, alloced, i, parsed, ret >>

\* The rest of CloseOatDexFile: munmap, close(fd), free the handle; then
\* OpenOatDexFile returns NULL.
Release ==
  /\ pc = "release"
  /\ mapping' = "unmapped" /\ fd' = "closed" /\ handle' = "freed"
  /\ Fail(TRUE)
  /\ UNCHANGED << file, list, alloced, frees, i, p, pp, parsed >>

\* RegisterOatDexFile: ParseDexClass on the node at p, then p = p->Next; a
\* failure returns false, and LoadClassesOfOatDexFile returns false
\* without closing the file.
RegisterStep ==
  /\ pc = "register" /\ p # 0
  /\ \/ /\ Len(parsed) < MaxParses
        /\ parsed' = Append(parsed, p) /\ p' = list.next[p] /\ UNCHANGED << pc, ret >>
     \/ Fail(UNCHANGED << parsed, p >>)
  /\ UNCHANGED << file, fd, handle, mapping, list, alloced, frees, i, pp >>

\* The walk reaches NULL: the file is inserted in the table of loaded
\* OatDex files and the call returns true.
RegisterDone ==
  /\ pc = "register" /\ p = 0
  /\ pc' = "returned" /\ ret' = TRUE
  /\ UNCHANGED << file, fd, handle, mapping, list, alloced, frees, i, p, pp, parsed >>

\* The call has returned, or glibc aborted the process.
Finished == pc \in {"returned", "aborted"} /\ UNCHANGED vars

Next ==
  \/ Open \/ Seek \/ AllocHandle \/ Mmap \/ ParseElf \/ ParseOatHeader
  \/ ParseDexEntry \/ OpenDone \/ FreeAllStart \/ FreeAllStep \/ Release
  \/ RegisterStep \/ RegisterDone \/ Finished

Spec == Init /\ [][Next]_vars

-----------------------------------------------------------------------------
\* RegisterOatDexFile calls ParseDexClass on no DEX file twice, and a load
\* that returns true has parsed every DEX file of the container: the list
\* built by LlAddObjectToHead in ParseOatDexFile holds each node once.
ParsedOnce ==
  /\ IsInjective(parsed)
  /\ (pc = "returned" /\ ret) => ToSet(parsed) = 1 .. file.nDex

\* LoadClassesOfOatDexFile returns true only for a container that passes
\* every check of spec.md 4.3 and 4.4: ELF size, magic, EI_CLASS 1 or 2,
\* little-endian EI_DATA, EI_VERSION 1, both .rodata and .text, the OAT
\* size, magic and version, and the magic of every embedded DEX header.
AcceptsOnlyWellFormed ==
  (pc = "returned" /\ ret) =>
    /\ file.elf.sizeOk /\ file.elf.magicOk /\ file.elf.cls \in {1, 2}
    /\ file.elf.data = 1 /\ file.elf.version = 1
    /\ {".rodata", ".text"} \subseteq file.elf.sections
    /\ file.oatSizeOk /\ file.oatMagicOk /\ file.oatVersionOk
    /\ \A k \in 1 .. file.nDex : file.dexOk[k]

\* When the load fails, everything it acquired is given back: the file
\* descriptor, the handle, the mapping and every DexFileData node.
ReleasedOnFailure ==
  (pc = "returned" /\ ~ret) =>
    /\ fd # "open" /\ handle # "live" /\ mapping # "mapped"
    /\ \A x \in alloced : frees[x] >= 1

=============================================================================
