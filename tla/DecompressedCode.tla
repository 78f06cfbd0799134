-------------------------- MODULE DecompressedCode --------------------------
(***************************************************************************)
(* The file-backed code cache of src/tools/decompressed_code.cc, driven    *)
(* the way src/tools/pool.cc drives it, across process runs.               *)
(*                                                                         *)
(* The cache file is a DcHeader, a bitmap of SlotSize-byte slots, the code *)
(* chunk and, past the mapping, nr_record_ DcRecords.  Header, bitmap and  *)
(* code are mmap'd MAP_SHARED, so every bitmap update is in the file at    *)
(* once; the records live in the std::map records_ and reach the file only *)
(* when the destructor runs SaveRecordsToFile.  A process run opens the    *)
(* cache (LoadFile, and Create when that returns NULL), then Allocs a hash *)
(* that GetPtr does not find, or Deallocs one it finds, and ends by        *)
(* destroying the cache or by dying.  The page cache outlives a dying      *)
(* process, so what was written to the mapping or with write() stays.     *)
(*                                                                         *)
(* The bitmap is read bit by bit: the NextBit shortcut only skips set bits *)
(* and the byte loops of the mark and unmark passes cover the contiguous   *)
(* run of bits they count, so neither changes which bits are touched.      *)
(***************************************************************************)
EXTENDS Naturals, Sequences, FiniteSets, TLC
LOCAL INSTANCE SequencesExt

CONSTANTS
  Hashes,       \* hash values of the code blobs the client asks for
  Sizes,        \* request sizes in bytes
  SlotSize,     \* bytes per bitmap bit (64)
  NBits,        \* bits of the bitmap (sz_bitmap_ * 8, scaled down)
  MaxSessions   \* bound on process runs

Slots == 0 .. NBits - 1

\* records_ with no entry.
EmptyMap == [h \in {} |-> [index |-> 0, nr |-> 0]]

VARIABLES
  hdr,        \* the file: "none" (absent), "zero" (no valid DcHeader), "valid"
  bitmap,     \* the bitmap in the file (and in the mapping)
  nrRecord,   \* DcHeader.nr_record_ in the file
  fileRecs,   \* the DcRecords written past the mapping, in file order
  pc,         \* "down" (no process has the cache), "open", "saving"
  recs,       \* records_: hash -> [index, nr]
  saveIdx,    \* records SaveRecordsToFile has written in this save
  sessions    \* process runs so far

vars == << hdr, bitmap, nrRecord, fileRecs, pc, recs, saveIdx, sessions >>
disk == << hdr, bitmap, nrRecord, fileRecs >>

Init ==
  /\ hdr = "none" /\ bitmap = [i \in Slots |-> FALSE]
  /\ nrRecord = 0 /\ fileRecs = << >>
  /\ pc = "down" /\ recs = EmptyMap /\ saveIdx = 0 /\ sessions = 0

\* LoadRecordsFromFile: the first nr_record_ records in file order (a short
\* read stops the loop), each inserted into records_ unless its hash is
\* there already (std::map::insert keeps the first).
LoadRecordsFromFile(fr, nr) ==
  FoldLeft(LAMBDA m, r : IF r.hash \in DOMAIN m THEN m
                         ELSE (r.hash :> [index |-> r.index, nr |-> r.nr]) @@ m,
           EmptyMap, SubSeq(fr, 1, IF nr < Len(fr) THEN nr ELSE Len(fr)))

\* pool.cc main, first call: LoadFile opens the file, reads and validates
\* the header, maps it and builds the instance, whose constructor loads the
\* saved records when nr_record_ > 0.
LoadFile ==
  /\ pc = "down" /\ sessions < MaxSessions /\ hdr = "valid"
  /\ pc' = "open" /\ sessions' = sessions + 1
  /\ recs' = IF nrRecord > 0 THEN LoadRecordsFromFile(fileRecs, nrRecord) ELSE EmptyMap
  /\ UNCHANGED << disk, saveIdx >>

\* LoadFile returned NULL (no file, a short or invalid header, or a failed
\* open or mmap), so main calls Create: open with O_TRUNC empties the
\* file; ftruncate zero-fills it; the header of an empty cache is copied
\* into the mapping.  A NULL from Create ends the run (return -1).
Truncated == bitmap' = [i \in Slots |-> FALSE] /\ nrRecord' = 0 /\ fileRecs' = << >>

Create ==
  /\ pc = "down" /\ sessions < MaxSessions
  /\ sessions' = sessions + 1
  /\ \/ UNCHANGED << disk, pc, recs >>
     \/ hdr' = "zero" /\ Truncated /\ UNCHANGED << pc, recs >>
     \/ hdr' = "valid" /\ Truncated /\ pc' = "open" /\ recs' = EmptyMap
  /\ UNCHANGED saveIdx

\* has_size reaches size after this many free bits.
NeedSlots(size) == (size + SlotSize - 1) \div SlotSize

FreeBits(bm) == { i \in Slots : ~bm[i] }

\* Alloc(hash, size), called by pool.cc when GetPtr(hash) is NULL.  The
\* scan takes the first clear bit as start and counts clear bits after it
\* whether or not they are contiguous; too few returns NULL.  The mark pass
\* sets the contiguous run start .. start + n - 1, and the record is
\* inserted into records_, where pool.cc's GetPtr check makes it new.
Alloc(h, size) ==
  /\ pc = "open" /\ h \notin DOMAIN recs
  /\ LET n     == NeedSlots(size)
         start == CHOOSE i \in FreeBits(bitmap) : \A j \in FreeBits(bitmap) : i <= j
     IN  /\ Cardinality(FreeBits(bitmap)) >= n
         /\ bitmap' = [i \in Slots |-> bitmap[i] \/ i \in start .. start + n - 1]
         /\ recs' = (h :> [index |-> start, nr |-> n]) @@ recs
  /\ UNCHANGED << hdr, nrRecord, fileRecs, pc, saveIdx, sessions >>

\* Dealloc(hash), called by pool.cc when GetPtr(hash) finds it: clear the
\* record's nr bits from its index, erase the record.
Dealloc(h) ==
  /\ pc = "open" /\ h \in DOMAIN recs
  /\ bitmap' = [i \in Slots |-> bitmap[i] /\ i \notin recs[h].index .. recs[h].index + recs[h].nr - 1]
  /\ recs' = [k \in DOMAIN recs \ {h} |-> recs[k]]
  /\ UNCHANGED << hdr, nrRecord, fileRecs, pc, saveIdx, sessions >>

\* main returns and the unique_ptr runs ~DecompressedCode, which starts
\* SaveRecordsToFile: lseek to the record area.
Close ==
  /\ pc = "open"
  /\ pc' = "saving" /\ saveIdx' = 0
  /\ UNCHANGED << disk, recs, sessions >>

\* records_ in iteration order: ascending hash.
Order == SetToSortSeq(DOMAIN recs, <)

\* One write of the record loop.  A short write returns false; the
\* destructor then unmaps and closes, and nr_record_ is left as it was.
SaveStep ==
  /\ pc = "saving" /\ saveIdx < Len(Order)
  /\ LET k == saveIdx + 1
         r == [hash |-> Order[k], index |-> recs[Order[k]].index, nr |-> recs[Order[k]].nr]
     IN  \/ /\ fileRecs' = IF k <= Len(fileRecs) THEN [fileRecs EXCEPT ![k] = r]
                           ELSE Append(fileRecs, r)
            /\ saveIdx' = k /\ UNCHANGED << pc, recs >>
         \/ pc' = "down" /\ recs' = EmptyMap /\ UNCHANGED << fileRecs, saveIdx >>
  /\ UNCHANGED << hdr, bitmap, nrRecord, sessions >>

\* Every record written: SetNrRecord(cnt) in the mapped header, then
\* munmap and close; the process ends.
SaveEnd ==
  /\ pc = "saving" /\ saveIdx = Len(Order)
  /\ nrRecord' = saveIdx /\ pc' = "down" /\ recs' = EmptyMap
  /\ UNCHANGED << hdr, bitmap, fileRecs, saveIdx, sessions >>

\* The process dies (killed, or a crash elsewhere) with the cache open or
\* while saving: records_ is lost; the file keeps what was written.
Crash ==
  /\ pc \in {"open", "saving"}
  /\ pc' = "down" /\ recs' = EmptyMap
  /\ UNCHANGED << disk, saveIdx, sessions >>

\* No run is left and the last one has ended.
Done == pc = "down" /\ sessions = MaxSessions /\ UNCHANGED vars

Next ==
  \/ LoadFile \/ Create
  \/ \E h \in Hashes, sz \in Sizes : Alloc(h, sz)
  \/ \E h \in Hashes : Dealloc(h)
  \/ Close \/ SaveStep \/ SaveEnd \/ Crash \/ Done

Spec == Init /\ [][Next]_vars

-----------------------------------------------------------------------------
CodeSlots(r) == r.index .. r.index + r.nr - 1

\* Whenever a process has the cache open, the code GetPtr returns for each
\* hash of records_ lies in slots the bitmap marks used, and no two hashes
\* share a slot: otherwise the next Alloc hands a live blob's slots to
\* another hash.  The bitmap is in the file at once, records_ only after a
\* completed save, and the state after any crash must still satisfy this.
RecordsOwnTheirSlots ==
  pc \in {"open", "saving"} =>
    /\ \A h \in DOMAIN recs : \A i \in CodeSlots(recs[h]) : bitmap[i]
    /\ \A h1, h2 \in DOMAIN recs :
         h1 # h2 => CodeSlots(recs[h1]) \cap CodeSlots(recs[h2]) = {}

=============================================================================
