------------------------------- MODULE MCHeap -------------------------------
(* Model-checking instance of HeapSpec: entries of five 16-byte slots,   *)
(* requests of one slot and of three (33 bytes, rounded up), two entries; *)
(* the linker's run adds a request larger than an entry and a third one.  *)
EXTENDS HeapSpec

MC_SZ_SLOT     == 16
MC_NBits       == 5
MC_NR_HASH_TBL == 2
MC_CNT_RANGE   == 4
MC_Sizes       == {16, 33}
MC_MaxEntries  == 2
MC_MaxEntriesLinker == 3
MC_MaxLive     == 16
MC_MaxLiveChurn == 4
\* A request of four slots, a group of more than 255 members scaled down.
MC_SizesLarge  == {16, 64}
\* The linker's small requests and one larger than a whole entry (80 bytes).
MC_SizesLinker == {16, 33, 96}

=============================================================================
