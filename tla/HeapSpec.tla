------------------------------ MODULE HeapSpec ------------------------------
(***************************************************************************)
(* One heap volume of src/heap.cc and a client that calls HeapAlloc and    *)
(* HeapFree on it.  The client keeps the blocks it was handed (live) and   *)
(* frees only those, each once; the class linker never frees, the unit     *)
(* test (src/tools/unittest.cc) frees in an order of its choosing.         *)
(***************************************************************************)
EXTENDS Naturals, Sequences, FiniteSets, Bags, Heap
LOCAL INSTANCE SequencesExt

CONSTANTS
  Sizes,       \* request sizes in bytes
  MaxEntries,  \* entries at which malloc of a further entry fails
  MaxLive      \* bound on the blocks the client holds at once

ASSUME Sizes \subseteq Nat \ {0} /\ MaxEntries \in Nat \ {0}

VARIABLES
  vol,     \* the entry list of the HeapVolume_t
  total_sz, \* its header's total_sz
  live,    \* bag of blocks [ptr, sz] handed out and not yet freed
  faulted  \* a HeapAlloc wrote through NULL: the process is gone

vars == << vol, total_sz, live, faulted >>

Init == vol = AllocHeapVolume /\ total_sz = AvailSz /\ live = EmptyBag /\ faulted = FALSE

\* p = HeapAlloc(vol, sz); a non-NULL p is kept.  The records table is
\* malloc-backed (AllocHashTable(NULL, ...)), so its growth inside the
\* call may fail.  After a fault nothing of the process runs again.
Alloc(sz) ==
  /\ ~faulted
  /\ BagCardinality(live) < MaxLive
  /\ \E recGrow \in BOOLEAN :
     LET r == HeapAlloc(vol, sz, MaxEntries, recGrow)
     IN  /\ faulted' = r.fault
         /\ vol' = r.vol
         /\ total_sz' = GrowTotal(total_sz, Len(r.vol) - Len(vol))
         /\ live' = IF r.ptr = Null \/ r.fault THEN live
                    ELSE live (+) SetToBag({[ptr |-> r.ptr, sz |-> sz]})

\* HeapFree(vol, p) of a block the client holds.
Free(h) ==
  /\ ~faulted
  /\ BagIn(h, live)
  /\ vol' = HeapFree(vol, h.ptr)
  /\ live' = live (-) SetToBag({h})
  /\ UNCHANGED << total_sz, faulted >>

NextAllocOnly == \E sz \in Sizes : Alloc(sz)
Next == NextAllocOnly \/ \E h \in BagToSet(live) : Free(h)

SpecAllocOnly == Init /\ [][NextAllocOnly]_vars
Spec          == Init /\ [][Next]_vars

-----------------------------------------------------------------------------
Handles == BagToSet(live)

\* The bytes a block was promised: [ptr, ptr + sz) in its entry's pool.
Extent(h) == { << h.ptr[1], b >> : b \in h.ptr[2] * SZ_SLOT .. h.ptr[2] * SZ_SLOT + h.sz - 1 }

SetBits(ent) == { i \in Slots : ent.bitmap[i] }

\* Type invariant: at most MaxEntries entries; alloced_sz never wraps
\* below zero; records and held blocks point into existing pools.
TypeOK ==
  /\ Len(vol) \in 1 .. MaxEntries
  /\ total_sz \in Nat
  /\ \A e \in 1 .. Len(vol) :
       /\ vol[e].bitmap \in [Slots -> BOOLEAN]
       /\ vol[e].alloced_sz \in Nat
       /\ \A k \in FoundKeys(vol[e].records) : k - 1 \in Slots
  /\ \A h \in Handles : h.ptr[1] \in 1 .. Len(vol) /\ h.ptr[2] \in Slots /\ h.sz \in Sizes

\* No two blocks the client holds share a byte, and no pointer is handed
\* out twice while held: the mark loop of _HeapAlloc must only set slots
\* that were free and enough of them for the request.
NoOverlap ==
  \A h1, h2 \in Handles :
    (h1 # h2 \/ live[h1] > 1) => Extent(h1) \cap Extent(h2) = {}

\* spec.md 8: alloced_sz of each entry is SZ_SLOT times the bits set in
\* its bitmap, across every HeapAlloc and HeapFree.
AllocedMatchesBitmap ==
  \A e \in 1 .. Len(vol) : vol[e].alloced_sz = SZ_SLOT * Cardinality(SetBits(vol[e]))

\* spec.md 8: HeapAllocedSize, the sum of the entries' alloced_sz, is
\* SZ_SLOT times the bits set over all entries, and HeapFreeSize, the
\* header's total_sz less that sum, is SZ_SLOT times the bits clear: the
\* totals the class linker reports stay true as HeapAlloc appends entries,
\* and the allocated size never exceeds HeapAvailableSize.
HeapSizesAgree ==
  LET bits(clear) == FoldLeft(LAMBDA n, ent : n + Cardinality({ i \in Slots : ent.bitmap[i] # clear }), 0, vol)
  IN  /\ HeapAllocedSize(vol) = SZ_SLOT * bits(FALSE)
      /\ HeapFreeSize(vol, total_sz) = SZ_SLOT * bits(TRUE)

HasClearRun(ent, n) ==
  \E s \in Slots : s + n - 1 \in Slots /\ \A i \in s .. s + n - 1 : ~ent.bitmap[i]

\* In every reachable volume, HeapAlloc would return NULL for a request
\* only when no entry has n free slots in a row for it and the goto Again
\* growth has gone on until malloc failed (the volume is at MaxEntries); a
\* request larger than a whole entry (heap.cc:301) ends that way and no
\* other.  The early avail_sz check,
\* the bitmap scan and the growth must agree on what fits.
RefusesOnlyWhenNoRoom ==
  \A sz \in Sizes :
    LET r == HeapAlloc(vol, sz, MaxEntries, TRUE)
    IN  r.ptr = Null =>
          /\ \A e \in 1 .. Len(vol) : ~HasClearRun(vol[e], NeedSlots(sz))
          /\ Len(r.vol) = MaxEntries

\* HeapAlloc returns, a block or NULL, for every request the program
\* makes: the class linker's AllocHashTable asks for 16 * n + 40 bytes for
\* a member group of n, more than 255 slots once n >= 253.
NoAllocFault == ~faulted

=============================================================================
