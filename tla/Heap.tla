-------------------------------- MODULE Heap --------------------------------
(***************************************************************************)
(* The bitmap slot allocator of src/heap.cc, as operators over a volume    *)
(* value so that a client (HeapSpec, the class linker) holds one.          *)
(*                                                                         *)
(* A volume is the list of HeapEntry_t reached through Next.  An entry is  *)
(* its bitmap, one bit per SZ_SLOT-byte slot of its pool, its alloced_sz   *)
(* and its records table (a HashTable value) mapping an allocated pointer  *)
(* to its encoded extent.  Every entry has the size of the first, so       *)
(* avail_sz and bitmap_sz are constants here; the volume header's        *)
(* total_sz is kept by the client next to the entries.                    *)
(* The bitmap is read bit by bit: grouping bits in bytes, the NextBit      *)
(* shortcut (it only skips set bits) and the byte loop bounds of the mark  *)
(* and unmark loops do not change which bits are scanned or written.      *)
(* A pointer is <<entry, start slot>>, its address pool + start*SZ_SLOT.   *)
(***************************************************************************)
EXTENDS Naturals, Sequences, FiniteSets, HashTable
LOCAL INSTANCE SequencesExt

CONSTANTS
  SZ_SLOT,      \* bytes per slot (16 in cart.h)
  NBits,        \* slots per entry: avail_sz / SZ_SLOT (scaled down)
  NR_HASH_TBL,  \* slots per slab of a records table (scaled down)
  CNT_RANGE     \* values of the mark loop's uint8_t cnt: 2^8 (scaled down
                \* with NBits: 256 of 1024 slots per HEAP_START_SIZE entry)

AvailSz == NBits * SZ_SLOT
Slots   == 0 .. NBits - 1
Null    == <<>>

\* _FillHeapEntry on a zeroed entry with a fresh records table.
NewEntry == [bitmap     |-> [i \in Slots |-> FALSE],
             alloced_sz |-> 0,
             records    |-> AllocHashTable(NR_HASH_TBL)]

\* AllocHeapVolume: one entry, nr = 1.
AllocHeapVolume == << NewEntry >>

\* The hash key of a pointer: its address, never 0.
PtrKey(start) == start + 1

HeapRecordEncode(start_bits, nr_bits) == [start |-> start_bits, nr |-> nr_bits]

\* start_bit_cnt: free slots counted until has_size >= sz.
NeedSlots(sz) == (sz + SZ_SLOT - 1) \div SZ_SLOT

\* Charging the requested bytes instead of has_size.
ChargeExact(sz) == sz

\* has_size, the bytes added to alloced_sz.
Charge(sz) == NeedSlots(sz) * SZ_SLOT

\* An early check that refuses a request filling the entry exactly.
RoomStrict(ent, sz) == ent.alloced_sz > AvailSz \/ AvailSz - ent.alloced_sz > sz

\* The early check (avail_sz - alloced_sz) < sz fails; the subtraction is
\* of size_t, so an alloced_sz above avail_sz wraps to a huge value.
Room(ent, sz) == ent.alloced_sz > AvailSz \/ AvailSz - ent.alloced_sz >= sz

\* A scan that never tests the bit it walks over.
FreeBitsUntested(ent) == Slots

\* The slots whose bit is clear, as NextBit and the scan loop read them.
FreeBits(ent) == { i \in Slots : ~ent.bitmap[i] }

\* cnt >= start_bit_cnt, with cnt a uint8_t that wraps at CNT_RANGE: for
\* n >= CNT_RANGE slots the test never holds, the mark loop runs off the
\* byte range, the entry loop walks every later entry and DoneMark writes
\* through pHeapEnt = NULL.  The process faults.
MarkCounterWraps(n) == n >= CNT_RANGE

\* _HeapAlloc(pHeapEnt, sz).  The scan takes the first free slot as start
\* and counts free slots after it whether or not they are contiguous; the
\* mark loop then sets the contiguous run start .. start+n-1, in use or not.
\* The record insert's result is ignored: when the records table is full
\* and malloc of its new slab fails (recGrow FALSE), the block is handed
\* out with no record.  fault: the mark loop's counter wrapped and the
\* call never returns.
EntryAlloc(ent, sz, recGrow) ==
  LET n     == NeedSlots(sz)
      start == Min(FreeBits(ent))
  IN  IF ~Room(ent, sz) \/ Cardinality(FreeBits(ent)) < n
      THEN [ok |-> FALSE, fault |-> FALSE, ent |-> ent, start |-> 0]
      ELSE [ok |-> TRUE, fault |-> MarkCounterWraps(n), start |-> start,
            ent |-> [ent EXCEPT
                       !.bitmap     = [i \in Slots |-> @[i] \/ i \in start .. start + n - 1],
                       !.alloced_sz = @ + Charge(sz),
                       !.records    = InsertHashEntry(@, PtrKey(start),
                                          HeapRecordEncode(start, n), recGrow).tbl]]

\* A limit checked one entry late.
MallocFailsPastLimit(vol, maxEntries) == Len(vol) > maxEntries

\* malloc of a further entry returns NULL: the volume has maxEntries.
MallocFails(vol, maxEntries) == Len(vol) >= maxEntries

\* HeapAlloc(pHeapVol, sz): the first entry in list order that accepts the
\* request; otherwise append an entry of the first entry's size and retry
\* on it alone, again and again until it accepts or malloc fails, which
\* happens once the volume has maxEntries entries.  recGrow: whether the
\* records table's growth, if the insert needs one, gets its slab.
HeapAlloc(vol, sz, maxEntries, recGrow) ==
  LET fits  == { e \in 1 .. Len(vol) : EntryAlloc(vol[e], sz, recGrow).ok }
      first == Min(fits)
      fresh == EntryAlloc(NewEntry, sz, recGrow)
  IN  IF fits # {}
      THEN [vol |-> [vol EXCEPT ![first] = EntryAlloc(@, sz, recGrow).ent],
            ptr |-> << first, EntryAlloc(vol[first], sz, recGrow).start >>,
            fault |-> EntryAlloc(vol[first], sz, recGrow).fault]
      ELSE IF MallocFails(vol, maxEntries)
      THEN [vol |-> vol, ptr |-> Null, fault |-> FALSE]
      ELSE IF fresh.ok
      THEN [vol |-> Append(vol, fresh.ent), ptr |-> << Len(vol) + 1, fresh.start >>,
            fault |-> fresh.fault]
      ELSE [vol |-> vol \o [i \in 1 .. maxEntries - Len(vol) |-> NewEntry], ptr |-> Null,
            fault |-> FALSE]

\* A growth that leaves the volume header's total alone.
GrowTotalStale(total, n) == total

\* pHeapVol->total_sz += mem_size for each of the n entries HeapAlloc
\* appends, mem_size being the first entry's avail_sz.
GrowTotal(total, n) == total + n * AvailSz

\* HeapAvailableSize: the header's total_sz.
HeapAvailableSize(total) == total

\* HeapAllocedSize: alloced_sz summed along the entry list.
HeapAllocedSize(vol) == FoldLeft(LAMBDA sum, e : sum + e.alloced_sz, 0, vol)

\* HeapFreeSize: total_sz - HeapAllocedSize, on size_t (a negative value
\* stands for a wrap).
HeapFreeSize(vol, total) == HeapAvailableSize(total) - HeapAllocedSize(vol)

\* The bytes _HeapFree takes off alloced_sz: start_bit_cnt * SZ_SLOT.
Release(nr) == nr * SZ_SLOT

\* _HeapFree(pHeapEnt, ptr): nothing if no record is found; otherwise
\* clear the recorded nr slots from the recorded start, deduct them and
\* remove the record.  A negative alloced_sz stands for a size_t wrap.
EntryFree(ent, start) ==
  LET p == IsHashExist(ent.records, PtrKey(start))
  IN  IF p = <<>> THEN ent
      ELSE LET rec == ent.records[p[1]][p[2]].ptr
           IN  [ent EXCEPT
                  !.bitmap     = [i \in Slots |-> @[i] /\ i \notin rec.start .. rec.start + rec.nr - 1],
                  !.alloced_sz = @ - Release(rec.nr),
                  !.records    = RemoveHashEntry(@, PtrKey(start))]

\* HeapFree(pHeapVol, ptr): _HeapFree on every entry; only the entry whose
\* pool holds the address can have a record of it.
HeapFree(vol, ptr) == [vol EXCEPT ![ptr[1]] = EntryFree(@, ptr[2])]

=============================================================================
