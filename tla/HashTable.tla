----------------------------- MODULE HashTable -----------------------------
(***************************************************************************)
(* The chained-slab hash table of src/hash.cc, as operators over a table   *)
(* value so that the allocator and the class linker can hold tables of     *)
(* their own.                                                              *)
(*                                                                         *)
(* A table is the list of slabs reached through HashTable_t.Next, each a   *)
(* function from its slot index 0..nr-1 to a HashEntry_t [key, ptr].  A    *)
(* key of 0 marks a free slot.  The per-slab counter cnt is read only by   *)
(* the debug dump and is not represented.  Whether growth may allocate a   *)
(* new slab (malloc or HeapAlloc succeeding) is the caller's argument      *)
(* canGrow.                                                                *)
(***************************************************************************)
LOCAL INSTANCE Naturals
LOCAL INSTANCE Sequences

\* A zeroed slab over the slot indices idx (memset of header and entries);
\* a ptr of 0 is the NULL pointer.
FreeSlot == [key |-> 0, ptr |-> 0]
EmptySlab(idx) == [i \in idx |-> FreeSlot]

\* AllocHashTable(pHeapVol, nr): a table of one zeroed slab of nr slots.
AllocHashTable(nr) == << EmptySlab(0 .. nr - 1) >>

\* The slot positions <<slab, index>> in the order the scans of hash.cc
\* visit them: slab by slab along Next, index 0 .. nr-1 within a slab.
Positions(t) == { <<s, i>> : s \in 1 .. Len(t), i \in DOMAIN t[1] }
Before(a, b) == a[1] < b[1] \/ (a[1] = b[1] /\ a[2] < b[2])
FirstOf(P) == CHOOSE p \in P : \A q \in P : q = p \/ Before(p, q)

\* IsHashExist: the first used slot whose key equals hash, or <<>> (NULL).
\* A slot whose key is 0 is skipped, so a key of 0 is never found.
IsHashExist(t, hash) ==
  LET hits == { p \in Positions(t) : t[p[1]][p[2]].key # 0
                                     /\ t[p[1]][p[2]].key = hash }
  IN  IF hits = {} THEN <<>> ELSE FirstOf(hits)

\* The value a successful lookup reads through the returned entry.
Lookup(t, hash) == LET p == IsHashExist(t, hash) IN t[p[1]][p[2]].ptr

HasFree(slab) == \E i \in DOMAIN slab : slab[i].key = 0

\* A buggy scan whose inner loop runs to the end of the slab without break.
ScanSlotNoBreak(slab) == CHOOSE i \in DOMAIN slab : \A j \in DOMAIN slab : j <= i

\* Where the inner loop of InsertHashEntry leaves e in a slab: at the first
\* free slot if it breaks, otherwise at the slab's last slot.
ScanSlot(slab) ==
  IF HasFree(slab)
  THEN CHOOSE i \in DOMAIN slab : slab[i].key = 0
                                  /\ \A j \in DOMAIN slab : j < i => slab[j].key # 0
  ELSE CHOOSE i \in DOMAIN slab : \A j \in DOMAIN slab : j <= i

\* The Again: loop and the store.  The break leaves only the inner loop, so
\* every slab is scanned and e ends where the scan of the LAST slab left it;
\* the entry written is that one, whether or not it was free.
StoreAfterScan(t, hash, ptr) ==
  [t EXCEPT ![Len(t)][ScanSlot(t[Len(t)])] = [key |-> hash, ptr |-> ptr]]

\* An insert that stores without looking the key up first.
InsertHashEntryNoExistCheck(t, hash, ptr, canGrow) ==
  IF \E s \in 1 .. Len(t) : HasFree(t[s])
  THEN [tbl |-> StoreAfterScan(t, hash, ptr), ok |-> TRUE]
  ELSE IF canGrow
  THEN [tbl |-> StoreAfterScan(Append(t, EmptySlab(DOMAIN t[1])), hash, ptr), ok |-> TRUE]
  ELSE [tbl |-> t, ok |-> FALSE]

\* InsertHashEntry(tbl, hash, ptr).  Result: the new table and whether the
\* call returned an entry (ok) or NULL (key present, or growth failed).
InsertHashEntry(t, hash, ptr, canGrow) ==
  IF IsHashExist(t, hash) # <<>>
  THEN [tbl |-> t, ok |-> FALSE]
  ELSE IF \E s \in 1 .. Len(t) : HasFree(t[s])
  THEN [tbl |-> StoreAfterScan(t, hash, ptr), ok |-> TRUE]
  ELSE IF canGrow
  THEN [tbl |-> StoreAfterScan(Append(t, EmptySlab(DOMAIN t[1])), hash, ptr), ok |-> TRUE]
  ELSE [tbl |-> t, ok |-> FALSE]

\* A buggy remove that clears the key and leaves the value in the slot.
RemoveHashEntryKeyOnly(t, hash) ==
  [s \in 1 .. Len(t) |->
     [i \in DOMAIN t[s] |->
        IF t[s][i].key # 0 /\ t[s][i].key = hash
        THEN [t[s][i] EXCEPT !.key = 0] ELSE t[s][i]]]

\* RemoveHashEntry(tbl, hash): zero every used slot whose key is hash.
RemoveHashEntry(t, hash) ==
  [s \in 1 .. Len(t) |->
     [i \in DOMAIN t[s] |->
        IF t[s][i].key # 0 /\ t[s][i].key = hash
        THEN FreeSlot ELSE t[s][i]]]

\* The keys a lookup finds: what the table holds as seen by its callers.
FoundKeys(t) == { t[p[1]][p[2]].key : p \in { q \in Positions(t) : t[q[1]][q[2]].key # 0 } }

=============================================================================
