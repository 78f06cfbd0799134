--------------------------- MODULE HashTableSpec ---------------------------
(***************************************************************************)
(* One hash table of src/hash.cc driven by a client that inserts and       *)
(* removes keys, as the allocator does with its records table and the      *)
(* unit test does with a standalone table.  Growth allocates a slab with   *)
(* malloc, which is taken to fail once the table has MaxSlabs slabs.       *)
(***************************************************************************)
EXTENDS Naturals, Sequences, HashTable

CONSTANTS
  NR,        \* slots per slab (the nr of AllocHashTable)
  MaxSlabs,  \* slabs at which malloc of a further slab fails
  Keys,      \* non-zero hash keys the client uses
  Vals       \* values stored with them (model values)

ASSUME NR \in Nat \ {0} /\ MaxSlabs \in Nat \ {0}
ASSUME Keys \subseteq Nat \ {0}

VARIABLE tbl

vars == << tbl >>

Init == tbl = AllocHashTable(NR)

\* InsertHashEntry(tbl, k, v); its result is not used by the client.
Insert(k, v) == tbl' = InsertHashEntry(tbl, k, v, Len(tbl) < MaxSlabs).tbl

\* RemoveHashEntry(tbl, k).
Remove(k) == tbl' = RemoveHashEntry(tbl, k)

\* Clients that never remove: the class linker's tables and the table of
\* loaded OatDex files.
NextInsertOnly == \E k \in Keys, v \in Vals : Insert(k, v)

Next == NextInsertOnly \/ \E k \in Keys : Remove(k)

SpecInsertOnly == Init /\ [][NextInsertOnly]_vars
Spec           == Init /\ [][Next]_vars

-----------------------------------------------------------------------------
Key(p) == tbl[p[1]][p[2]].key

\* At most one value per key (spec.md 4.1): no two used slots, in the same
\* slab or in different slabs, hold the same key.  InsertHashEntry relies
\* on IsHashExist scanning every slab before it stores.
NoDuplicateKeys ==
  \A p, q \in Positions(tbl) : p # q /\ Key(p) # 0 => Key(p) # Key(q)

\* The table seen through IsHashExist is the abstract map of HashMap.
Contents == [k \in FoundKeys(tbl) |-> Lookup(tbl, k)]

HM == INSTANCE HashMap WITH map <- Contents

\* Every insert, remove and slab growth of hash.cc changes what lookups
\* return exactly as the abstract map does: an inserted key is found with
\* its value until removed, and no other key appears or disappears.
RefinesHashMap == HM!Spec

=============================================================================
