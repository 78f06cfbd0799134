---------------------------- MODULE KeyValueStore ----------------------------
(***************************************************************************)
(* GetStoreKeyValuePairByIndex of src/utils.cc: the index-th key/value     *)
(* pair of an OAT header's key_value_store_, found by scanning the store's *)
(* key_value_store_size_ bytes for NUL-terminated strings.  A store is a   *)
(* sequence of byte values; a pointer is a 1-based position in it, and end *)
(* is one past its last byte.  The result gives the positions *key and     *)
(* *value are set to.                                                      *)
(***************************************************************************)
EXTENDS Naturals, Sequences
LOCAL INSTANCE SequencesExt

\* ParseString(start, end): the first NUL at or after start, or end.
ParseString(kv, start, end) ==
  LET nuls == { i \in start .. end - 1 : kv[i] = 0 }
  IN  IF nuls = {} THEN end ELSE Min(nuls)

\* The check that the value's NUL lies in the store left out.
ValueInStoreUnchecked(ptr, end) == TRUE

\* if (ptr <= end): the value's terminating NUL is inside the store.
ValueInStore(ptr, end) == ptr <= end

NotFound == [found |-> FALSE, key |-> 0, value |-> 0]

\* The while loop, from ptr with counter pairs still to skip.
RECURSIVE ScanPairs(_, _, _, _)
ScanPairs(kv, ptr, end, counter) ==
  IF ~(ptr < end /\ counter >= 0) THEN NotFound
  ELSE LET str_end == ParseString(kv, ptr, end)
       IN  IF str_end >= end THEN NotFound
           ELSE LET next == ParseString(kv, str_end + 1, end) + 1
                IN  IF ~ValueInStore(next, end) THEN NotFound
                    ELSE IF counter = 0
                         THEN [found |-> TRUE, key |-> ptr, value |-> str_end + 1]
                         ELSE ScanPairs(kv, next, end, counter - 1)

GetStoreKeyValuePairByIndex(kv, index) == ScanPairs(kv, 1, Len(kv) + 1, index)

-----------------------------------------------------------------------------
(* The reference: the OAT writer lays each pair out as the key, a NUL, the *)
(* value and a NUL, neither string holding a NUL.  Pair j (from 0) starts  *)
(* after the 2j-th NUL and its value after the (2j+1)-th; it is in the     *)
(* store when its second NUL is.                                           *)

NulPositions(kv) == SetToSortSeq({ i \in 1 .. Len(kv) : kv[i] = 0 }, <)

RefPair(kv, j) ==
  LET z == NulPositions(kv)
  IN  IF Len(z) < 2 * j + 2 THEN NotFound
      ELSE [found |-> TRUE,
            key   |-> IF j = 0 THEN 1 ELSE z[2 * j] + 1,
            value |-> z[2 * j + 1] + 1]

\* A store of pairs of strings, as written.
EncodeStore(pairs) ==
  FlattenSeq([j \in DOMAIN pairs |-> pairs[j][1] \o << 0 >> \o pairs[j][2] \o << 0 >>])

=============================================================================
