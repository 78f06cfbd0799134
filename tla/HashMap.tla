------------------------------ MODULE HashMap ------------------------------
(***************************************************************************)
(* What the hash table of src/hash.cc promises its callers (spec.md 4.1    *)
(* and 8): a finite map from non-zero keys to values.  An insert of an     *)
(* absent key makes lookup return the inserted value until the key is      *)
(* removed; an insert of a present key, or one that runs out of memory,    *)
(* changes nothing; a remove makes lookup miss.  No other key is touched.  *)
(***************************************************************************)
EXTENDS Naturals, TLC

CONSTANTS Keys, Vals

VARIABLE map

Init == map = [k \in {} |-> 0]

Insert(k, v) ==
  /\ k \notin DOMAIN map
  /\ map' = map @@ (k :> v)

Remove(k) ==
  /\ k \in DOMAIN map
  /\ map' = [x \in DOMAIN map \ {k} |-> map[x]]

Next == \E k \in Keys, v \in Vals : Insert(k, v) \/ Remove(k)

Spec == Init /\ [][Next]_map

=============================================================================
