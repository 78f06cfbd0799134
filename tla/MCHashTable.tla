---------------------------- MODULE MCHashTable ----------------------------
(* Model-checking instance of HashTableSpec: slabs of two slots, so that  *)
(* four keys fill two slabs and a third slab can be refused.              *)
EXTENDS HashTableSpec

CONSTANTS v1, v2

MC_NR       == 2
MC_MaxSlabs == 3
MC_Keys     == 1 .. 4
MC_Vals     == {v1, v2}

=============================================================================
