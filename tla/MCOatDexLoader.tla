--------------------------- MODULE MCOatDexLoader ---------------------------
(* Containers of up to three embedded DEX files: one is the usual case,   *)
(* two make LlAddObjectToHead link its first and second node to each      *)
(* other, three add a node after that and a failure that frees the list. *)
EXTENDS OatDexLoader

MC_TwoDex == {2}
MC_AnyDex == 0 .. 3
MC_MaxParses == 4

=============================================================================
