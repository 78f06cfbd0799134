------------------------- MODULE MCDecompressedCode -------------------------
(* Three hashes over a bitmap of three slots, so that a freed slot is      *)
(* handed to another hash; requests of one slot (pool.cc's 32 bytes), so   *)
(* that only a restart, not the scan of Alloc, can make records disagree   *)
(* with the bitmap; three process runs: save, reopen and change, reopen.   *)
EXTENDS DecompressedCode

MC_Hashes      == {1, 2, 3}
MC_SizesOneSlot == {32}
MC_SlotSize    == 64
MC_NBits       == 3
MC_MaxSessions == 3

=============================================================================
