CONSTANTS
  SZ_SLOT <- MC_SZ_SLOT
  NBits <- MC_NBits
  NR_HASH_TBL <- MC_NR_HASH_TBL
  CNT_RANGE <- MC_CNT_RANGE
  Sizes <- MC_SizesLinker
  MaxEntries <- MC_MaxEntriesLinker
  MaxLive <- MC_MaxLive
SPECIFICATION SpecAllocOnly
INVARIANT TypeOK NoOverlap AllocedMatchesBitmap  HeapSizesAgree RefusesOnlyWhenNoRoom
