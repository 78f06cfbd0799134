CONSTANTS
  SZ_SLOT <- MC_SZ_SLOT
  NBits <- MC_NBits
  NR_HASH_TBL <- MC_NR_HASH_TBL
  CNT_RANGE <- MC_CNT_RANGE
  Sizes <- MC_Sizes
  MaxEntries <- MC_MaxEntries
  MaxLive <- MC_MaxLiveChurn
SPECIFICATION Spec
INVARIANT NoOverlap
