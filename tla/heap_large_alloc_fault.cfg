\* A HeapAlloc of CNT_RANGE slots or more: the uint8_t mark counter wraps.
CONSTANTS
  SZ_SLOT <- MC_SZ_SLOT
  NBits <- MC_NBits
  NR_HASH_TBL <- MC_NR_HASH_TBL
  CNT_RANGE <- MC_CNT_RANGE
  Sizes <- MC_SizesLarge
  MaxEntries <- MC_MaxEntries
  MaxLive <- MC_MaxLiveChurn
SPECIFICATION SpecAllocOnly
INVARIANT NoAllocFault
