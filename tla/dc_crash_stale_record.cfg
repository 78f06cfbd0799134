\* The code cache across process runs that may die before the destructor.
CONSTANTS
  Hashes <- MC_Hashes
  Sizes <- MC_SizesOneSlot
  SlotSize <- MC_SlotSize
  NBits <- MC_NBits
  MaxSessions <- MC_MaxSessions
SPECIFICATION Spec
INVARIANT RecordsOwnTheirSlots
