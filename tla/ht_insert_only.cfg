\* The class linker's use of a table: inserts only, across slab growth.
CONSTANTS
  v1 = v1
  v2 = v2
  NR <- MC_NR
  MaxSlabs <- MC_MaxSlabs
  Keys <- MC_Keys
  Vals <- MC_Vals
SPECIFICATION SpecInsertOnly
INVARIANT NoDuplicateKeys

PROPERTY RefinesHashMap
