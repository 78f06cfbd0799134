\* LEB128, the class-data walk and the key/value store against their references.
CONSTANTS
  Alphabet <- MC_Alphabet
  MaxLen <- MC_MaxLen
  FieldRecs <- MC_FieldRecs
  MethodRecs <- MC_MethodRecs
  MaxGroup <- MC_MaxGroup
  OatClasses <- MC_OatClasses
  KvStrings <- MC_KvStrings
  MaxPairs <- MC_MaxPairs
  IdSections <- MC_IdSections
  CoatImages <- MC_CoatImages
SPECIFICATION Spec
INVARIANT DecodeMatchesReference ClassDataWalkMatches StoreLookupMatches LinkerStringsResolve CoatgenCompressesLinkedCode CoatPackagesDisjoint
