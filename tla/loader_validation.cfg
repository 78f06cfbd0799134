CONSTANTS
  DexCounts <- MC_AnyDex
  MaxParses <- MC_MaxParses
SPECIFICATION Spec
INVARIANT AcceptsOnlyWellFormed
