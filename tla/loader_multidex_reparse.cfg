CONSTANTS
  DexCounts <- MC_TwoDex
  MaxParses <- MC_MaxParses
SPECIFICATION Spec
INVARIANT ParsedOnce
