\* Class parsing with every allocation failure, then FindClass and main.
CONSTANTS
  Dexes <- MC_Dexes
  Queries <- MC_Queries
  MainName <- Main
  NR_CLASSES <- MC_NR_CLASSES
SPECIFICATION Spec
INVARIANT OatIndexAcrossGroups MainFindable LinkerHasLiveEnv CrashOnlyAfterFailure
