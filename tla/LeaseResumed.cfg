SPECIFICATION FairSpec
CONSTANTS
  Driver = {"q", "r", "s"}
  Process = {"p", "o"}
  Proc <- PairAndOne
  Inode = {"i1", "i2", "i3", "i4"}
  None = "none"
  StartsFresh = TRUE
  OpenMayFail = TRUE
  MaxCrashes = 1
INVARIANTS
  ExclusiveInProcess
  SameFileExcludes
  FreeWhenQuiet
PROPERTIES
  RunIsDriven
CHECK_DEADLOCK FALSE
