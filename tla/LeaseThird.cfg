SPECIFICATION Spec
CONSTANTS
  Driver = {"q", "r"}
  Process = {"q", "r"}
  Proc <- OwnProcess
  Inode = {"i1", "i2", "i3", "i4"}
  None = "none"
  StartsFresh = FALSE
  OpenMayFail = FALSE
  MaxCrashes = 0
INVARIANTS
  OneDriver
CHECK_DEADLOCK FALSE
