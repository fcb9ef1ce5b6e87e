SPECIFICATION Spec
CONSTANTS
  Gate = {"g", "h", "k"}
  MaxCrashes = 1
INVARIANTS
  NoStaleNotice
PROPERTIES
  EveryWaitNotified
CHECK_DEADLOCK FALSE
