SPECIFICATION Spec
CONSTANTS
  Run = {"v", "w"}
  Process = {"p", "q"}
  None = "none"
  SameTick = FALSE
  FailsWhen = {"applied"}
  MaxWrites = 3
  MaxDeaths = 1
INVARIANTS
  WritesFromFile
CHECK_DEADLOCK FALSE
