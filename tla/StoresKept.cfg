SPECIFICATION HostSpec
CONSTANTS
  Run = {"v", "w"}
  Process = {"p", "q"}
  None = "none"
  SameTick = TRUE
  FailsWhen = {"applied", "replaced"}
  MaxWrites = 3
  MaxDeaths = 1
  RunId = {"v", "w"}
  KeepsReference = TRUE
  RaisesWhen = {"before", "after"}
  MaxCalls = 4
INVARIANTS
  CacheCurrent
  ReadersSeeConfirmed
  RestartFindsConfirmed
PROPERTIES
  ImplementsSharedStore
CHECK_DEADLOCK FALSE
