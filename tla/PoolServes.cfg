SPECIFICATION FairSpec
CONSTANTS
  Call = {"a", "b", "c", "d"}
  Worker = {"v", "w"}
  None = "none"
  Hangs = {"a"}
  Kills = {"b"}
INVARIANTS
  ServedOnce
PROPERTIES
  OutcomeIsFinal
  EveryCallRuns
  EveryCallReturns
CHECK_DEADLOCK FALSE
