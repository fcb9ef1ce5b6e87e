SPECIFICATION FairSpec
CONSTANTS
  Last = 2
  MaxVisits = 2
  Retry = 1
  AlwaysParsed = {1}
  RaisesWhen = {"before", "after"}
  MaxFaults = 3
INVARIANTS
  CanGoOn
  ParsedIsOfOutput
  StartsBounded
  LateStartsBounded
PROPERTIES
  CallEnds
CHECK_DEADLOCK FALSE
