SPECIFICATION ResumedSpec
CONSTANTS
  Step <- ReviewStep
  NoStep = "none"
  Gate = {"g", "h"}
  Deps <- ReviewDeps
  DescendantsOf <- ReviewDescendants
  Layers <- ReviewLayers
  YamlOrder <- ReviewYaml
  Options <- ReviewOptions
  MaxVisits <- ReviewVisits
  Retry <- ReviewRetry
  FailFast = TRUE
  Suspends = {"before", "after", "ask", "notify", "decided", "erring"}
  Operations = {"retry", "cancel", "host_cancel"}
  OperatorOverlaps = TRUE
  CrashPoints = {"await"}
  MaxCrashes = 1
PROPERTIES
  WorkEndsStored
  TerminateEndsDrive
  NoQuestionLeft
  DriveEnds
  EveryRunEnds
CHECK_DEADLOCK FALSE
