SPECIFICATION Spec
CONSTANTS
  Step <- LoopStep
  NoStep = "none"
  Gate = {"g"}
  Deps <- LoopDeps
  DescendantsOf <- LoopDescendants
  Layers <- LoopLayers
  YamlOrder <- LoopYaml
  Options <- LoopOptions
  MaxVisits <- LoopVisits
  Retry <- LoopRetry
  FailFast = TRUE
  Suspends = {"after"}
  Operations = {}
  OperatorOverlaps = FALSE
  CrashPoints = {}
  MaxCrashes = 0
PROPERTIES
  CompletedWorkKept
CHECK_DEADLOCK FALSE
