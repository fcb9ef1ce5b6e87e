SPECIFICATION Spec
CONSTANTS
  Step <- LoopStep
  NoStep = "none"
  Gate = {"g"}
  Deps <- LoopDeps
  DescendantsOf <- LoopDescendants
  Layers <- LoopLayers
  YamlOrder <- LoopYaml
  Options <- LoopOptions
  MaxVisits <- LoopVisits
  Retry <- LoopRetry
  FailFast = TRUE
  Suspends = {"after", "erring"}
  Operations = {"retry", "edit", "cancel"}
  OperatorOverlaps = FALSE
  CrashPoints = {"await", "create", "gate", "reset"}
  MaxCrashes = 1
INVARIANTS
  TypeOK
  ExecutesAfterDeps
  FreshInputs
  StatusTellsTheSteps
PROPERTIES
  WorkLostOnlyToCancel
  ImplementsDataflow
CHECK_DEADLOCK FALSE
