SPECIFICATION Spec
CONSTANTS
  Names <- FourNames
  MaxDeps = 2
  MaxMemories = 4
  MaxHops = 2
  MaxEdits = 2
INVARIANTS
  SearchIsReachability
  LayersAreTopological
  ValidFlowIsRunnable
  ReferencesResolve
  MemoryIsCurrent
  ResumeRunsSameFlow
CHECK_DEADLOCK FALSE
