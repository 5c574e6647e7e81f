SPECIFICATION MCSpec
CONSTANTS
  Cartridges <- AllCartridges
  StrayBytes <- ZeroOnly
  StepCount = 320
  CounterMod = 1000
INVARIANTS TypeOK FetchWindow FetchedFromMemory ExecCycleBound LatencyBound HaltReason FramesIntact
PROPERTIES ImplementsIsa ReturnsToCaller
CHECK_DEADLOCK FALSE
