SPECIFICATION FairSpec
CONSTANTS
  Cartridges <- BootCartridges
  StrayBytes <- ZeroOnly
  StepCount = 1
  CounterMod = 1
PROPERTIES BootHandsOff InstructionsEnd
CHECK_DEADLOCK FALSE
