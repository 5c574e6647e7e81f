SPECIFICATION Spec
CONSTANTS
  Cartridges <- SaveRamCartridges
  StrayBytes <- NopOrHlt
  StepCount = 120
  CounterMod = 1000
INVARIANT SaveRamReachable
CHECK_DEADLOCK FALSE
