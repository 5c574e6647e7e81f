SPECIFICATION Spec
CONSTANTS
  Operands <- Boundaries
  MaxBytes = 3
INVARIANT SubChainExact
CHECK_DEADLOCK FALSE
