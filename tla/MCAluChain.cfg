SPECIFICATION Spec
CONSTANTS
  Operands <- Boundaries
  MaxBytes = 3
INVARIANTS AddChainExact SubChainAccount
CHECK_DEADLOCK FALSE
