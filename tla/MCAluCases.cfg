SPECIFICATION Spec
CONSTANT Operands <- AllBytes
INVARIANTS CarryExact OverflowExact CompareDecides ShiftLosesNothing
CHECK_DEADLOCK FALSE
