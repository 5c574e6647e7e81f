SPECIFICATION Spec
CONSTANTS
  FRAME_INTERVAL = 3
  MaxTime = 18
INVARIANTS NeverAhead SleepBounded
PROPERTY NoBurst
CHECK_DEADLOCK FALSE
