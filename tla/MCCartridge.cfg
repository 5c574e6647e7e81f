SPECIFICATION SpecLoader
CONSTANTS
  Images <- HeaderImages
  MaxLoads = 3
INVARIANTS HeapIsLoaded RunnableRom
CHECK_DEADLOCK FALSE
