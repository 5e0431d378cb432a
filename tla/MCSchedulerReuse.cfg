CONSTANTS
  MaxThreads = 4
  Yields = {1}
  MaxBatches = 2
  MinThreads = 2
SPECIFICATION Spec
PROPERTY ReturnsAfterAll
CHECK_DEADLOCK FALSE
