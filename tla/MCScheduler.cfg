CONSTANTS
  MaxThreads = 5
  Yields = {0, 1, 2, 3}
  MaxBatches = 1
  MinThreads = 0
SPECIFICATION FairSpec
INVARIANT ContextsKept
PROPERTIES
  ReturnsAfterAll
  RoundRobin
  ReturnsIffSurvivable
CHECK_DEADLOCK FALSE
