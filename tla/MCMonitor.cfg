SPECIFICATION MonitorFairSpec
CONSTANTS
  Monitors = {"p5", "main", "save"}
  Width = 4
  MaxTicks = 5
  MaxFiles = 3
  Failures = {"signal", "open", "read", "format"}
INVARIANTS ShareExact
PROPERTIES OnlySaveStarves EndsByInterrupt
CHECK_DEADLOCK FALSE
