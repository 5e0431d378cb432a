SPECIFICATION Spec
CONSTANTS
  Block = 2
  WBlocks = 2
  RBlocks = 4
  DevBlocks = 5
  AppendLens = {0, 1, 3}
  ReadLens = {0, 1, 2}
  MaxLog = 8
  Faults = {"read", "write"}
INVARIANTS
  NoLostWakeup
  NoByteLost
  FlushedStays
  CacheCoherent
  ReadsExact
  CloseFlushes
  AbortsNearEnd
