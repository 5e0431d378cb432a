SPECIFICATION FairSpec
CONSTANTS
  Block = 2
  WBlocks = 2
  RBlocks = 4
  DevBlocks = 6
  AppendLens = {0, 1}
  ReadLens = {0, 2}
  MaxLog = 6
  Faults = {}
PROPERTY ImplementsLog
