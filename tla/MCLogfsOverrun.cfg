SPECIFICATION Spec
CONSTANTS
  Block = 2
  WBlocks = 2
  RBlocks = 4
  DevBlocks = 6
  AppendLens = {3}
  ReadLens = {1}
  MaxLog = 6
  Faults = {}
INVARIANTS
  ReadsCorrect
