CONSTANTS
  short = short
  long1 = long1
  long2 = long2
  other = other
  none = none
  absent = absent
  NoLen <- none
  Absent <- absent
  Keys <- MCKeys
  Hashes <- MCHashes
  Hash <- MCHash
  KeyLen <- MCKeyLen
  KeyHead <- MCKeyHead
  Bytes <- MCBytes
  Vals <- MCVals
  Buffers <- MCBuffers
  MaxRecords = 5
  AnyRecords = 4
  AnyVals <- MCAnyVals
  KEY = short
  VAL1 <- MCVal1
  VAL2 <- MCVal2
  VAL3 <- MCVal3
  Rewrites <- MCRewrites
  Objects <- MCObjects
  Object <- MCObject
  Room = 2
  Faults = {"read", "memory", "device", "thread"}
SPECIFICATION TestSpec
INVARIANTS
  OpenReturns
CHECK_DEADLOCK FALSE
