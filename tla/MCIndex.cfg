CONSTANTS
  absent = absent
  Absent <- absent
  HashValues = {0, 1, 3, 6, 14, 15}
  Width = 16
  Extra = 1
  Offsets = {1}
  MayFail = TRUE
SPECIFICATION Spec
INVARIANTS
  TypeOK
  ProbesReach
  FitsUnlessWrapped
PROPERTIES
  ImplementsMap
CHECK_DEADLOCK FALSE
