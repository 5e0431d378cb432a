SPECIFICATION Spec
CONSTANTS
  Sizes23 = {950, 2300}
  Sizes3 = {150}
  JunkCounters = {0, 67}
  Words = {1, 2, 3, 4, 5, 6}
  Letters <- MCLetters
  MaxItems <- MCMaxItems
  MaxCrashes = 1
CHECK_DEADLOCK FALSE
INVARIANTS TypeOK TreeOrdered CountsExact
PROPERTIES CommittedStay CallsSurvive ImplementsBag
