CONSTANTS
  a = a
  b = b
  c = c
  Calls <- MCCalls
  Amount <- MCAmount
  Cap = 3
  LastDay = 1
SPECIFICATION PhotosSpec
SYMMETRY AlikeSymmetry
INVARIANTS PhotosTypeOK CapHolds CounterSettles NoEternalCounter UrlsWithinCap
PROPERTY BudgetSpec
CHECK_DEADLOCK FALSE
