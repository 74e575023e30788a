CONSTANTS
  Lookups = {l1, l2}
  HasFallback = TRUE
  Cap = 2
  LastDay = 1
SPECIFICATION Spec
SYMMETRY LookupSymmetry
INVARIANT RefusalNotCached
CHECK_DEADLOCK FALSE
