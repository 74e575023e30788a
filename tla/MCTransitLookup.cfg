CONSTANTS
  Lookups = {l1, l2}
  HasFallback = TRUE
  Cap = 2
  LastDay = 1
SPECIFICATION Spec
SYMMETRY LookupSymmetry
INVARIANTS TypeOK RequestsWithinCap AnswersAreTrue RefusedOnlyWhenFull
PROPERTY BudgetSpec
CHECK_DEADLOCK FALSE
