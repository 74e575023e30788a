CONSTANTS
  Hubs = {h1}
  Grids = {g1, g2}
  SlotUnits = 36
  MarginUnits = 2
  TtlUnits = 72
  DeadlineUnits = 4
  FireMarks = {0, 3, 15, 27}
  CalmCap = 17
  RecoveryUnits = 17
  LoadUnits = 6
SPECIFICATION Spec
SYMMETRY GridSymmetry
INVARIANTS TypeOK LoopEndsSoon RecoversInSlot
PROPERTIES ReportIsExact HousekeepingSparesCurrent
