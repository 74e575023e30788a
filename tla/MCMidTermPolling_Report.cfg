CONSTANTS
  g1 = g1
  g2 = g2
  land = land
  temp1 = temp1
  temp2 = temp2
  NoReg = noReg
  Grids = {g1, g2}
  LandRegs = {land}
  TempRegs = {temp1, temp2}
  LandOf <- MCLandOf
  TempOf <- MCTempOf
  EditionUnits = 12
  DeadlineUnits = 2
  WatchMarks = {1, 7}
  CalmCap = 16
  RecoveryUnits = 16
  LoadUnits = 4
SPECIFICATION Spec
PROPERTY ReportByKind
