CONSTANTS
  Marks <- MCMarks
  ShortHours = {5, 17, 20}
  LongHours = {17, 20}
  WholeHours = {17, 20}
  MidHours = {6, 18}
  ShortTtl = 6
  MidTtl = 24
  ShortLate = 4
  MidLate = 11
  Regions <- MCRegions
  Ranges <- MCRanges
  Horizon = 45
SPECIFICATION Spec
INVARIANT OverlapIsWhole
CHECK_DEADLOCK FALSE
