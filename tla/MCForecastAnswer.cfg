CONSTANTS
  Marks <- MCMarks
  ShortHours = {5, 20, 23}
  LongHours = {20, 23}
  WholeHours = {20, 23}
  MidHours = {6, 18}
  ShortTtl = 6
  MidTtl = 24
  ShortLate = 4
  MidLate = 11
  Regions <- MCRegions
  Ranges <- MCRanges
  Horizon = 47
SPECIFICATION Spec
INVARIANT TypeOK
INVARIANT NeverOlder
INVARIANT NothingWithheld
INVARIANT CoversTheWeek
PROPERTY ExtremesKept
CHECK_DEADLOCK FALSE
