CONSTANTS
  HoursPerDay = 3
  MaxAge = 2
  MaxGap = 1
  RetentionDays = 2
  LastHour = 8
SPECIFICATION WeatherSpec
INVARIANT ComparedWhenKept
CHECK_DEADLOCK FALSE
