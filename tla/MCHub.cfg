SPECIFICATION MCSpec
CONSTANTS
  Hubs = {h1, h2}
  Versions = {"v1", "v2"}
  Requests = {r1, r2}
  MaxPages = 2
  Companies = {k1, k2}
  LongUnits = 4
  HoursPerDay = 3
  MaxAge = 2
  MaxGap = 1
  RetentionDays = 2
  LastHour = 7
  Stations = {s1, s2}
  InCity = {s1}
  AirMaxAge = 3
  LastAirHour = 3
  LastCourse = 4
  NumRows = 2
  MaxCoursePages = 3
  MaxRestarts = 2
  RowKeys = {1, 2, 3, 4}
  PageRows = 2
  MaxKmaPages = 2
  StartupTasks = {t1, t2}
  JobTasks = {j1}
  RunNowTasks = {n1}
  PathKinds <- MCPathKinds
  MaxPaths = 3
  MaxOptions = 2
  Dominance = 80
INVARIANTS HubTypeOK OkHoldsAllSought ForgetsTrouble LegsOfConfiguredData
INVARIANTS WeatherIsHonest WholeEdition EngineOutlivesStartup TransitIsDrawnTrue
PROPERTIES CoursesMadeGood EditionNeverRegresses
CHECK_DEADLOCK FALSE
