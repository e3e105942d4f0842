SPECIFICATION RoutineSpec
CONSTANTS
  LayoutIds <- MCLayoutIds
  Files <- MCFiles
  Metrics = {"temperature"}
  Values = {"hot", "cold"}
  NoValue = NoValue
  Schedules <- OneSchedule
  Volatile = {}
  OverrideIds = {}
  Durations = {}
  Delays = {}
  UtcOffset = 0
  Ttls = {}
  MaxTime = 4
  MaxRequests = 2
  Outcome <- Hollow
  UnsafeTtl = 2
  MaxDepth = 10
INVARIANT SplashOnlyWithoutLayout
