SPECIFICATION Spec
CONSTANTS
  LayoutIds <- MCLayoutIds
  Files <- MCFiles
  Metrics = {"temperature"}
  Values = {"hot", "cold"}
  NoValue = NoValue
  Schedules <- OneSchedule
  Volatile = {}
  OverrideIds = {5}
  Durations = {2}
  Delays = {0}
  UtcOffset <- MCWest
  Ttls = {}
  MaxTime = 4
  MaxRequests = 2
  Outcome <- AllLoad
  UnsafeTtl = 2
  MaxDepth = 10
INVARIANT OverridesAreTemporary
