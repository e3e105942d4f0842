SPECIFICATION FairRoutineSpec
CONSTANTS
  LayoutIds <- MCLayoutIds
  Files <- MCFiles
  Metrics = {"temperature"}
  Values = {"hot", "cold"}
  NoValue = NoValue
  Schedules <- BothSchedules
  Volatile = {2, 100}
  OverrideIds = {}
  Durations = {}
  Delays = {}
  UtcOffset = 0
  Ttls = {1}
  MaxTime = 4
  MaxRequests = 3
  Outcome <- AllLoad
  UnsafeTtl = 1
  MaxDepth = 10
INVARIANTS
  TypeOK
  QueueFresh
  SplashOnlyWithoutLayout
  OverlaysShownAreQueued
PROPERTIES
  ReloadTakesTopPriority
  EveryQueuedLayoutPlays
