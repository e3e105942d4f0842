SPECIFICATION Spec
CONSTANTS
  LayoutIds <- MCLayoutIds
  Files <- MCFiles
  Metrics = {"temperature"}
  Values = {"hot"}
  NoValue = NoValue
  Schedules <- BothSchedules
  Volatile = {}
  OverrideIds = {1, 2, 5}
  Durations = {0, 2}
  Delays = {0, 2}
  UtcOffset = 0
  Ttls = {1}
  MaxTime = 4
  MaxRequests = 3
  Outcome <- Faulty
  UnsafeTtl = 9
  MaxDepth = 9
INVARIANTS
  CursorInQueue
  TimerCoversBoundaries
  OverrideIsLive
  LiveOverrideShown
  BoundedRecursion
