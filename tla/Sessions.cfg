SPECIFICATION Spec
CONSTANTS
  Threads = {w1, w2}
  NoThread = NoThread
  Failing <- AllFaults
  MaxFailures = 1
  MaxVersion = 2
  MaxPending = 1
  MaxLeaked = 0
  MaxCrashes = 1
  AFewRecords = 1
  ManyRecords = 2
  LargeBatch = 2
  MaxRecords = 3
INVARIANTS
  RunningHasWorker
  SentIsRemoved
PROPERTIES
  RemovedWhenRead
  SentOnce
  FollowsTheCms
CHECK_DEADLOCK FALSE
