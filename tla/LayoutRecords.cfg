SPECIFICATION Spec
CONSTANTS
  Threads = {w1, w2}
  NoThread = NoThread
  Failing = {}
  MaxFailures = 0
  MaxVersion = 0
  MaxPending = 1
  MaxLeaked = 0
  MaxCrashes = 0
  AFewRecords = 1
  ManyRecords = 2
  LargeBatch = 2
  MaxRecords = 2
INVARIANT
  RecordsAreKept
CHECK_DEADLOCK FALSE
