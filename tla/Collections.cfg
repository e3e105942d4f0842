SPECIFICATION FairSpec
CONSTANTS
  Threads = {w1, w2, w3}
  NoThread = NoThread
  Failing <- AllFaults
  MaxFailures = 1
  MaxVersion = 1
  MaxPending = 1
  MaxLeaked = 1
  MaxCrashes = 1
  AFewRecords = 1
  ManyRecords = 2
  LargeBatch = 2
  MaxRecords = 1
INVARIANTS
  CollectionTypeOK
  WorkersAreOwned
  NeverStranded
PROPERTY
  LastScheduleArrives
CHECK_DEADLOCK FALSE
