SPECIFICATION FairSpec
CONSTANTS
  MediaIds = {11, 12, 13, 14}
  Durations = {0, 1, 2}
  GlobalStats = TRUE
  LayoutIds <- MCLayoutIds
  DocumentOf <- MCDocuments
  Queues <- MCQueues
  Seconds <- MCSeconds
  FaultTtls = {1}
  UnsafeRegionTtl = 1
  UnsafeMediaTtl = 2
  MaxRegions = 2
  MaxMedia = 2
  MaxAge = 2
  MaxTimer = 3
  MaxDepth = 8
  MaxRequests = 2
INVARIANTS
  PlaybackTypeOK
  OneMediumPerRegion
  StoppedIsSilent
  RegionKeepsMoving
  ExpiredLayoutIsOver
  MainLayoutsComeToRest
  LoadedHasContent
PROPERTY
  LayoutsEnd
