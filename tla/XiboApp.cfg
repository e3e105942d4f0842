SPECIFICATION AppFairSpec
CONSTANTS
  Settings <- MCSettings
  FirstSettings <- Zmq
  Uris = {"ws", "wss"}
  DefaultEndpoint = "ws"
  CmsKey = "key"
  MaxThreads = 3
  Requesters = {"collector", "screenShot"}
  Clients = {"page"}
  Requests <- MCRequests
  Messages <- MCMessages
  MaxStimuli = 2
INVARIANTS
  AppTypeOK
  SubscribedAsConfigured
PROPERTIES
  EverythingEnds
