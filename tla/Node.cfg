CONSTANTS
  Clients = {main}
  Controller = main
  Free = Free
  MaxThreads = 1
  MaxPackets = 2
  MaxPoints = 2
  Room = 3
SPECIFICATION FairNodeSpec
INVARIANTS
  NodeTypeOK
  CleanExit
  NoScanDiscarded
PROPERTIES
  NodeReturns
  ScansAreTaken
