CONSTANTS
  Clients = {main, reader}
  Controller = main
  Free = Free
  MaxThreads = 1
  MaxPackets = 3
  MaxPoints = 1
  Room = 1
SPECIFICATION FairSpec
PROPERTIES
  IsMailbox
  StopReturns
