CONSTANTS
  Clients = {main}
  Controller = main
  Free = Free
  MaxThreads = 1
  MaxPackets = 1
  MaxPoints = 1
  Room = 1
SPECIFICATION Spec
INVARIANT ConnectEstablishes
