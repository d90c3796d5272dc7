CONSTANTS
  Clients = {main, reader}
  Controller = main
  Free = Free
  MaxThreads = 2
  MaxPackets = 3
  MaxPoints = 1
  Room = 1
SPECIFICATION Spec
INVARIANTS
  TypeOK
  OneScanThread
  ScanningHasThread
  CommandAlone
  NoLostScan
  PublishedIntact
  CopyUntorn
