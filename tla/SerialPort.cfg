CONSTANTS
  Readers = {scan, caller}
  Wants = {1, 3, 4}
  MaxQueue = 4
  MaxCancels = 2
SPECIFICATION FairSpec
INVARIANTS
  TypeOK
  NoDescriptorLeaks
  PromisedBytesAreThere
  SelectsOnOpenPort
PROPERTIES
  WaitEnds
