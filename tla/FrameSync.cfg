CONSTANTS
  Streams <- MCStreams
  MaxParam = 9
SPECIFICATION Spec
INVARIANTS
  TypeOK
  FrameIsWhole
  NothingDropped
  NextFrameIsFound
