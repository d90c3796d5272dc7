CONSTANTS
  Calls <- FrameTCalls
  Streams <- FrameTStreams
  Stacks <- MCStacks
  Ring = 512
  MaxLen = 100
  MaxPiece = 411
  Wrap = 4
  MaxLag = 1
  MaxStall = 1
SPECIFICATION Spec
INVARIANT FrameTFound
