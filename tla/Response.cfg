CONSTANTS
  Calls <- MCCalls
  Streams <- MCStreams
  Stacks <- MCStacks
  Ring = 28
  MaxLen = 14
  MaxPiece = 13
  Wrap = 4
  MaxLag = 1
  MaxStall = 1
SPECIFICATION Spec
INVARIANTS
  TypeOK
  CommandIsFrame
  RingHolds
  AcceptsOnlyAnswers
  AnswersAreSeen
  NoAnswerLeftBehind
  ResponseInTime
