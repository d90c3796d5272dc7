CONSTANTS
  Teeth = 4
  Jitters = {0, 7}
  ParamLens <- MCParamLens
  U16 = 16
  Capacity = 8
  MaxLoss = 2
  MaxTurns = 3
  MaxRestarts = 1
SPECIFICATION Spec
INVARIANTS
  TypeOK
  NoOverrun
  TurnIsWhole
  EveryOtherTurn
