SPECIFICATION FairSpec
CONSTANTS
  Inputs = {1, 2}
  Worlds <- MCWorlds
  Configs <- MCConfigs
  SmallSort = 3
  Failed = Failed
INVARIANTS
  MovesReplay
  OutcomeConsistent
PROPERTIES
  TakesCheapestMove
  RestartsOnlyRepeat
  ImplementsSoundOptimizer
  TuningReturns
CHECK_DEADLOCK FALSE
