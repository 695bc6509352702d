SPECIFICATION Spec
CONSTANTS
  MaxUsize = 8
  Graphs <- MCGraphs
  Configs <- MCConfigs
  Draws <- MCDraws
INVARIANTS
  CandidateWellFormed
  StrictAccepts
PROPERTY
  ImplementsSoundOptimizer
CHECK_DEADLOCK FALSE
