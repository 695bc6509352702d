SPECIFICATION Spec
CONSTANTS
  Inputs = {1, 2}
  Worlds <- MCWorlds
  Configs <- MCConfigs
  SmallSort = 3
  Failed = Failed
INVARIANT
  CountsGatedCandidates
CHECK_DEADLOCK FALSE
