SPECIFICATION Spec
CONSTANTS
  MaxUsize = 8
  IsZeroLiteral <- IsZero
  Attributes <- MCAttributes
  Graphs <- MCGraphs
  RuleLists <- MCRuleLists
  StepCaps = {3, 9}
INVARIANTS
  TypeOK
  NeverFails
  SignatureKept
  NoDeadNodes
  FixpointHasNoRedex
PROPERTIES
  RewritesProgress
  ImplementsSoundOptimizer
CHECK_DEADLOCK FALSE
