SPECIFICATION Spec
CONSTANTS
  MaxUsize = 3
  Zero = 0
  Plus <- IntPlus
  Minus <- IntMinus
  Times <- IntTimes
  Negate <- IntNegate
  IsPositive <- IntIsPositive
  LiftLiteral <- RealOf
  IsFinite <- IsFiniteFloat
  MAX_RANK = 2
  Configs <- MCConfigs
  Literal <- One
INVARIANTS
  GeneratedIsWellTyped
  InputsFitGraph
  PatternFires
CHECK_DEADLOCK FALSE
