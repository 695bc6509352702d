SPECIFICATION Spec
CONSTANTS
  MaxUsize = 8
  Zero = 0
  Plus <- IntPlus
  Minus <- IntMinus
  Times <- IntTimes
  Negate <- IntNegate
  IsPositive <- IntIsPositive
  LiftLiteral <- RealOf
  IsFinite <- IsFiniteFloat
  Names = {"x"}
  DTypes = {"f64", "bool"}
  Shapes <- MCShapes
  Payloads <- MCPayloads
  AxisLists <- MCAxisLists
  Environments <- MCEnvironments
  MaxNodes = 3
  MaxOutputs = 1
INVARIANTS
  TypeOK
  BuildFindsOnlyMissingOutputs
  InputListIsInputNodes
  InternalErrorsOnlyFromOverflow
  SumAddsEachSliceOnce
CHECK_DEADLOCK FALSE
