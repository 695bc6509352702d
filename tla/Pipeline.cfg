SPECIFICATION Spec
CONSTANT
  MaxNodes = 2
INVARIANTS
  CheckedReportAgrees
  MissingCompilerIsNoError
CHECK_DEADLOCK FALSE
