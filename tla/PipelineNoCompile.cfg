SPECIFICATION Spec
CONSTANT
  MaxNodes = 1
INVARIANT
  NoCompileSkipsCompilation
CHECK_DEADLOCK FALSE
