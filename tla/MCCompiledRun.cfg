SPECIFICATION FairSpec
CONSTANTS
  Kernels <- MCKernels
  PipeCapacity = 2
INVARIANTS
  TypeOK
  OnlyFinishedRunsCount
  ChildConfined
PROPERTY
  CallReturns
