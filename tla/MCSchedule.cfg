SPECIFICATION Spec
CONSTANTS
  MaxUsize = 16
  MaxI64 = 8
  MaxLoopVar = 8
  Graphs <- MCGraphs
  TileSizes = {1, 2}
  MaxMoves = 3
INVARIANTS
  IndicesClosed
  ParallelMeansIndependent
  KernelComputesGraph
  ProgramComputesKernel
CHECK_DEADLOCK FALSE
