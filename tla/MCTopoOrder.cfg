SPECIFICATION FairSpec
CONSTANT
  Arenas <- MCArenas
INVARIANTS
  TypeOK
  OrderIsTopological
  VerdictIsRight
PROPERTY
  SortReturns
CHECK_DEADLOCK FALSE
