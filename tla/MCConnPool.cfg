SPECIFICATION FairSpec
CONSTANTS
  k1 = k1
  k2 = k2
  k3 = k3
  c1 = 1
  c2 = 2
  c3 = 3
  c4 = 4
  None = None
  Callers <- ThreeCallers
  Conns <- FourConns
  MinSize = 1
  MaxSize = 2
  MaxReplenish = 1
  Overlap = FALSE
INVARIANTS
  BooksBalance
  OneOwner
  OverrunIsBounded
PROPERTIES
  LendsAsPromised
  ClosedPoolDrains
CHECK_DEADLOCK FALSE
