SPECIFICATION Spec
CONSTANTS
  r1 = r1
  r2 = r2
  o1 = o1
  Requests <- TwoRequests
  Replacers <- OneReplacer
  Replicas = 2
  MaxPoolSize = 2
  Strategies <- BothStrategies
  MaxStamps = 3
  MaxReports = 1
INVARIANTS
  CountIsRequests
  NoProcessLost
  EvenWhenCalm
  PoolIsBounded
SYMMETRY Alike
