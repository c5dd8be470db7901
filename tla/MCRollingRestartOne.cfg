SPECIFICATION FairSpec
CONSTANTS
  r1 = r1
  r2 = r2
  o1 = o1
  o2 = o2
  Requests <- TwoRequests
  Ops <- OneCall
  Kinds <- RestartOrStop
  MayTimeOut = FALSE
  MayFail = FALSE
INVARIANTS
  EveryProcessIsTracked
PROPERTIES
  HandsOver
  EveryCallEnds
  RestartedWorkerConnects
