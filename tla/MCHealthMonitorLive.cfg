SPECIFICATION FairSpec
CONSTANTS
  l1 = l1
  l2 = l2
  c1 = c1
  None = None
  Root = Root
  Done = Done
  Loops <- TwoLoops
  Calls <- OneCall
  Troubles <- ReloadAndStop
  MissedThreshold = 1
PROPERTIES
  WorkerIsListened
  HeardWorkerRecovers
  LoopsEndOnShutdown
CHECK_DEADLOCK FALSE
