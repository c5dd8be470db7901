SPECIFICATION Spec
CONSTANTS
  l1 = l1
  l2 = l2
  c1 = c1
  None = None
  Root = Root
  Done = Done
  Loops <- TwoLoops
  Calls <- OneCall
  Troubles <- AllTroubles
  MissedThreshold = 2
SYMMETRY Symmetric
INVARIANTS
  TrackedLoopIsLive
CHECK_DEADLOCK FALSE
