SPECIFICATION Spec
CONSTANTS
  r1 = r1
  r2 = r2
  r3 = r3
  s1 = s1
  Requests <- ThreeRequests
  Sessions <- OneSession
  Cap = 2
  MaxMessages = 2
INVARIANTS
  EnoughAnswers
PROPERTIES
  SessionInOrder
CHECK_DEADLOCK FALSE
