SPECIFICATION BreakerFairSpec
CONSTANTS
  r1 = r1
  r2 = r2
  r3 = r3
  Requests <- MCRequests
  Failures = 2
  Cooldown = 2
  HalfOpenMax = 2
  Outcomes <- AllOutcomes
INVARIANTS
  ClosedCountsTheStreak
PROPERTIES
  TripHoldsForCooldown
  HalfOpenIsDecided
