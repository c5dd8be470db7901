-------------------------- MODULE MCCircuitBreaker --------------------------
\* The instances of CircuitBreaker that TLC checks.
EXTENDS CircuitBreaker

CONSTANTS r1, r2, r3

MCRequests == {r1, r2, r3}
AllOutcomes == Results
=============================================================================
