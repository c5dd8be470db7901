-------------------------- MODULE MCHealthMonitor --------------------------
\* The instances of HealthMonitor that TLC checks.
EXTENDS HealthMonitor, TLC

CONSTANTS l1, l2, c1

TwoLoops == {l1, l2}
OneCall == {c1}
Symmetric == Permutations(TwoLoops)
ReloadAndStop == {"reload", "shutdown"}
=============================================================================
