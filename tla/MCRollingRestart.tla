-------------------------- MODULE MCRollingRestart --------------------------
\* The instances of RollingRestart that TLC checks.
EXTENDS RollingRestart, TLC

CONSTANTS r1, r2, o1, o2

TwoRequests == {r1, r2}
OneCall == {o1}
TwoCalls == {o1, o2}
Reloads == {"reload"}
RestartOrStop == {"restart", "stop"}
Symmetric == Permutations(TwoRequests) \cup Permutations(TwoCalls)
=============================================================================
