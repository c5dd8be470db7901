------------------------- MODULE MCResponseRouting -------------------------
\* The instance of ResponseRouting that TLC checks.
EXTENDS ResponseRouting

CONSTANTS r1, r2, r3, s1

ThreeRequests == {r1, r2, r3}
OneSession == {s1}
=============================================================================
