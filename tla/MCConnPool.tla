----------------------------- MODULE MCConnPool -----------------------------
\* The instance of ConnPool that TLC checks.
EXTENDS ConnPool

CONSTANTS k1, k2, k3, c1, c2, c3, c4

ThreeCallers == {k1, k2, k3}
FourConns == {c1, c2, c3, c4}
=============================================================================
