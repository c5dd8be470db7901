---------------------------- MODULE MCWorkerPool ----------------------------
\* The instance of WorkerPool that TLC checks.
EXTENDS WorkerPool, TLC

CONSTANTS r1, r2, o1

TwoRequests == {r1, r2}
OneReplacer == {o1}
\* The dispatches are alike.
Alike == Permutations(TwoRequests)
BothStrategies == {"round-robin", "least-loaded"}
=============================================================================
