--------------------------- MODULE MCWorkerOutput ---------------------------
\* The instance of WorkerOutput that TLC checks.
EXTENDS WorkerOutput

CONSTANTS stdout

OneStream == {stdout}
Pieces == [s \in OneStream |-> 4]
=============================================================================
