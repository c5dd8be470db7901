---------------------------- MODULE MCHotReload -----------------------------
\* The instance of HotReload that TLC checks.
EXTENDS HotReload

CONSTANTS a, src, doc

OneWorker == {a}
SourceAndOther == {src, doc}
OwnDirectory == [f \in SourceAndOther |-> IF f = src THEN OneWorker ELSE {}]
ThreeTimers == 1..3
=============================================================================
