------------------------------- MODULE MCCore -------------------------------
\* The instance of Core that TLC checks: of two workers the second has a
\* startup_timeout, and the first may need a runtime.
EXTENDS Core

PlainPythonNode == {<<"plain", "plain">>, <<"python", "plain">>, <<"node", "node">>}
SecondIsTimed == {2}
=============================================================================
