SPECIFICATION FairSpec
CONSTANTS
  N = 2
  Kinds <- PlainPythonNode
  Timed <- SecondIsTimed
  MaxProcs = 5
  MaxBoots = 2
  MaxTroubles = 2
INVARIANTS
  CleanExitStopsTheRunning
  NoneLeftStarting
PROPERTIES
  StartupEnds
  ShutdownEnds
CHECK_DEADLOCK FALSE
