SPECIFICATION ReloadFairSpec
CONSTANTS
  a = a
  src = src
  doc = doc
  Workers <- OneWorker
  Files <- SourceAndOther
  AffectedBy <- OwnDirectory
  Timers <- ThreeTimers
  MaxChanges = 3
  MaxEdits = 2
INVARIANT
  EditHasACarrier
PROPERTIES
  ChangeIsPickedUp
  ConfigCatchesUp
CHECK_DEADLOCK FALSE
