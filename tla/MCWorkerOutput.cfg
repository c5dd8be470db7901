SPECIFICATION FairSpec
CONSTANTS
  stdout = stdout
  Core = Core
  Source = Source
  None = None
  Streams <- OneStream
  MaxPieces <- Pieces
  MaxOwn = 1
  PipeSize = 1
  Size = 2
  QueueSize = 1
INVARIANTS
  EntriesAreTheTail
  NoLineLost
PROPERTIES
  
  OutputFlows
CHECK_DEADLOCK FALSE
