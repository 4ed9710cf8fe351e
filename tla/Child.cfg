SPECIFICATION ChildSpec
CONSTANTS
  MaxSignals = 2
  Sizes <- Windows
  Initial <- Spawned
  MaxPixel = 6
  MaxResizes = 2
  MaxOwn = 1
INVARIANTS
  ResizeKept
  NoStraySignal
  StatusKept
  NothingSurvives
PROPERTIES
  RetriesEnd
  KillEnds
CHECK_DEADLOCK FALSE
