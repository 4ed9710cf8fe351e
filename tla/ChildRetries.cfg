SPECIFICATION ChildSpec
CONSTANTS
  MaxSignals = 2
  Sizes <- Windows
  Initial <- Spawned
  MaxPixel = 6
  MaxResizes = 2
  MaxOwn = 1
PROPERTIES
  RetriesEndRegardless
CHECK_DEADLOCK FALSE
