\* A picture placed again in the drain that spends it.
SPECIFICATION PicturesSpec
CONSTANTS
  Sessions <- Dropping
  Slots = 2
  MaxTracked = 2
  MaxSteps = 6
  MaxPayload = 2
INVARIANT NoHole
CHECK_DEADLOCK FALSE
