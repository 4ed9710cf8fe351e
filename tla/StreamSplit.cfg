\* A character split by a read, with another whole one behind it.
SPECIFICATION StreamSpec
CONSTANTS
  Repertoires <- Texts
  MaxIntermediates = 1
  MaxParams = 3
  MaxOscParams = 2
  MaxRaw = 3
  MaxValue = 5
  MaxBody = 4
INVARIANT EveryCharacterPrinted
CHECK_DEADLOCK FALSE
