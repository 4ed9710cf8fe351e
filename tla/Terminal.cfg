SPECIFICATION TerminalSpec
CONSTANTS
  Repertoires <- Children
  Hashes = {h1, h2}
  MaxIds = 4
  MaxUses = 7
  MarksPerRow = 2
  MaxCluster = 3
  MaxOps = 4
  MaxIntermediates = 1
  MaxParams = 3
  MaxOscParams = 2
  MaxRaw = 3
  MaxValue = 5
  MaxBody = 4
  Sessions <- Clients
  Slots = 2
  MaxTracked = 2
  MaxSteps = 6
  MaxPayload = 2
INVARIANTS
  InRange
  CutsInvisible
  RidesItsCell
  RunsFaithful
  DamageReported
  BatchIsPerCharacter
  PicturesAgree
PROPERTIES
  SequencesWhole
  AnswersOwed
  LeastRecentlyUsed
CHECK_DEADLOCK FALSE
