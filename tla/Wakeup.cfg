SPECIFICATION FairSpec
CONSTANT PollErrors = TRUE
INVARIANTS
  TypeOK
  NoLostWakeup
  ClaimHonest
  ExitOwed
  ExitIsSnapshot
PROPERTIES
  Drawn
  BacklogDrains
  ExitStops
  KillReturns
