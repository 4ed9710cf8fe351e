SPECIFICATION Spec
CONSTANTS
  Intervals <- MCIntervals
  Longest = 4
  Quiescence = 2
  HoldCeiling = 4
  SyncTimeout = 4
  PollTimeout = 5
  Millisecond = 3
  Nap = 2
  Synchronizes = FALSE
INVARIANT HoldBounded
