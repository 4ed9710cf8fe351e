SPECIFICATION Spec
CONSTANTS
  Sessions <- Spaced
  MaxText = 4
INVARIANT LayoutReturns
CHECK_DEADLOCK FALSE
