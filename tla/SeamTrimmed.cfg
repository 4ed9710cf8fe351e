SPECIFICATION Spec
CONSTANTS
  Sessions <- Trimming
  MaxText = 6
INVARIANT CheckSeam
CHECK_DEADLOCK FALSE
