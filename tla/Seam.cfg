SPECIFICATION Spec
CONSTANTS
  Sessions <- Programs
  MaxText = 4
INVARIANTS
  PrintedSeam
  RoundTrip
  NoDuplicate
PROPERTIES
  TranscriptKept
  ResizeKeepsText
CHECK_DEADLOCK FALSE
