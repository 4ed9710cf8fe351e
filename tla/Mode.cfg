SPECIFICATION FairSpec
CONSTANTS
  MaxReads = 2
  PasswordFunction = FALSE
INVARIANTS
  NoLeak
  Heard
PROPERTIES
  Prompted
  Withdrawn
