SPECIFICATION Spec
CONSTANTS
  MaxReads = 2
  PasswordFunction = TRUE
INVARIANTS
  SecretForAsker
  PromptKept
