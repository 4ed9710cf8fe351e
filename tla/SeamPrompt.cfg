SPECIFICATION Spec
CONSTANTS
  Sessions <- Prompting
  MaxText = 4
PROPERTY PromptStays
CHECK_DEADLOCK FALSE
