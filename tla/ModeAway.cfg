SPECIFICATION Spec
CONSTANTS
  MaxReads = 2
  PasswordFunction = FALSE
PROPERTY RaisedInView
