SPECIFICATION Spec
CONSTANTS
  Attempts <- SmallAttempts
  MaxCost = 0
PROPERTIES
  OtherErrorsEndTheSetup
CHECK_DEADLOCK FALSE
