SPECIFICATION FairSpec
CONSTANTS
  Attempts <- SmallAttempts
  MaxCost = 2
INVARIANTS
  TypeOK
  FailsOnlyAfterBudget
PROPERTIES
  WaitEnds
CHECK_DEADLOCK FALSE
