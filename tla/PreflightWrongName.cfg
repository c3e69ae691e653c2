SPECIFICATION Spec
CONSTANTS
  Service = {"elasticsearch", "kibana"}
  Defects <- OneOrTwo
  MaxTrouble = 1
INVARIANTS
  SANValidated
CHECK_DEADLOCK FALSE
