SPECIFICATION Spec
CONSTANTS
  Service = {"elasticsearch", "kibana"}
  Defects <- OneOrTwo
  MaxTrouble = 2
INVARIANTS
  TypeOK
  AcceptedIsValid
  PassMeansFit
  NamesEverything
  FitHostPasses
PROPERTIES
  PortPassIsJustified
CHECK_DEADLOCK FALSE
