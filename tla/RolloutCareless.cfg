SPECIFICATION FairSpec
CONSTANTS
  Order <- TwoOrder
  Requires <- TwoRequires
  Has <- TwoHas
  Renewable = {"crt", "key", "ca"}
  Command = {"deploy"}
  Careful = FALSE
  ABSENT = ABSENT
  TORN = TORN
  STOPPED = STOPPED
  MaxGen = 2
  MaxFaults = 1
INVARIANTS
  ReturnsUsable
PROPERTIES
  RenewalArrives
