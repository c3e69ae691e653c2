SPECIFICATION Spec
CONSTANTS
  Order <- TwoOrder
  Requires <- TwoRequires
  Has <- TwoHas
  Renewable = {"crt", "key", "script"}
  Command = {"deploy", "start", "stop", "restart", "destroy"}
  Careful = TRUE
  ABSENT = ABSENT
  TORN = TORN
  STOPPED = STOPPED
  MaxGen = 2
  MaxFaults = 2
INVARIANTS
  TypeOK
  ConvergedIsCurrent
  RunningIsRestartable
  StoppedMeansDown
  DestroyedMeansGone
