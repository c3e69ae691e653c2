SPECIFICATION Spec
CONSTANTS
  Run = {r1}
  Dataset = {d1, d2}
  NONE = NONE
  EMPTY = EMPTY
  Leftover = {"server", "local"}
  MaxKey = 4
  MaxFaults = 1
PROPERTIES
  EnrolledKept
