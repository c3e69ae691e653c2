SPECIFICATION FairSpec
CONSTANTS
  Run = {r1, r2}
  Dataset = {d1, d2}
  NONE = NONE
  EMPTY = EMPTY
  Leftover = {"server", "local"}
  MaxKey = 5
  MaxFaults = 1
PROPERTIES
  StuckForever
  Converges
  NoMigrationNoRevocation
