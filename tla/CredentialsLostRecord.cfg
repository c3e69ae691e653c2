SPECIFICATION FairSpec
CONSTANTS
  ElasticPassword = ElasticPassword
  ABSENT = ABSENT
  EMPTY = EMPTY
  Run = {r1}
  Script <- PasswordScript
  Cred <- PasswordCred
  MaxFaults = 1
  MaxValue = 8
PROPERTIES
  Rerunnable
