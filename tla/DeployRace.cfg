SPECIFICATION DeploySpec
CONSTANTS
  ElasticPassword = ElasticPassword
  SecurityKey = SecurityKey
  SavedObjectsKey = SavedObjectsKey
  ReportingKey = ReportingKey
  KibanaToken = KibanaToken
  FleetToken = FleetToken
  EnrollmentToken = EnrollmentToken
  ABSENT = ABSENT
  EMPTY = EMPTY
  STOPPED = STOPPED
  Run = {r1, r2}
  Script <- RaceScript
  Cred <- RaceCred
  MaxFaults = 2
  MaxValue = 8
  MaxUpsets = 0
INVARIANTS
  ServiceTokenAgrees
  KeystoreFollows
