SPECIFICATION FairDeploySpec
CONSTANTS
  ElasticPassword = ElasticPassword
  SecurityKey = SecurityKey
  SavedObjectsKey = SavedObjectsKey
  ReportingKey = ReportingKey
  KibanaToken = KibanaToken
  FleetToken = FleetToken
  EnrollmentToken = EnrollmentToken
  ABSENT = ABSENT
  EMPTY = EMPTY
  STOPPED = STOPPED
  Run = {r1}
  Script <- FullScript
  Cred <- FullCred
  MaxFaults = 2
  MaxValue = 12
  MaxUpsets = 1
INVARIANTS
  TypeOK
  MachineTypeOK
  SecretAgrees
  MountMeansConsistent
  ProtectedOnReturn
  EnrollmentKeysBounded
  ClientsAuthenticate
  SavedObjectsReadable
  SettingApplied
PROPERTIES
  EstablishedOnce
  OrphanedForever
  Converges
