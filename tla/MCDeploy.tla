------------------------------- MODULE MCDeploy -------------------------------
(* Scripts of deploy for model checking Deploy.                            *)
EXTENDS Deploy

CONSTANTS SecurityKey, ReportingKey, FleetToken, EnrollmentToken

Do(op, c) == [op |-> op, cred |-> c]

\* What deploy does, in its order.
FullScript ==
  <<Do("host", ElasticPassword), Do("generate", ElasticPassword),
    Do("generate", SecurityKey), Do("generate", SavedObjectsKey),
    Do("generate", ReportingKey), Do("install", ElasticPassword),
    Do("mount", ElasticPassword), Do("elasticsearch", ElasticPassword),
    Do("service", KibanaToken), Do("keystore", KibanaToken),
    Do("entry", KibanaToken), Do("entry", SecurityKey),
    Do("entry", SavedObjectsKey), Do("entry", ReportingKey),
    Do("kibana", KibanaToken), Do("service", FleetToken),
    Do("mount", FleetToken), Do("enroll", EnrollmentToken),
    Do("mount", EnrollmentToken)>>

FullCred == {ElasticPassword, SecurityKey, SavedObjectsKey, ReportingKey,
             KibanaToken, FleetToken, EnrollmentToken}

\* The credentials a race is about: the password, and a service token that is
\* put into the keystore and one that is mounted.
RaceScript ==
  <<Do("generate", ElasticPassword), Do("mount", ElasticPassword),
    Do("elasticsearch", ElasticPassword), Do("service", KibanaToken),
    Do("keystore", KibanaToken), Do("entry", KibanaToken),
    Do("kibana", KibanaToken), Do("service", FleetToken), Do("mount", FleetToken)>>

RaceCred == {ElasticPassword, KibanaToken, FleetToken, SavedObjectsKey}
================================================================================
