----------------------------- MODULE DeployProofs -----------------------------
(* Theorems about Deploy, for every script that keeps deploy's order and    *)
(* every number of interruptions, crashes and boots.                        *)
EXTENDS Deploy, CredentialsProofs

\* To the credentials every step of deploy and of the machine is a step of
\* Credentials, or nothing.
LEMMA DeployStep ==
  ASSUME DeployNext
  PROVE  [Next]_vars
<1>1. ASSUME NEW r \in Run, Perform(r) PROVE [Next]_vars
  <2>1. CASE Establish(r)
    BY <2>1 DEF Establish, Next
  <2>2. CASE Interrupted(r)
    BY <2>2 DEF Interrupted, Next
  <2>3. ASSUME NEW op \in Other, Begins(r, op) \/ Halfway(r, op), Done(r) \/ Fail(r)
        PROVE  Next
    BY <2>3 DEF Begins, Halfway, Done, Fail, Doing, OtherStep, Step, Next
  <2>4. ASSUME NEW v, Hold(r, v) PROVE UNCHANGED vars
    BY <2>4 DEF Hold
  <2>5. CASE ConfigureHost(r) \/ Sysctl(r)
    BY <2>3, <2>4, <2>5 DEF ConfigureHost, Sysctl, Other
  <2>6. CASE Install(r)
    BY <2>3, <2>6 DEF Install, Other
  <2>7. CASE RestartElasticsearch(r) \/ WaitElasticsearch(r)
    BY <2>3, <2>4, <2>7 DEF RestartElasticsearch, WaitElasticsearch, Other
  <2>8. CASE CreateKeystore(r) \/ ReadEntry(r) \/ AddEntry(r)
    BY <2>3, <2>4, <2>8 DEF CreateKeystore, ReadEntry, AddEntry, Other
  <2>9. CASE RestartKibana(r) \/ WaitKibana(r)
    BY <2>3, <2>4, <2>9 DEF RestartKibana, WaitKibana, Other
  <2> QED
    BY <1>1, <2>1, <2>5, <2>6, <2>7, <2>8, <2>9 DEF Perform
<1>2. ASSUME NEW r \in Run, Interrupted(r) PROVE [Next]_vars
  BY <1>2 DEF Interrupted, Next
<1>3. CASE UpElasticsearch \/ UpKibana \/ Seal \/ Crash \/ Boot
  BY <1>3 DEF UpElasticsearch, UpKibana, Seal, Crash, Boot
<1> QED
  BY <1>1, <1>2, <1>3 DEF DeployNext

\* What is proved of Credentials holds of deploy, with any runs, upsets and
\* interruptions.
THEOREM DeployKeepsCredentials == DeploySpec => Spec
<1>1. DeployInit => Init
  BY DEF DeployInit
<1>2. [DeployNext]_deployVars => [Next]_vars
  BY DeployStep DEF deployVars, vars
<1> QED
  BY <1>1, <1>2, PTL DEF DeploySpec, Spec

-----------------------------------------------------------------------------
(* The password Elasticsearch was started with, with one run at a time.    *)

PasswordInv ==
  es # STOPPED => podman[ElasticPassword] # ABSENT /\ es = podman[ElasticPassword]

\* No step takes a Podman secret away or gives it another content.
LEMMA PodmanStays ==
  ASSUME ControlInv, [Next]_vars, NEW c \in Cred, podman[c] # ABSENT
  PROVE  podman'[c] = podman[c]
<1>1. ASSUME NEW r \in Run, Create(r) PROVE podman'[c] = podman[c]
  BY <1>1 DEF Create, ControlInv, TypeOK
<1>2. ASSUME NEW r \in Run, Step(r) \/ Interrupt(r) \/ InspectFails(r), ~Create(r)
      PROVE  podman' = podman
  BY <1>2 DEF Step, Start, Finish, EnsureSecret, CreateToken, PostToken, OpenFile,
              WriteFile, Chmod, ReadSource, Inspect, OpenRecord, WriteRecord, Compare,
              OtherStep, Interrupt, InspectFails, stores
<1> QED
  BY <1>1, <1>2 DEF Next, vars

\* systemd and deploy start Elasticsearch with the mounted password only.
LEMMA PasswordStep ==
  ASSUME ControlInv, StoreInv, PasswordInv, [DeployNext]_deployVars
  PROVE  PasswordInv'
<1>1. ElasticPassword \in Cred
  BY DeployAssumption
<1>2. [Next]_vars
  BY DeployStep DEF deployVars, vars
<1>3. podman[ElasticPassword] # ABSENT => podman'[ElasticPassword] = podman[ElasticPassword]
  BY <1>1, <1>2, PodmanStays
<1>4. ASSUME NEW r \in Run, RestartElasticsearch(r) PROVE PasswordInv'
  <2>1. PICK j \in 1..(step[r] - 1) :
          Script[j].op = "mount" /\ Script[j].cred = ElasticPassword
    BY <1>4, OrderAssumption DEF RestartElasticsearch, Begins, Doing
  <2>2. podman[ElasticPassword] # ABSENT
    BY <2>1 DEF StoreInv, PassedOK, StepDone, MountedBy
  <2> QED
    BY <1>3, <1>4, <2>2 DEF RestartElasticsearch, PasswordInv
<1>5. CASE UpElasticsearch
  BY <1>3, <1>5 DEF UpElasticsearch, PasswordInv
<1>6. CASE es' = es \/ es' = STOPPED
  BY <1>3, <1>6 DEF PasswordInv
<1>7. ASSUME NEW r \in Run, Perform(r), ~RestartElasticsearch(r) PROVE es' = es
  BY <1>7 DEF Perform, Establish, ConfigureHost, Sysctl, Install, WaitElasticsearch,
              CreateKeystore, ReadEntry, AddEntry, RestartKibana, WaitKibana, machine
<1>8. ASSUME NEW r \in Run, Interrupted(r) PROVE es' = es
  BY <1>8 DEF Interrupted, machine
<1>9. CASE UpKibana \/ Seal \/ Crash \/ Boot
  BY <1>6, <1>9 DEF UpKibana, Seal, Crash, Boot
<1>10. CASE UNCHANGED deployVars
  BY <1>6, <1>10 DEF deployVars, machine
<1> QED
  BY <1>4, <1>5, <1>6, <1>7, <1>8, <1>9, <1>10 DEF DeployNext

\* Types, stores and the running password are in order in every reachable state.
LEMMA PasswordAlways ==
  ASSUME OneRun
  PROVE  DeploySpec => []ControlInv /\ []StoreInv /\ []PasswordInv
<1>1. DeployInit => PasswordInv
  BY DEF DeployInit, PasswordInv
<1>2. ControlInv /\ StoreInv /\ PasswordInv /\ [DeployNext]_deployVars => PasswordInv'
  BY PasswordStep
<1>3. DeploySpec => []ControlInv /\ []StoreInv
  BY DeployKeepsCredentials, ControlAlways, StoreAlways, PTL
<1> QED
  BY <1>1, <1>2, <1>3, PTL DEF DeploySpec

\* While deploys run one at a time, a running Elasticsearch accepts the password
\* that elkctl reads from the protected file, whoever started it and when.
THEOREM ClientsAlwaysAuthenticate ==
  ASSUME OneRun
  PROVE  DeploySpec => []ClientsAuthenticate
<1>1. StoreInv /\ PasswordInv => ClientsAuthenticate
  BY DeployAssumption DEF StoreInv, StoreOK, PasswordInv, ClientsAuthenticate, Serves
<1> QED
  BY <1>1, PasswordAlways, PTL

-----------------------------------------------------------------------------
(* The keystore and what Kibana starts from, with one run at a time.       *)

HeldOK(r) ==
  held[r] # ABSENT =>
    /\ At(r, "next") /\ Doing(r, Other)
    /\ Doing(r, {"entry"}) => held[r] = file[C(r)] /\ ~Blank(C(r))

\* An entry is the established secret, or is not there yet.
EntriesOK(entries) == \A c \in Entry : entries[c] # ABSENT => entries[c] = file[c] /\ ~Blank(c)

FilledOK(r) ==
  \A i \in 1..(step[r] - 1) :
    /\ Script[i].op = "keystore" => keystore # ABSENT
    /\ Script[i].op = "entry" => keystore # ABSENT /\ keystore[Script[i].cred] # ABSENT

\* What Kibana was started with is still in the keystore.
StartedOK ==
  kibana # STOPPED =>
    \A c \in Entry : kibana[c] # ABSENT => keystore # ABSENT /\ keystore[c] # ABSENT

\* The one key that has been used is in the keystore, and in a running Kibana.
SealedOK ==
  sealed # {} =>
    /\ SavedObjectsKey \in Entry
    /\ sealed = {file[SavedObjectsKey]} /\ ~Blank(SavedObjectsKey)
    /\ keystore # ABSENT /\ keystore[SavedObjectsKey] # ABSENT
    /\ kibana # STOPPED => kibana[SavedObjectsKey] # ABSENT

KeystoreInv ==
  /\ \A r \in Run : HeldOK(r) /\ FilledOK(r)
  /\ keystore # ABSENT => EntriesOK(keystore)
  /\ kibana # STOPPED => EntriesOK(kibana)
  /\ StartedOK /\ SealedOK

MachineInv == MachineTypeOK /\ KeystoreInv

\* The entries of the keystore are credentials of the script.
LEMMA EntryFacts ==
  /\ Entry \subseteq Cred
  /\ \A r \in Run : Doing(r, {"entry"}) => C(r) \in Entry
BY ScriptFacts DEF Entry, Of, Doing, C

\* With one run at a time an established credential is never written again.
LEMMA EstablishedStays ==
  ASSUME ControlInv, StoreInv, [Next]_vars, NEW c \in Cred, ~Blank(c)
  PROVE  file'[c] = file[c] /\ ~Blank(c)'
<1>1. ASSUME NEW r \in Run, OpenFile(r) \/ WriteFile(r) PROVE file'[c] = file[c]
  <2>1. Blank(C(r))
    BY <1>1 DEF OpenFile, WriteFile, At, StoreInv, LocalOK
  <2>2. C(r) # c
    BY <2>1
  <2> QED
    BY <1>1, <2>2 DEF OpenFile, WriteFile, ControlInv, TypeOK
<1>2. ASSUME NEW r \in Run, Step(r) \/ Interrupt(r) \/ InspectFails(r),
             ~OpenFile(r), ~WriteFile(r)
      PROVE  file' = file
  BY <1>2 DEF Step, Start, Finish, EnsureSecret, CreateToken, PostToken, Chmod, ReadSource,
              Inspect, Create, OpenRecord, WriteRecord, Compare, OtherStep, Interrupt,
              InspectFails, stores
<1>3. file'[c] = file[c]
  BY <1>1, <1>2 DEF Next, vars
<1> QED
  BY <1>3 DEF Blank

\* A step of Credentials starts with nothing held, and passes no step of Other.
LEMMA EstablishMoves ==
  ASSUME ControlInv, NEW r \in Run, Establish(r),
         held[r] # ABSENT => At(r, "next") /\ Doing(r, Other)
  PROVE  /\ held[r] = ABSENT
         /\ \A q \in Run : q # r => step'[q] = step[q] /\ pc'[q] = pc[q]
         /\ \/ step'[r] \in {1, step[r]}
            \/ step'[r] = step[r] + 1 /\ Script[step[r]].op \notin Other
<1> USE ScriptFacts DEF ControlInv, TypeOK, At
<1>1. held[r] = ABSENT
  <2>1. CASE At(r, "next")
    BY <2>1 DEF Establish
  <2>2. CASE ~At(r, "next")
    BY <2>2
  <2> QED
    BY <2>1, <2>2
<1>2. Step(r)
  BY DEF Establish
<1>3. CASE OtherStep(r)
  BY <1>3 DEF OtherStep, Establish
<1>4. CASE Start(r) \/ Finish(r) \/ PostToken(r) \/ OpenFile(r) \/ WriteFile(r)
             \/ ReadSource(r) \/ Inspect(r) \/ Create(r) \/ OpenRecord(r)
  BY <1>1, <1>4 DEF Start, Finish, PostToken, OpenFile, WriteFile, ReadSource, Inspect, Create,
              OpenRecord, Goto, Exit
<1>5. CASE Chmod(r) \/ WriteRecord(r) \/ Compare(r)
  <2>1. Script[step[r]].op \in Origin \cup {"mount"}
    BY <1>5 DEF Chmod, WriteRecord, Compare, Control, ControlOf, Writing, Mounting
  <2> QED
    BY <1>1, <1>5, <2>1 DEF Chmod, WriteRecord, Compare, Return, Exit, Origin, Other
<1>6. CASE EnsureSecret(r) \/ CreateToken(r)
  <2>1. Script[step[r]].op \notin Other
    BY <1>6 DEF EnsureSecret, CreateToken, Doing, Other
  <2> QED
    BY <1>1, <1>6, <2>1 DEF EnsureSecret, CreateToken, Return, Goto
<1> QED
  BY <1>2, <1>3, <1>4, <1>5, <1>6 DEF Step

\* Where the steps around a step of deploy lead.
LEMMA OtherMoves ==
  ASSUME ControlInv, NEW r \in Run, held \in [Run -> Content]
  PROVE  /\ Done(r) => /\ step'[r] = step[r] + 1 /\ held'[r] = ABSENT
                       /\ UNCHANGED <<file, private, podman, record>>
         /\ Fail(r) \/ Interrupted(r) => /\ step'[r] \in {1, step[r]} /\ held'[r] = ABSENT
                                         /\ UNCHANGED <<file, private, podman, record>>
BY DEF ControlInv, TypeOK, Done, Fail, Interrupted, Interrupt, InspectFails, Drop, Return,
       Exit, Goto, stores

\* A step that leaves the machine alone keeps what holds of it.
LEMMA MachineStays ==
  ASSUME ControlInv, StoreInv, KeystoreInv, [Next]_vars, UNCHANGED <<keystore, kibana, sealed>>
  PROVE  /\ keystore # ABSENT => EntriesOK(keystore)'
         /\ kibana # STOPPED => EntriesOK(kibana)'
         /\ StartedOK' /\ SealedOK'
<1>1. \A c \in Cred : ~Blank(c) => file'[c] = file[c] /\ ~Blank(c)'
  BY EstablishedStays
<1>2. ~Blank(SavedObjectsKey) => file'[SavedObjectsKey] = file[SavedObjectsKey] /\ ~Blank(SavedObjectsKey)'
  BY <1>1, DeployAssumption
<1>3. SealedOK'
  BY <1>2 DEF KeystoreInv, SealedOK
<1>4. keystore # ABSENT => EntriesOK(keystore)'
  BY <1>1, EntryFacts DEF KeystoreInv, EntriesOK
<1>5. kibana # STOPPED => EntriesOK(kibana)'
  BY <1>1, EntryFacts DEF KeystoreInv, EntriesOK
<1>6. StartedOK'
  BY DEF KeystoreInv, StartedOK
<1> QED
  BY <1>3, <1>4, <1>5, <1>6

\* No step takes an established entry or the key that was used away.
LEMMA KeystoreStep ==
  ASSUME OneRun, ControlInv, StoreInv, MachineInv, [DeployNext]_deployVars
  PROVE  KeystoreInv'
<1> USE ScriptFacts DEF MachineInv
<1>1. [Next]_vars
  BY DeployStep DEF deployVars, vars
<1>2. \A c \in Cred : ~Blank(c) => file'[c] = file[c] /\ ~Blank(c)'
  BY <1>1, EstablishedStays
<1>3. UNCHANGED <<keystore, kibana, sealed>> =>
        /\ keystore # ABSENT => EntriesOK(keystore)'
        /\ kibana # STOPPED => EntriesOK(kibana)'
        /\ StartedOK' /\ SealedOK'
  BY <1>1, MachineStays
<1>4. ASSUME NEW r \in Run, HeldOK(r)', FilledOK(r)', UNCHANGED <<keystore, kibana, sealed>>
      PROVE  KeystoreInv'
  BY <1>3, <1>4 DEF KeystoreInv, OneRun
<1>5. ASSUME NEW r \in Run, Establish(r) PROVE KeystoreInv'
  <2>1. UNCHANGED <<held, keystore, kibana, sealed>>
    BY <1>5 DEF Establish, machine
  <2>2. /\ held[r] = ABSENT
        /\ \/ step'[r] \in {1, step[r]}
           \/ step'[r] = step[r] + 1 /\ Script[step[r]].op \notin Other
    BY <1>5, EstablishMoves DEF KeystoreInv, HeldOK
  <2>3. HeldOK(r)'
    BY <2>1, <2>2 DEF HeldOK
  <2>4. step[r] \in Nat
    BY DEF ControlInv, TypeOK
  <2>5. FilledOK(r)'
    BY <2>1, <2>2, <2>4 DEF KeystoreInv, FilledOK, Other
  <2> QED
    BY <1>4, <2>1, <2>3, <2>5
<1>6. ASSUME NEW r \in Run, UNCHANGED <<keystore, kibana, sealed>>,
             \/ Interrupted(r) \/ Fail(r)
             \/ Done(r) /\ Script[step[r]].op \notin {"keystore", "entry"}
      PROVE  KeystoreInv'
  <2>1. held'[r] = ABSENT /\ step'[r] \in {1, step[r], step[r] + 1} /\ step[r] \in Nat
    BY <1>6, OtherMoves DEF ControlInv, TypeOK, MachineTypeOK
  <2>2. step'[r] = step[r] + 1 => Script[step[r]].op \notin {"keystore", "entry"}
    <3>1. step[r] >= 1
      BY DEF ControlInv, TypeOK
    <3>2. held \in [Run -> Content]
      BY DEF MachineTypeOK
    <3>3. CASE Interrupted(r) \/ Fail(r)
      <4>1. step'[r] \in {1, step[r]}
        BY <3>2, <3>3, OtherMoves
      <4> QED
        BY <2>1, <3>1, <4>1
    <3> QED
      BY <1>6, <3>3
  <2>3. HeldOK(r)'
    BY <2>1 DEF HeldOK
  <2>4. FilledOK(r)'
    BY <1>6, <2>1, <2>2 DEF KeystoreInv, FilledOK
  <2> QED
    BY <1>4, <1>6, <2>3, <2>4
<1>7. ASSUME NEW r \in Run, NEW v, Hold(r, v), At(r, "next"), Doing(r, Other),
             Doing(r, {"entry"}) => v = file[C(r)] /\ ~Blank(C(r)),
             keystore' = keystore
      PROVE  HeldOK(r)' /\ FilledOK(r)'
  <2>1. held'[r] = v /\ UNCHANGED <<file, pc, step>>
    BY <1>7 DEF Hold, vars, MachineTypeOK
  <2> QED
    BY <1>7, <2>1 DEF KeystoreInv, HeldOK, FilledOK, At, Doing, C, Blank
<1>8. ASSUME NEW r \in Run, ConfigureHost(r) \/ Sysctl(r) \/ Install(r) PROVE KeystoreInv'
  <2>1. /\ UNCHANGED <<keystore, kibana, sealed>>
        /\ At(r, "next") /\ Doing(r, Other) /\ ~Doing(r, {"keystore", "entry"})
    BY <1>8 DEF ConfigureHost, Sysctl, Install, Begins, Halfway, Doing, Other
  <2>2. Script[step[r]].op \notin {"keystore", "entry"}
    BY <2>1 DEF Doing
  <2>3. Done(r) \/ Hold(r, EMPTY)
    BY <1>8 DEF ConfigureHost, Sysctl, Install
  <2> QED
    BY <1>4, <1>6, <1>7, <2>1, <2>2, <2>3 DEF Doing
<1>9. ASSUME NEW r \in Run, WaitElasticsearch(r) \/ WaitKibana(r) PROVE KeystoreInv'
  <2>1. UNCHANGED <<keystore, kibana, sealed>> /\ (Done(r) \/ Fail(r))
    BY <1>9 DEF WaitElasticsearch, WaitKibana, machine
  <2>2. Script[step[r]].op \notin {"keystore", "entry"}
    BY <1>9 DEF WaitElasticsearch, WaitKibana, Halfway, Doing
  <2> QED
    BY <1>6, <2>1, <2>2
<1>10. ASSUME NEW r \in Run, RestartElasticsearch(r) PROVE KeystoreInv'
  <2>1. /\ UNCHANGED <<file, keystore, sealed>> /\ kibana' = STOPPED
        /\ HeldOK(r)' /\ FilledOK(r)'
    BY <1>7, <1>10 DEF RestartElasticsearch, Begins, Doing, Other, Hold, vars
  <2> QED
    BY <2>1 DEF KeystoreInv, EntriesOK, StartedOK, SealedOK, Blank, OneRun
<1>11. ASSUME NEW r \in Run, RestartKibana(r) PROVE KeystoreInv'
  <2>1. /\ UNCHANGED <<file, keystore, sealed>> /\ kibana' \in {STOPPED, Entries}
        /\ HeldOK(r)' /\ FilledOK(r)'
    BY <1>7, <1>11 DEF RestartKibana, Begins, Doing, Other, Hold, vars
  <2> QED
    <3>1. CASE kibana' = STOPPED
      BY <2>1, <3>1 DEF KeystoreInv, EntriesOK, StartedOK, SealedOK, Blank, OneRun
    <3>2. CASE kibana' = Entries
      <4>1. EntriesOK(Entries) /\ StartedOK'
        BY <2>1, <3>2 DEF KeystoreInv, EntriesOK, StartedOK, Entries, NoEntries
      <4>2. SealedOK'
        BY <2>1, <3>2 DEF KeystoreInv, SealedOK, Entries, Blank
      <4>3. EntriesOK(keystore)' <=> EntriesOK(keystore)
        BY <2>1 DEF EntriesOK, Blank
      <4>4. EntriesOK(kibana)'
        BY <2>1, <3>2, <4>1 DEF EntriesOK, Blank
      <4> QED
        BY <2>1, <4>1, <4>2, <4>3, <4>4 DEF KeystoreInv, OneRun
    <3> QED
      BY <2>1, <3>1, <3>2
<1>12. ASSUME NEW r \in Run, CreateKeystore(r) PROVE KeystoreInv'
  <2>1. /\ Done(r) /\ UNCHANGED <<file, kibana, sealed>>
        /\ Doing(r, {"keystore"})
        /\ keystore' = IF keystore = ABSENT THEN NoEntries ELSE keystore
    BY <1>12 DEF CreateKeystore, Done, stores, Begins
  <2>2. held'[r] = ABSENT /\ step'[r] = step[r] + 1 /\ step[r] \in Nat
    BY <2>1, OtherMoves DEF ControlInv, TypeOK, MachineTypeOK
  <2>3. NoEntries # ABSENT
    BY KeystoreAssumption DEF NoEntries, Content
  <2>4. keystore' # ABSENT
    BY <2>1, <2>3
  <2>5. HeldOK(r)'
    BY <2>2 DEF HeldOK
  <2>6. FilledOK(r)'
    BY <2>1, <2>2, <2>4 DEF KeystoreInv, FilledOK, Doing
  <2>7. EntriesOK(keystore)'
    BY <2>1 DEF KeystoreInv, EntriesOK, NoEntries, Blank
  <2> QED
    BY <2>1, <2>3, <2>5, <2>6, <2>7
       DEF KeystoreInv, EntriesOK, StartedOK, SealedOK, Blank, OneRun
<1>13. ASSUME NEW r \in Run, ReadEntry(r) PROVE KeystoreInv'
  <2>1. UNCHANGED <<keystore, kibana, sealed>> /\ At(r, "next") /\ Doing(r, {"entry"})
    BY <1>13 DEF ReadEntry, Begins, machine
  <2>2. PICK j \in 1..(step[r] - 1) : Script[j].op \in Origin /\ Script[j].cred = C(r)
    BY <2>1, OrderAssumption DEF Doing, C
  <2>3. ~Blank(C(r))
    BY <2>2 DEF StoreInv, PassedOK, StepDone
  <2>4. Hold(r, file[C(r)])
    BY <1>13, <2>3 DEF ReadEntry, Blank
  <2>5. Doing(r, Other)
    BY <2>1 DEF Doing, Other
  <2>6. HeldOK(r)' /\ FilledOK(r)'
    BY <1>7, <2>1, <2>3, <2>4, <2>5
  <2> QED
    BY <1>4, <2>1, <2>6
<1>14. ASSUME NEW r \in Run, AddEntry(r) PROVE KeystoreInv'
  <2>1. /\ Done(r) /\ UNCHANGED <<file, kibana, sealed>>
        /\ Doing(r, {"entry"}) /\ held[r] # ABSENT
        /\ keystore' = [keystore EXCEPT ![C(r)] = held[r]]
    BY <1>14 DEF AddEntry, Done, stores, Halfway
  <2>2. held'[r] = ABSENT /\ step'[r] = step[r] + 1 /\ step[r] \in Nat
    BY <2>1, OtherMoves DEF ControlInv, TypeOK, MachineTypeOK
  <2>3. C(r) \in Entry /\ C(r) = Script[step[r]].cred
    BY <2>1, EntryFacts DEF C
  <2>4. held[r] = file[C(r)] /\ ~Blank(C(r))
    BY <2>1 DEF KeystoreInv, HeldOK
  <2>5. PICK j \in 1..(step[r] - 1) : Script[j].op = "keystore"
    BY <2>1, OrderAssumption DEF Doing
  <2>6. keystore # ABSENT /\ keystore \in [Entry -> Content]
    BY <2>5 DEF KeystoreInv, FilledOK, MachineTypeOK
  <2>7. \A c \in Entry : keystore'[c] = IF c = C(r) THEN file[c] ELSE keystore[c]
    BY <2>1, <2>4, <2>6
  <2>8. keystore' # ABSENT
    <3>1. held[r] \in Content
      BY DEF MachineTypeOK
    <3>2. keystore' \in [Entry -> Content]
      BY <2>1, <2>6, <3>1
    <3> QED
      BY <3>2, KeystoreAssumption
  <2>9. HeldOK(r)'
    BY <2>2 DEF HeldOK
  <2>10. \A i \in 1..(step[r] - 1) : Script[i].op = "entry" => Script[i].cred \in Entry
    <3>1. \A i \in 1..(step[r] - 1) : i \in DOMAIN Script
      BY <2>1, <2>2 DEF Doing
    <3> QED
      BY <3>1 DEF Entry, Of
  <2>11. FilledOK(r)'
    BY <2>1, <2>2, <2>3, <2>4, <2>7, <2>8, <2>10 DEF KeystoreInv, FilledOK, Doing, Blank
  <2>12. EntriesOK(keystore)' /\ (kibana # STOPPED => EntriesOK(kibana)')
    BY <2>1, <2>4, <2>6, <2>7 DEF KeystoreInv, EntriesOK, Blank
  <2>13. SealedOK'
    BY <2>1, <2>4, <2>7, <2>8 DEF KeystoreInv, SealedOK, Blank
  <2>14. StartedOK'
    BY <2>1, <2>4, <2>7, <2>8 DEF KeystoreInv, StartedOK, Blank
  <2> QED
    BY <2>1, <2>9, <2>11, <2>12, <2>13, <2>14 DEF KeystoreInv, OneRun
<1>15. CASE UpElasticsearch \/ UpKibana \/ Seal \/ Crash \/ Boot
  <2>1. UNCHANGED <<vars, held, keystore>>
    BY <1>15 DEF UpElasticsearch, UpKibana, Seal, Crash, Boot
  <2>2. (\A r \in Run : HeldOK(r) /\ FilledOK(r))' /\ (keystore # ABSENT => EntriesOK(keystore)')
    BY <2>1 DEF KeystoreInv, HeldOK, FilledOK, EntriesOK, At, Doing, C, Blank, vars
  <2>3. CASE UpKibana
    <3>1. kibana' = Entries /\ sealed' = sealed
      BY <2>3 DEF UpKibana
    <3> QED
      BY <2>1, <2>2, <3>1
         DEF KeystoreInv, EntriesOK, StartedOK, SealedOK, Blank, Entries, NoEntries, vars
  <2>4. CASE Seal
    <3>1. /\ kibana' = kibana /\ kibana # STOPPED /\ kibana[SavedObjectsKey] # ABSENT
          /\ SavedObjectsKey \in Entry
          /\ sealed' = sealed \cup {kibana[SavedObjectsKey]}
      BY <2>4 DEF Seal
    <3>2. kibana[SavedObjectsKey] = file[SavedObjectsKey] /\ ~Blank(SavedObjectsKey)
      BY <3>1 DEF KeystoreInv, EntriesOK
    <3>3. sealed' = {file[SavedObjectsKey]}
      BY <3>1, <3>2 DEF KeystoreInv, SealedOK
    <3>4. SealedOK' /\ StartedOK' /\ EntriesOK(kibana)'
      BY <2>1, <3>1, <3>2, <3>3
         DEF KeystoreInv, EntriesOK, StartedOK, SealedOK, Blank, vars
    <3> QED
      BY <2>1, <2>2, <3>1, <3>4 DEF KeystoreInv
  <2>5. CASE UpElasticsearch \/ Crash \/ Boot
    <3>1. kibana' \in {kibana, STOPPED} /\ sealed' = sealed
      BY <2>5 DEF UpElasticsearch, Crash, Boot
    <3> QED
      BY <2>1, <2>2, <3>1 DEF KeystoreInv, EntriesOK, StartedOK, SealedOK, Blank, vars
  <2> QED
    BY <1>15, <2>3, <2>4, <2>5
<1>16. CASE UNCHANGED deployVars
  BY <1>16 DEF deployVars, vars, machine, KeystoreInv, HeldOK, FilledOK, EntriesOK, StartedOK,
                SealedOK, At, Doing, C, Blank
<1>17. ASSUME NEW r \in Run, Interrupted(r) PROVE KeystoreInv'
  BY <1>6, <1>17 DEF Interrupted, machine
<1> QED
  BY <1>5, <1>8, <1>9, <1>10, <1>11, <1>12, <1>13, <1>14, <1>15, <1>16, <1>17
     DEF DeployNext, Perform

\* No step gives a part of the machine what it cannot hold.
LEMMA MachineTypeStep ==
  ASSUME ControlInv, ControlInv', PasswordInv', MachineInv, StoreInv, [DeployNext]_deployVars
  PROVE  MachineTypeOK'
<1> USE ScriptFacts, DeployAssumption, BoundAssumption DEF MachineInv, MachineTypeOK
<1>1. es' \in Value \cup {STOPPED}
  BY DEF ControlInv, TypeOK, PasswordInv
<1>2. file \in [Cred -> Content]
  BY DEF ControlInv, TypeOK
<1>3. NoEntries \in [Entry -> Content] /\ (keystore' = keystore => keystore' \in [Entry -> Content] \cup {ABSENT})
  BY DEF NoEntries, Content
<1>4. ASSUME NEW r \in Run, Drop(r) PROVE held' \in [Run -> Content]
  BY <1>4 DEF Drop, Content
<1>5. ASSUME NEW r \in Run, Done(r) \/ Fail(r) PROVE held' \in [Run -> Content]
  BY <1>4, <1>5 DEF Done, Fail
<1>6. ASSUME NEW r \in Run, NEW v \in Content, Hold(r, v) PROVE held' \in [Run -> Content]
  BY <1>6 DEF Hold
<1>7. EMPTY \in Content /\ ABSENT \in Content
  BY DEF Content
<1>8. Entries \in [Entry -> Content]
  BY <1>3 DEF Entries
<1>9. ASSUME NEW r \in Run, Establish(r) \/ Interrupted(r) PROVE MachineTypeOK'
  BY <1>4, <1>9 DEF Establish, Interrupted, machine, units
<1>10. ASSUME NEW r \in Run, ConfigureHost(r) \/ Sysctl(r) \/ Install(r) PROVE MachineTypeOK'
  BY <1>5, <1>6, <1>7, <1>10 DEF ConfigureHost, Sysctl, Install, units
<1>11. ASSUME NEW r \in Run, WaitElasticsearch(r) \/ WaitKibana(r) PROVE MachineTypeOK'
  BY <1>5, <1>11 DEF WaitElasticsearch, WaitKibana, machine, units
<1>12. ASSUME NEW r \in Run, RestartElasticsearch(r) \/ RestartKibana(r) PROVE MachineTypeOK'
  BY <1>1, <1>6, <1>7, <1>8, <1>12 DEF RestartElasticsearch, RestartKibana
<1>13. ASSUME NEW r \in Run, CreateKeystore(r) PROVE MachineTypeOK'
  BY <1>3, <1>5, <1>13 DEF CreateKeystore, units
<1>14. ASSUME NEW r \in Run, ReadEntry(r) PROVE MachineTypeOK'
  <2>1. file[C(r)] \in Content
    BY <1>2, <1>14, EntryFacts DEF ReadEntry, Begins
  <2> QED
    BY <1>5, <1>6, <1>14, <2>1 DEF ReadEntry, machine, units
<1>15. ASSUME NEW r \in Run, AddEntry(r) PROVE MachineTypeOK'
  <2>1. PICK j \in 1..(step[r] - 1) : Script[j].op = "keystore"
    BY <1>15, OrderAssumption DEF AddEntry, Halfway, Doing
  <2>2. keystore \in [Entry -> Content]
    BY <2>1 DEF KeystoreInv, FilledOK
  <2>3. keystore' \in [Entry -> Content]
    BY <1>15, <2>2 DEF AddEntry
  <2> QED
    BY <1>5, <1>15, <2>3 DEF AddEntry, units
<1>16. CASE UpElasticsearch \/ UpKibana \/ Crash \/ Boot
  <2>1. held' = held /\ keystore' = keystore /\ sealed' = sealed
    BY <1>16 DEF UpElasticsearch, UpKibana, Crash, Boot
  <2>2. /\ setting' \in {"unset", "file", "kernel"} /\ installed' = installed
        /\ wanted' \subseteq {"elasticsearch", "kibana"}
        /\ kibana' \in {kibana, Entries, STOPPED}
    BY <1>16 DEF UpElasticsearch, UpKibana, Crash, Boot, units
  <2>3. upsets' \in 0..MaxUpsets
    <3>1. upsets' = upsets \/ Upset
      BY <1>16 DEF UpElasticsearch, UpKibana, Crash, Boot
    <3> QED
      BY <3>1 DEF Upset
  <2> QED
    BY <1>1, <1>8, <2>1, <2>2, <2>3
<1>17. CASE Seal
  <2>1. kibana[SavedObjectsKey] \in Value
    <3>1. /\ kibana \in [Entry -> Content] /\ SavedObjectsKey \in Entry
          /\ kibana[SavedObjectsKey] # ABSENT /\ EntriesOK(kibana)
      BY <1>17 DEF Seal, KeystoreInv
    <3> QED
      BY <1>2, <3>1 DEF EntriesOK, Blank, Content
  <2> QED
    BY <1>17, <2>1 DEF Seal, units
<1>18. CASE UNCHANGED deployVars
  BY <1>18 DEF deployVars, machine, units
<1> QED
  BY <1>9, <1>10, <1>11, <1>12, <1>13, <1>14, <1>15, <1>16, <1>17, <1>18 DEF DeployNext, Perform

\* The machine and the keystore are in order in every reachable state.
LEMMA MachineAlways ==
  ASSUME OneRun
  PROVE  DeploySpec => []ControlInv /\ []StoreInv /\ []MachineInv
<1>1. ASSUME DeployInit PROVE MachineInv
  <2>1. MachineTypeOK
    <3>1. held \in [Run -> Content]
      BY <1>1 DEF DeployInit, Content
    <3>2. keystore \in [Entry -> Content] \cup {ABSENT} /\ upsets \in 0..MaxUpsets
      BY <1>1, DeployAssumption DEF DeployInit
    <3> QED
      BY <1>1, <3>1, <3>2 DEF DeployInit, MachineTypeOK
  <2>2. \A r \in Run : HeldOK(r) /\ FilledOK(r)
    BY <1>1 DEF DeployInit, Init, HeldOK, FilledOK
  <2> QED
    BY <1>1, <2>1, <2>2 DEF DeployInit, MachineInv, KeystoreInv, StartedOK, SealedOK
<1>2. ControlInv /\ ControlInv' /\ StoreInv /\ PasswordInv' /\ MachineInv /\ [DeployNext]_deployVars
        => MachineInv'
  BY KeystoreStep, MachineTypeStep DEF MachineInv
<1> QED
  BY <1>1, <1>2, PasswordAlways, PTL DEF DeploySpec

\* What the machine holds keeps its type.
THEOREM MachineTypeCorrect ==
  ASSUME OneRun
  PROVE  DeploySpec => []MachineTypeOK
<1>1. MachineInv => MachineTypeOK
  BY DEF MachineInv
<1> QED
  BY <1>1, MachineAlways, PTL

\* An entry that prepare_kibana_keystore has gone over is the protected secret, for
\* good, whatever part of the keystore interrupted runs had left.
THEOREM KeystoreAlwaysFollows ==
  ASSUME OneRun
  PROVE  DeploySpec => []KeystoreFollows
<1>1. ASSUME ControlInv, MachineInv, NEW r \in Run, NEW c \in Passed(r, "entry")
      PROVE  keystore # ABSENT /\ keystore[c] = file[c] /\ file[c] \in Value
  <2>1. PICK i \in 1..(step[r] - 1) : Script[i].op = "entry" /\ Script[i].cred = c
    BY DEF Passed
  <2>2. keystore # ABSENT /\ keystore[c] # ABSENT
    BY <1>1, <2>1 DEF MachineInv, KeystoreInv, FilledOK
  <2>3. i \in DOMAIN Script
    BY <1>1, ScriptFacts DEF ControlInv, TypeOK
  <2>4. c \in Entry /\ c \in Cred
    BY <2>1, <2>3, ScriptFacts DEF Entry, Of
  <2>5. keystore[c] = file[c] /\ ~Blank(c)
    BY <1>1, <2>2, <2>4 DEF MachineInv, KeystoreInv, EntriesOK
  <2> QED
    BY <1>1, <2>2, <2>4, <2>5 DEF ControlInv, TypeOK, Blank, Content
<1>2. ControlInv /\ MachineInv => KeystoreFollows
  BY <1>1 DEF KeystoreFollows
<1> QED
  BY <1>2, MachineAlways, PTL

\* Kibana can read every object it ever encrypted, whenever systemd starts it.
THEOREM SavedObjectsAlwaysReadable ==
  ASSUME OneRun
  PROVE  DeploySpec => []SavedObjectsReadable
<1>1. MachineInv => SavedObjectsReadable
  BY DEF MachineInv, KeystoreInv, SealedOK, EntriesOK, SavedObjectsReadable
<1> QED
  BY <1>1, MachineAlways, PTL

-----------------------------------------------------------------------------
(* configure_host, with one run at a time.                                 *)

PastHost(r) == \E i \in 1..(step[r] - 1) : Script[i].op = "host"

\* The kernel lags behind the file only while the run that wrote it stands
\* before sysctl, or after an interruption there.
SettingInv ==
  /\ setting = "file" => faults > 0 \/ \E r \in Run : Halfway(r, "host")
  /\ \A r \in Run : PastHost(r) => setting # "unset"
  /\ \A r \in Run : Halfway(r, "host") => ~PastHost(r)

\* A run is past configure_host as long as it goes on.
LEMMA HostMoves ==
  ASSUME ControlInv, NEW r \in Run
  PROVE  /\ step'[r] = 1 => ~PastHost(r)'
         /\ step'[r] = step[r] => (PastHost(r)' <=> PastHost(r))
         /\ step'[r] = step[r] + 1 => (PastHost(r)' <=> PastHost(r) \/ Script[step[r]].op = "host")
<1>1. step[r] \in Nat \ {0}
  BY ScriptFacts DEF ControlInv, TypeOK
<1> QED
  BY <1>1 DEF PastHost

\* Only configure_host brings the setting on its way, and only an interruption of it
\* leaves it half done.
LEMMA SettingStep ==
  ASSUME OneRun, ControlInv, StoreInv, MachineInv, SettingInv, [DeployNext]_deployVars
  PROVE  SettingInv'
<1>1. held \in [Run -> Content] /\ faults \in Nat /\ setting \in {"unset", "file", "kernel"}
  BY BoundAssumption DEF ControlInv, TypeOK, MachineInv, MachineTypeOK
<1>2. \A r, q \in Run : q = r
  BY DEF OneRun
\* A run that holds nothing afterwards, and what it may have done.
<1>3. ASSUME NEW r \in Run, held'[r] = ABSENT,
             setting' # "unset" \/ (setting' = setting /\ (PastHost(r)' => PastHost(r))),
             setting' = "file" => faults' > 0
      PROVE  SettingInv'
  <2>1. \A q \in Run : ~Halfway(q, "host")'
    BY <1>2, <1>3 DEF Halfway
  <2>2. \A q \in Run : PastHost(q)' => setting' # "unset"
    BY <1>2, <1>3 DEF SettingInv
  <2> QED
    BY <1>3, <2>1, <2>2 DEF SettingInv
\* Nothing of it changes.
<1>4. ASSUME UNCHANGED <<setting, held, faults, pc, step>> PROVE SettingInv'
  BY <1>4 DEF SettingInv, Halfway, At, Doing, PastHost
\* A run that stands elsewhere holds nothing of configure_host.
<1>5. ASSUME NEW r \in Run, ~Halfway(r, "host"), setting = "file" PROVE faults > 0
  BY <1>2, <1>5 DEF SettingInv
<1>6. ASSUME NEW r \in Run, Establish(r) PROVE SettingInv'
  <2>1. /\ held[r] = ABSENT
        /\ \/ step'[r] \in {1, step[r]}
           \/ step'[r] = step[r] + 1 /\ Script[step[r]].op \notin Other
    BY <1>6, EstablishMoves DEF MachineInv, KeystoreInv, HeldOK
  <2>2. PastHost(r)' => PastHost(r)
    BY <2>1, HostMoves DEF Other
  <2>3. setting' = setting /\ held' = held /\ faults' = faults
    <3>1. Step(r) /\ UNCHANGED <<held, machine>>
      BY <1>6 DEF Establish
    <3> QED
      BY <3>1 DEF Step, Start, Finish, EnsureSecret, CreateToken, PostToken, OpenFile, WriteFile,
                  Chmod, ReadSource, Inspect, Create, OpenRecord, WriteRecord, Compare, OtherStep,
                  machine
  <2> QED
    BY <1>3, <1>5, <2>1, <2>2, <2>3 DEF Halfway, SettingInv
<1>7. ASSUME NEW r \in Run, Interrupted(r) PROVE SettingInv'
  <2>1. /\ step'[r] \in {1, step[r]} /\ held'[r] = ABSENT
    BY <1>1, <1>7, OtherMoves
  <2>2. faults' = faults + 1 /\ setting' = setting
    BY <1>7 DEF Interrupted, Interrupt, InspectFails, machine
  <2> QED
    BY <1>1, <1>3, <2>1, <2>2, HostMoves
<1>8. ASSUME NEW r \in Run, ConfigureHost(r) PROVE SettingInv'
  <2>1. Begins(r, "host")
    BY <1>8 DEF ConfigureHost
  <2>2. CASE setting = "unset" /\ setting' = "file" /\ Hold(r, EMPTY)
    <3>1. ~PastHost(r) /\ held'[r] = EMPTY /\ UNCHANGED vars
      BY <1>1, <2>2 DEF SettingInv, Hold
    <3>2. Halfway(r, "host")' /\ ~PastHost(r)'
      BY <2>1, <3>1, SentinelAssumption DEF Halfway, Begins, At, Doing, PastHost, vars
    <3> QED
      BY <1>2, <2>2, <3>2 DEF SettingInv
  <2>3. CASE setting # "unset" /\ UNCHANGED setting /\ Done(r)
    <3>1. held'[r] = ABSENT
      BY <1>1, <2>3, OtherMoves
    <3>2. setting = "file" => faults > 0
      BY <1>5, <2>1 DEF Halfway, Begins
    <3>3. faults' = faults
      BY <2>3 DEF Done
    <3> QED
      BY <1>3, <2>3, <3>1, <3>2, <3>3
  <2> QED
    BY <1>8, <2>2, <2>3 DEF ConfigureHost
<1>9. ASSUME NEW r \in Run, Sysctl(r) PROVE SettingInv'
  <2>1. held'[r] = ABSENT
    BY <1>1, <1>9, OtherMoves DEF Sysctl
  <2> QED
    BY <1>3, <1>9, <2>1 DEF Sysctl
\* The other steps of deploy leave the setting alone.
<1>10. ASSUME NEW r \in Run, NEW op \in Other \ {"host"}, Begins(r, op) \/ Halfway(r, op),
              setting' = setting,
              Done(r) \/ Fail(r) \/ \E v : Hold(r, v)
       PROVE  SettingInv'
  <2>1. ~Halfway(r, "host") /\ Script[step[r]].op # "host"
    BY <1>10 DEF Begins, Halfway, Doing
  <2>2. CASE Done(r) \/ Fail(r)
    <3>1. held'[r] = ABSENT /\ step'[r] \in {1, step[r], step[r] + 1}
      BY <1>1, <2>2, OtherMoves
    <3>2. PastHost(r)' => PastHost(r)
      BY <2>1, <3>1, HostMoves
    <3>3. faults' = faults
      BY <2>2 DEF Done, Fail
    <3> QED
      BY <1>3, <1>5, <1>10, <2>1, <3>1, <3>2, <3>3
  <2>3. ASSUME NEW v, Hold(r, v) PROVE SettingInv'
    <3>1. UNCHANGED <<pc, step, faults>>
      BY <2>3 DEF Hold, vars
    <3>2. ~Halfway(r, "host")'
      BY <2>1, <3>1, <1>10 DEF Halfway, Begins, Doing
    <3>3. setting' = "file" => faults' > 0
      BY <1>5, <1>10, <2>1, <3>1
    <3>4. PastHost(r)' <=> PastHost(r)
      BY <3>1 DEF PastHost
    <3> QED
      BY <1>2, <1>10, <3>2, <3>3, <3>4 DEF SettingInv
  <2> QED
    BY <1>10, <2>2, <2>3
<1>11. ASSUME NEW r \in Run,
              \/ Install(r) \/ RestartElasticsearch(r) \/ WaitElasticsearch(r)
              \/ CreateKeystore(r) \/ ReadEntry(r) \/ AddEntry(r)
              \/ RestartKibana(r) \/ WaitKibana(r)
       PROVE  SettingInv'
  <2>1. setting' = setting
    BY <1>11 DEF Install, RestartElasticsearch, WaitElasticsearch, CreateKeystore, ReadEntry,
                 AddEntry, RestartKibana, WaitKibana, machine
  <2>2. Done(r) \/ Fail(r) \/ \E v : Hold(r, v)
    BY <1>11 DEF Install, RestartElasticsearch, WaitElasticsearch, CreateKeystore, ReadEntry,
                 AddEntry, RestartKibana, WaitKibana
  <2>3. \E op \in Other \ {"host"} : Begins(r, op) \/ Halfway(r, op)
    BY <1>11 DEF Install, RestartElasticsearch, WaitElasticsearch, CreateKeystore, ReadEntry,
                 AddEntry, RestartKibana, WaitKibana, Other
  <2> QED
    BY <1>10, <2>1, <2>2, <2>3
<1>12. CASE UpElasticsearch \/ UpKibana \/ Seal \/ Crash
  BY <1>4, <1>12 DEF UpElasticsearch, UpKibana, Seal, Crash, vars
<1>13. CASE Boot
  <2>1. UNCHANGED <<held, pc, step, faults>> /\ setting' = (IF setting = "unset" THEN "unset" ELSE "kernel")
    BY <1>13 DEF Boot, vars
  <2>2. \A r \in Run : /\ Halfway(r, "host")' <=> Halfway(r, "host")
                       /\ PastHost(r)' <=> PastHost(r)
    BY <2>1 DEF Halfway, At, Doing, PastHost
  <2> QED
    BY <1>1, <2>1, <2>2 DEF SettingInv
<1>14. CASE UNCHANGED deployVars
  BY <1>4, <1>14 DEF deployVars, vars, machine
<1> QED
  BY <1>6, <1>7, <1>8, <1>9, <1>11, <1>12, <1>13, <1>14 DEF DeployNext, Perform

\* Past configure_host the kernel has the setting, unless a run was interrupted
\* between the file and sysctl: nothing else loses it, no crash and no boot.
THEOREM SettingStaysApplied ==
  ASSUME OneRun
  PROVE  DeploySpec => []SettingApplied
<1>1. ASSUME DeployInit PROVE SettingInv
  BY <1>1 DEF DeployInit, Init, SettingInv, PastHost, Halfway
<1>2. ControlInv /\ StoreInv /\ MachineInv /\ SettingInv /\ [DeployNext]_deployVars => SettingInv'
  BY SettingStep
<1>3. ASSUME MachineInv, SettingInv, NEW r \in Run, PastHost(r)
      PROVE  setting = "kernel" \/ (LostSetting /\ faults > 0)
  <2>1. \A q \in Run : ~Halfway(q, "host")
    BY <1>3 DEF SettingInv, OneRun
  <2>2. setting \in {"file", "kernel"}
    BY <1>3 DEF SettingInv, MachineInv, MachineTypeOK
  <2> QED
    BY <1>3, <2>1, <2>2 DEF SettingInv, LostSetting
<1>4. MachineInv /\ SettingInv => SettingApplied
  BY <1>3 DEF SettingApplied, PastHost
<1> QED
  BY <1>1, <1>2, <1>4, MachineAlways, PTL DEF DeploySpec

-----------------------------------------------------------------------------
(* The service tokens in the keystore, with any number of runs.            *)

\* What prepare_kibana_keystore has gone over of the service tokens is the token in
\* the protected file, whichever run wrote it.
ServiceEntriesFollow ==
  \A r \in Run : \A c \in Passed(r, "entry") \cap Of("service") :
    keystore # ABSENT /\ keystore[c] = file[c] /\ file[c] \in Value

TokenHeld(r) ==
  held[r] # ABSENT =>
    /\ At(r, "next") /\ Doing(r, Other)
    /\ Doing(r, {"entry"}) /\ C(r) \in Of("service") => held[r] = file[C(r)] /\ ~Blank(C(r))

TokenFilled(r) ==
  \A i \in 1..(step[r] - 1) :
    /\ Script[i].op = "keystore" => keystore # ABSENT
    /\ Script[i].op = "entry" /\ Script[i].cred \in Of("service") =>
         keystore # ABSENT /\ keystore[Script[i].cred] # ABSENT

TokenEntriesOK ==
  keystore # ABSENT =>
    \A c \in Entry \cap Of("service") : keystore[c] # ABSENT => keystore[c] = file[c] /\ ~Blank(c)

SharedTypes ==
  held \in [Run -> Content] /\ keystore \in [Entry -> Content] \cup {ABSENT}

SharedInv ==
  /\ SharedTypes /\ TokenEntriesOK
  /\ \A r \in Run : TokenHeld(r) /\ TokenFilled(r)

\* The keystore is never taken away, nor an entry of it.
Kept ==
  keystore # ABSENT =>
    keystore' # ABSENT /\ \A c \in Entry : keystore[c] # ABSENT => keystore'[c] # ABSENT

\* The steps of one run leave what the others hold and where they are.
OthersStay(r) ==
  \A q \in Run : q # r => pc'[q] = pc[q] /\ step'[q] = step[q] /\ held'[q] = held[q]

\* Where the steps of Other lead, for the run and for the others.
LEMMA OtherStays ==
  ASSUME ControlInv, SharedTypes, NEW r \in Run
  PROVE  /\ Done(r) \/ Fail(r) \/ Interrupted(r) => OthersStay(r) /\ held' \in [Run -> Content]
         /\ \A v \in Content : Hold(r, v) =>
              /\ OthersStay(r) /\ held' \in [Run -> Content]
              /\ held'[r] = v /\ UNCHANGED <<pc, step, file>>
<1>1. ABSENT \in Content
  BY DEF Content
<1>2. ASSUME Done(r) \/ Fail(r) \/ Interrupted(r)
      PROVE  OthersStay(r) /\ held' \in [Run -> Content]
  <2>1. held' = [held EXCEPT ![r] = ABSENT]
    BY <1>2 DEF Done, Fail, Interrupted, Drop
  <2>2. \A q \in Run : q # r => pc'[q] = pc[q] /\ step'[q] = step[q]
    BY <1>2 DEF Done, Fail, Interrupted, Interrupt, InspectFails, Return, Exit, Goto,
                ControlInv, TypeOK
  <2> QED
    BY <1>1, <2>1, <2>2 DEF SharedTypes, OthersStay
<1>3. ASSUME NEW v \in Content, Hold(r, v)
      PROVE  /\ OthersStay(r) /\ held' \in [Run -> Content]
             /\ held'[r] = v /\ UNCHANGED <<pc, step, file>>
  BY <1>3 DEF Hold, vars, SharedTypes, OthersStay
<1> QED
  BY <1>2, <1>3

\* Runs that interleave keep each other's service tokens: the first one that writes
\* a token is the only one.
LEMMA SharedStep ==
  ASSUME ControlInv, ServiceInv, ServiceDone, SharedInv, [DeployNext]_deployVars
  PROVE  SharedInv'
<1>1. [Next]_vars
  BY DeployStep DEF deployVars, vars
<1>2. \A c \in Of("service") : ~Blank(c) => file'[c] = file[c] /\ ~Blank(c)'
  BY <1>1, ServiceStays
<1>3. /\ \A r \in Run : step[r] \in Nat /\ step[r] \in 1..(Len(Script) + 1)
      /\ \A i \in 1..Len(Script) : Script[i].op = "entry" => Script[i].cred \in Entry
      /\ Len(Script) \in Nat
  <2>1. \A i \in 1..Len(Script) : Script[i].op = "entry" => Script[i].cred \in Entry
    BY ScriptFacts DEF Entry, Of
  <2>2. \A n \in 1..(Len(Script) + 1) : n \in Nat
    BY ScriptFacts
  <2> QED
    BY <2>1, <2>2, ScriptFacts DEF ControlInv, TypeOK
<1>4. SharedTypes /\ TokenEntriesOK /\ \A r \in Run : TokenHeld(r) /\ TokenFilled(r)
  BY DEF SharedInv
\* A run that stays where it is.
<1>5. ASSUME NEW q \in Run, pc'[q] = pc[q], step'[q] = step[q], held'[q] = held[q], Kept
      PROVE  TokenHeld(q)' /\ TokenFilled(q)'
  <2>1. TokenHeld(q)'
    BY <1>2, <1>4, <1>5 DEF TokenHeld, At, Doing, C
  <2>2. \A i \in 1..(step[q] - 1) : Script[i].op = "entry" => Script[i].cred \in Entry
    BY <1>3
  <2>3. TokenFilled(q)'
    BY <1>4, <1>5, <2>2 DEF TokenFilled, Kept
  <2> QED
    BY <2>1, <2>3
\* Only the run that moves has to be looked at.
<1>6. ASSUME NEW r \in Run, OthersStay(r), Kept, SharedTypes', TokenEntriesOK',
             TokenHeld(r)', TokenFilled(r)'
      PROVE  SharedInv'
  BY <1>5, <1>6 DEF SharedInv, OthersStay
<1>7. keystore' = keystore =>
        Kept /\ TokenEntriesOK' /\ (held' \in [Run -> Content] => SharedTypes')
  BY <1>2, <1>4 DEF Kept, TokenEntriesOK, SharedTypes
\* A run that holds nothing afterwards, and where it may have gone.
<1>8. ASSUME NEW r \in Run, OthersStay(r), keystore' = keystore, held'[r] = ABSENT,
             held' \in [Run -> Content],
             \/ step'[r] \in {1, step[r]}
             \/ step'[r] = step[r] + 1 /\ Script[step[r]].op \notin {"keystore", "entry"}
      PROVE  SharedInv'
  <2>1. TokenHeld(r)'
    BY <1>8 DEF TokenHeld
  <2>2. ASSUME NEW i \in 1..(step'[r] - 1), Script[i].op \in {"keystore", "entry"}
        PROVE  i \in 1..(step[r] - 1)
    <3>1. CASE step'[r] \in {1, step[r]}
      BY <1>3, <2>2, <3>1
    <3>2. CASE step'[r] = step[r] + 1 /\ Script[step[r]].op \notin {"keystore", "entry"}
      BY <1>3, <2>2, <3>2
    <3> QED
      BY <1>8, <3>1, <3>2
  <2>3. TokenFilled(r)'
    BY <1>4, <1>8, <2>2 DEF TokenFilled
  <2> QED
    BY <1>6, <1>7, <1>8, <2>1, <2>3
<1>9. ASSUME NEW r \in Run, Establish(r) PROVE SharedInv'
  <2>1. UNCHANGED <<held, keystore>>
    BY <1>9 DEF Establish, machine
  <2>2. /\ held[r] = ABSENT
        /\ \A q \in Run : q # r => step'[q] = step[q] /\ pc'[q] = pc[q]
        /\ \/ step'[r] \in {1, step[r]}
           \/ step'[r] = step[r] + 1 /\ Script[step[r]].op \notin Other
    BY <1>4, <1>9, EstablishMoves DEF TokenHeld
  <2>3. OthersStay(r)
    BY <2>1, <2>2 DEF OthersStay
  <2>4. held' \in [Run -> Content] /\ held'[r] = ABSENT
    BY <1>4, <2>1, <2>2 DEF SharedTypes
  <2> QED
    BY <1>8, <2>1, <2>2, <2>3, <2>4 DEF Other
<1>10. ASSUME NEW r \in Run, keystore' = keystore,
              \/ Interrupted(r) \/ Fail(r)
              \/ Done(r) /\ Script[step[r]].op \notin {"keystore", "entry"}
       PROVE  SharedInv'
  <2>1. OthersStay(r) /\ held' \in [Run -> Content]
    BY <1>4, <1>10, OtherStays
  <2>2. /\ held'[r] = ABSENT
        /\ \/ step'[r] \in {1, step[r]}
           \/ step'[r] = step[r] + 1 /\ Script[step[r]].op \notin {"keystore", "entry"}
    BY <1>4, <1>10, OtherMoves DEF SharedTypes
  <2> QED
    BY <1>8, <1>10, <2>1, <2>2
<1>11. ASSUME NEW r \in Run, NEW v \in Content, Hold(r, v), At(r, "next"), Doing(r, Other),
              Doing(r, {"entry"}) /\ C(r) \in Of("service") => v = file[C(r)] /\ ~Blank(C(r)),
              keystore' = keystore
       PROVE  SharedInv'
  <2>1. /\ OthersStay(r) /\ held' \in [Run -> Content]
        /\ held'[r] = v /\ UNCHANGED <<pc, step, file>>
    BY <1>4, <1>11, OtherStays
  <2>2. TokenHeld(r)'
    BY <1>11, <2>1 DEF TokenHeld, At, Doing, C, Blank
  <2>3. TokenFilled(r)'
    BY <1>4, <1>11, <2>1 DEF TokenFilled
  <2> QED
    BY <1>6, <1>7, <1>11, <2>1, <2>2, <2>3
<1>12. EMPTY \in Content
  BY DEF Content
<1>13. ASSUME NEW r \in Run,
              \/ ConfigureHost(r) \/ Sysctl(r) \/ Install(r) \/ RestartElasticsearch(r)
              \/ WaitElasticsearch(r) \/ RestartKibana(r) \/ WaitKibana(r)
       PROVE  SharedInv'
  <2>1. keystore' = keystore /\ At(r, "next") /\ Doing(r, Other) /\ ~Doing(r, {"keystore", "entry"})
    BY <1>13 DEF ConfigureHost, Sysctl, Install, RestartElasticsearch, WaitElasticsearch,
                 RestartKibana, WaitKibana, Begins, Halfway, Doing, Other, machine
  <2>2. Script[step[r]].op \notin {"keystore", "entry"} /\ ~Doing(r, {"entry"})
    BY <2>1 DEF Doing
  <2>3. Done(r) \/ Fail(r) \/ Hold(r, EMPTY)
    BY <1>13 DEF ConfigureHost, Sysctl, Install, RestartElasticsearch, WaitElasticsearch,
                 RestartKibana, WaitKibana
  <2> QED
    BY <1>10, <1>11, <1>12, <2>1, <2>2, <2>3
<1>14. ASSUME NEW r \in Run, CreateKeystore(r) PROVE SharedInv'
  <2>1. /\ Done(r) /\ Script[step[r]].op = "keystore"
        /\ keystore' = IF keystore = ABSENT THEN NoEntries ELSE keystore
    BY <1>14 DEF CreateKeystore, Begins, Doing
  <2>2. OthersStay(r) /\ held' \in [Run -> Content]
    BY <1>4, <2>1, OtherStays
  <2>3. held'[r] = ABSENT /\ step'[r] = step[r] + 1
    BY <1>4, <2>1, OtherMoves DEF SharedTypes
  <2>4. NoEntries \in [Entry -> Content] /\ NoEntries # ABSENT
    BY KeystoreAssumption DEF NoEntries, Content
  <2>5. keystore' # ABSENT /\ Kept /\ SharedTypes'
    BY <1>4, <2>1, <2>2, <2>4 DEF Kept, SharedTypes
  <2>6. TokenEntriesOK'
    BY <1>2, <1>4, <2>1 DEF TokenEntriesOK, NoEntries
  <2>7. TokenHeld(r)'
    BY <2>3 DEF TokenHeld
  <2>8. TokenFilled(r)'
    <3>1. ASSUME NEW i \in 1..step[r], Script[i].op = "entry", Script[i].cred \in Of("service")
          PROVE  keystore'[Script[i].cred] # ABSENT
      <4>1. i \in 1..(step[r] - 1)
        BY <1>3, <2>1, <3>1
      <4>2. keystore # ABSENT /\ keystore[Script[i].cred] # ABSENT
        BY <1>4, <3>1, <4>1 DEF TokenFilled
      <4> QED
        BY <2>1, <4>2
    <3> QED
      BY <1>3, <2>3, <2>5, <3>1 DEF TokenFilled
  <2> QED
    BY <1>6, <2>2, <2>5, <2>6, <2>7, <2>8
<1>15. ASSUME NEW r \in Run, ReadEntry(r) PROVE SharedInv'
  <2>1. /\ keystore' = keystore /\ At(r, "next") /\ Doing(r, {"entry"}) /\ Doing(r, Other)
        /\ step[r] \in DOMAIN Script /\ Script[step[r]].op = "entry"
    BY <1>15 DEF ReadEntry, Begins, Doing, Other, machine
  <2>2. CASE Fail(r)
    BY <1>10, <2>1, <2>2
  <2>3. CASE Hold(r, file[C(r)])
    <3>1. file[C(r)] \in Content
      BY <2>1, ScriptFacts DEF ControlInv, TypeOK, C
    <3>2. C(r) \in Of("service") => ~Blank(C(r))
      <4>1. PICK j \in 1..(step[r] - 1) : Script[j].op \in Origin /\ Script[j].cred = C(r)
        BY <2>1, OrderAssumption DEF C
      <4>2. j \in DOMAIN Script
        BY <1>3, ScriptFacts
      <4>3. C(r) \in Of("service") => Script[j].op = "service"
        BY <4>1, <4>2, ScriptAssumption DEF Of, Origin
      <4> QED
        BY <4>1, <4>3 DEF ServiceDone, ServiceDoneBy
    <3> QED
      BY <1>11, <2>1, <2>3, <3>1, <3>2
  <2> QED
    BY <1>15, <2>2, <2>3 DEF ReadEntry
<1>16. ASSUME NEW r \in Run, AddEntry(r) PROVE SharedInv'
  <2>1. /\ Done(r) /\ keystore' = [keystore EXCEPT ![C(r)] = held[r]]
        /\ Doing(r, {"entry"}) /\ held[r] # ABSENT
        /\ step[r] \in DOMAIN Script /\ Script[step[r]].op = "entry"
    BY <1>16 DEF AddEntry, Halfway, Doing
  <2>2. OthersStay(r) /\ held' \in [Run -> Content]
    BY <1>4, <2>1, OtherStays
  <2>3. held'[r] = ABSENT /\ step'[r] = step[r] + 1 /\ file' = file
    BY <1>4, <2>1, OtherMoves DEF SharedTypes
  <2>4. C(r) \in Entry /\ C(r) = Script[step[r]].cred
    BY <2>1, EntryFacts DEF C
  <2>5. keystore \in [Entry -> Content]
    <3>1. PICK j \in 1..(step[r] - 1) : Script[j].op = "keystore"
      BY <2>1, OrderAssumption
    <3>2. keystore # ABSENT
      BY <1>4, <3>1 DEF TokenFilled
    <3> QED
      BY <1>4, <3>2 DEF SharedTypes
  <2>6. keystore' \in [Entry -> Content] /\ keystore' # ABSENT /\ keystore'[C(r)] = held[r]
        /\ \A c \in Entry : c # C(r) => keystore'[c] = keystore[c]
    BY <1>4, <2>1, <2>4, <2>5, KeystoreAssumption DEF SharedTypes
  <2>7. Kept /\ SharedTypes'
    BY <2>1, <2>2, <2>6 DEF Kept, SharedTypes
  <2>8. TokenEntriesOK'
    <3>1. ASSUME NEW c \in Entry \cap Of("service"), keystore'[c] # ABSENT
          PROVE  keystore'[c] = file'[c] /\ ~Blank(c)'
      <4>1. CASE c = C(r)
        <5>1. held[r] = file[c] /\ ~Blank(c)
          BY <1>4, <2>1, <3>1, <4>1 DEF TokenHeld
        <5> QED
          BY <1>2, <2>6, <4>1, <5>1
      <4>2. CASE c # C(r)
        <5>1. keystore'[c] = keystore[c] /\ keystore # ABSENT
          BY <2>5, <2>6, <4>2, KeystoreAssumption
        <5>2. keystore[c] = file[c] /\ ~Blank(c)
          BY <1>4, <3>1, <5>1 DEF TokenEntriesOK
        <5> QED
          BY <1>2, <5>1, <5>2
      <4> QED
        BY <4>1, <4>2
    <3> QED
      BY <3>1 DEF TokenEntriesOK
  <2>9. TokenHeld(r)'
    BY <2>3 DEF TokenHeld
  <2>10. TokenFilled(r)'
    <3>1. ASSUME NEW i \in 1..step[r], Script[i].op = "entry", Script[i].cred \in Of("service")
          PROVE  keystore'[Script[i].cred] # ABSENT
      <4>1. CASE i = step[r]
        BY <2>1, <2>4, <2>6, <4>1
      <4>2. CASE i \in 1..(step[r] - 1)
        <5>1. keystore # ABSENT /\ keystore[Script[i].cred] # ABSENT /\ Script[i].cred \in Entry
          BY <1>3, <1>4, <3>1, <4>2 DEF TokenFilled
        <5> QED
          BY <2>7, <5>1 DEF Kept
      <4> QED
        BY <1>3, <4>1, <4>2
    <3> QED
      BY <1>3, <2>3, <2>6, <3>1 DEF TokenFilled
  <2> QED
    BY <1>6, <2>2, <2>7, <2>8, <2>9, <2>10
<1>17. ASSUME NEW r \in Run, Interrupted(r) PROVE SharedInv'
  BY <1>10, <1>17 DEF Interrupted, machine
<1>18. CASE UpElasticsearch \/ UpKibana \/ Seal \/ Crash \/ Boot \/ UNCHANGED deployVars
  <2>1. UNCHANGED <<pc, step, held, keystore>>
    BY <1>18 DEF UpElasticsearch, UpKibana, Seal, Crash, Boot, deployVars, vars, machine
  <2>2. Kept /\ TokenEntriesOK' /\ SharedTypes'
    BY <1>4, <1>7, <2>1 DEF SharedTypes
  <2> QED
    BY <1>5, <2>1, <2>2 DEF SharedInv
<1> QED
  BY <1>9, <1>13, <1>14, <1>15, <1>16, <1>17, <1>18 DEF DeployNext, Perform

\* Two deploys at once never give Kibana another service token than the one in the
\* file, with no lock between them.
THEOREM ServiceEntriesAlwaysFollow == DeploySpec => []ServiceEntriesFollow
<1>1. ASSUME DeployInit PROVE SharedInv
  <2>1. SharedTypes
    BY <1>1 DEF DeployInit, SharedTypes, Content
  <2> QED
    BY <1>1, <2>1 DEF DeployInit, Init, SharedInv, TokenEntriesOK, TokenHeld, TokenFilled
<1>2. ControlInv /\ ServiceInv /\ ServiceDone /\ SharedInv /\ [DeployNext]_deployVars => SharedInv'
  BY SharedStep
<1>3. ASSUME ControlInv, SharedInv, NEW r \in Run, NEW c \in Passed(r, "entry") \cap Of("service")
      PROVE  keystore # ABSENT /\ keystore[c] = file[c] /\ file[c] \in Value
  <2>1. PICK i \in 1..(step[r] - 1) : Script[i].op = "entry" /\ Script[i].cred = c
    BY DEF Passed
  <2>2. keystore # ABSENT /\ keystore[c] # ABSENT
    BY <1>3, <2>1 DEF SharedInv, TokenFilled
  <2>3. i \in DOMAIN Script
    BY <1>3, ScriptFacts DEF ControlInv, TypeOK
  <2>4. c \in Entry /\ c \in Cred
    BY <2>1, <2>3, ScriptFacts DEF Entry, Of
  <2>5. keystore[c] = file[c] /\ ~Blank(c)
    BY <1>3, <2>2, <2>4 DEF SharedInv, TokenEntriesOK
  <2> QED
    BY <1>3, <2>2, <2>4, <2>5 DEF ControlInv, TypeOK, Blank, Content
<1>4. ControlInv /\ SharedInv => ServiceEntriesFollow
  BY <1>3 DEF ServiceEntriesFollow
<1> QED
  BY <1>1, <1>2, <1>4, DeployKeepsCredentials, ControlAlways, ServiceAlways, PTL DEF DeploySpec
================================================================================
