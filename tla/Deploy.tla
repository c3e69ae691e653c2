--------------------------------- MODULE Deploy ---------------------------------
(***************************************************************************)
(* deploy as a whole: the steps of Credentials between those that use what *)
(* they establish.  deploy sets the kernel up, installs the units, starts  *)
(* Elasticsearch with the elastic password, copies the service token and   *)
(* the encryption keys into Kibana's keystore and starts Kibana.           *)
(*                                                                         *)
(* Elasticsearch and Kibana go on by themselves: systemd starts what is    *)
(* wanted whenever it is down, after a crash and after a boot, from the    *)
(* Podman secrets and the keystore that are there at that moment.          *)
(*                                                                         *)
(* The copies and the renderings under runtime/ are module Rollout's, the  *)
(* polling inside a wait is module Readiness's, and Fleet's objects are    *)
(* module FleetPolicies's.                                                 *)
(***************************************************************************)
EXTENDS Credentials

CONSTANTS
  ElasticPassword,  \* the credential Elasticsearch is started with
  KibanaToken,      \* the service token Kibana presents to Elasticsearch
  SavedObjectsKey,  \* the key Kibana encrypts saved objects with
  STOPPED,          \* no container of the service runs
  MaxUpsets         \* bound: crashes and boots of the machine

ASSUME DeployAssumption ==
  /\ {ElasticPassword, KibanaToken, SavedObjectsKey} \subseteq Cred
  /\ STOPPED \notin Nat \cup {ABSENT, EMPTY}
  /\ MaxUpsets \in Nat

\* Elasticsearch is started after its password was mounted, and an entry is made
\* in a keystore that is there, of a secret that was established.
ASSUME OrderAssumption ==
  \A i \in DOMAIN Script :
    /\ Script[i].op = "elasticsearch" =>
         \E j \in 1..(i - 1) : Script[j].op = "mount" /\ Script[j].cred = ElasticPassword
    /\ Script[i].op = "entry" =>
         /\ \E j \in 1..(i - 1) : Script[j].op = "keystore"
         /\ \E j \in 1..(i - 1) : Script[j].op \in Origin /\ Script[j].cred = Script[i].cred

VARIABLES
  held,      \* held[r]: what r holds in the middle of a step of Other
  setting,   \* vm.max_map_count: "unset", in the "file", or also in the "kernel"
  installed, \* the units are installed: a boot starts them
  wanted,    \* the services systemd keeps running
  es,        \* the password Elasticsearch was started with
  keystore,  \* kibana.keystore: deploy's entries, ABSENT or the content
  kibana,    \* the entries Kibana was started with
  sealed,    \* the keys that saved objects have been encrypted with
  upsets     \* crashes and boots so far

units == <<installed, wanted>>
machine == <<setting, units, es, keystore, kibana, sealed, upsets>>
deployVars == <<vars, held, machine>>

Entry == Of("entry")
NoEntries == [c \in Entry |-> ABSENT]

\* A keystore is there or absent, Kibana runs with entries or is stopped.
ASSUME KeystoreAssumption == ABSENT \notin [Entry -> Content] /\ STOPPED \notin [Entry -> Content]

DeployInit ==
  /\ Init
  /\ held = [r \in Run |-> ABSENT]
  /\ setting = "unset"
  /\ installed = FALSE
  /\ wanted = {}
  /\ es = STOPPED
  /\ keystore = ABSENT
  /\ kibana = STOPPED
  /\ sealed = {}
  /\ upsets = 0

-----------------------------------------------------------------------------
(* The control of a step of Other, which may hold a value halfway.         *)

Begins(r, op) == At(r, "next") /\ Doing(r, {op}) /\ held[r] = ABSENT
Halfway(r, op) == At(r, "next") /\ Doing(r, {op}) /\ held[r] # ABSENT

Hold(r, v) == held' = [held EXCEPT ![r] = v] /\ UNCHANGED vars
Drop(r) == held' = [held EXCEPT ![r] = ABSENT]
Done(r) == Drop(r) /\ Return(r) /\ UNCHANGED <<stores, issued, faults>>
Fail(r) == Drop(r) /\ Exit(r) /\ UNCHANGED <<stores, issued, faults>>

\* Elasticsearch accepts the password that deploy's clients read from the file;
\* Kibana is available when Elasticsearch accepts its token.
Serves == es # STOPPED /\ es = file[ElasticPassword]
Available == Serves /\ kibana # STOPPED /\ kibana[KibanaToken] \in issued[KibanaToken]

\* A step of Credentials.  A request that is not served ends the run where it
\* stands: that is an Interrupt.
Establish(r) ==
  /\ At(r, "next") => ~Doing(r, Other)
  /\ Step(r)
  /\ At(r, "post") => IF Doing(r, {"service"}) THEN Serves ELSE Available
  /\ UNCHANGED <<held, machine>>

Interrupted(r) ==
  /\ Interrupt(r) \/ InspectFails(r)
  /\ Drop(r)
  /\ UNCHANGED machine

-----------------------------------------------------------------------------
(* configure_host, install_quadlets, start_elasticsearch.                  *)

\* Mutant: sysctl is not run.
ConfigureHostLater(r) ==
  /\ Begins(r, "host")
  /\ setting' = IF setting = "unset" THEN "file" ELSE setting
  /\ Done(r)
  /\ UNCHANGED <<units, es, keystore, kibana, sealed, upsets>>

\* The file is written when it does not hold what is expected, and only then
\* does sysctl tell the kernel.
ConfigureHost(r) ==
  /\ Begins(r, "host")
  /\ \/ setting = "unset" /\ setting' = "file" /\ Hold(r, EMPTY)
     \/ setting # "unset" /\ UNCHANGED setting /\ Done(r)
  /\ UNCHANGED <<units, es, keystore, kibana, sealed, upsets>>

Sysctl(r) ==
  /\ Halfway(r, "host")
  /\ setting' = "kernel"
  /\ Done(r)
  /\ UNCHANGED <<units, es, keystore, kibana, sealed, upsets>>

\* render_all, pull_images, install_quadlets.
Install(r) ==
  /\ Begins(r, "install")
  /\ installed' = TRUE
  /\ Done(r)
  /\ UNCHANGED <<setting, wanted, es, keystore, kibana, sealed, upsets>>

\* The restart of Elasticsearch takes Kibana along, which requires it.
RestartElasticsearch(r) ==
  /\ Begins(r, "elasticsearch")
  /\ wanted' = wanted \cup {"elasticsearch"}
  /\ es' = podman[ElasticPassword]
  /\ kibana' = STOPPED
  /\ Hold(r, EMPTY)
  /\ UNCHANGED <<setting, installed, keystore, sealed, upsets>>

\* The wait fails when the password can never be accepted.
WaitElasticsearch(r) ==
  /\ Halfway(r, "elasticsearch")
  /\ \/ Serves /\ Done(r)
     \/ podman[ElasticPassword] # file[ElasticPassword] /\ Fail(r)
  /\ UNCHANGED machine

-----------------------------------------------------------------------------
(* prepare_kibana_keystore, start_kibana.                                  *)

\* Mutants: the keystore is made anew by every run; a keystore that is there is
\* taken for a complete one.
CreateKeystoreAnew(r) ==
  /\ Begins(r, "keystore")
  /\ keystore' = NoEntries
  /\ Done(r)
  /\ UNCHANGED <<setting, units, es, kibana, sealed, upsets>>

CreateKeystoreOnce(r) ==
  /\ Begins(r, "keystore")
  /\ IF keystore = ABSENT
       THEN keystore' = NoEntries /\ Done(r)
       ELSE /\ step' = [step EXCEPT ![r] = @ + 1 + Cardinality(Entry)]
            /\ UNCHANGED <<keystore, held, stores, issued, pc, val, faults>>
  /\ UNCHANGED <<setting, units, es, kibana, sealed, upsets>>

CreateKeystore(r) ==
  /\ Begins(r, "keystore")
  /\ keystore' = IF keystore = ABSENT THEN NoEntries ELSE keystore
  /\ Done(r)
  /\ UNCHANGED <<setting, units, es, kibana, sealed, upsets>>

\* A missing secret and a key that is too short are errors; an empty token is
\* an entry like any other.
ReadEntry(r) ==
  /\ Begins(r, "entry")
  /\ IF file[C(r)] = ABSENT \/ (file[C(r)] = EMPTY /\ C(r) # KibanaToken)
       THEN Fail(r)
       ELSE Hold(r, file[C(r)])
  /\ UNCHANGED machine

AddEntry(r) ==
  /\ Halfway(r, "entry")
  /\ keystore' = [keystore EXCEPT ![C(r)] = held[r]]
  /\ Done(r)
  /\ UNCHANGED <<setting, units, es, kibana, sealed, upsets>>

\* What Kibana reads at its start.
Entries == IF keystore = ABSENT THEN NoEntries ELSE keystore

RestartKibana(r) ==
  /\ Begins(r, "kibana")
  /\ wanted' = wanted \cup {"elasticsearch", "kibana"}
  /\ kibana' = IF es = STOPPED THEN STOPPED ELSE Entries
  /\ Hold(r, EMPTY)
  /\ UNCHANGED <<setting, installed, es, keystore, sealed, upsets>>

WaitKibana(r) ==
  /\ Halfway(r, "kibana")
  /\ \/ Available /\ Done(r)
     \/ /\ \/ Entries[KibanaToken] \notin issued[KibanaToken]
           \/ podman[ElasticPassword] # file[ElasticPassword]
        /\ Fail(r)
  /\ UNCHANGED machine

-----------------------------------------------------------------------------
(* systemd, the machine, and Kibana's own work.                            *)

\* Mutant: the Podman secret is not waited for.
UpElasticsearchBlindly ==
  /\ "elasticsearch" \in wanted /\ es = STOPPED
  /\ es' = podman[ElasticPassword]
  /\ UNCHANGED <<vars, held, setting, units, keystore, kibana, sealed, upsets>>

\* Without the Podman secret the container cannot be made.
UpElasticsearch ==
  /\ "elasticsearch" \in wanted /\ es = STOPPED
  /\ podman[ElasticPassword] # ABSENT
  /\ es' = podman[ElasticPassword]
  /\ UNCHANGED <<vars, held, setting, units, keystore, kibana, sealed, upsets>>

UpKibana ==
  /\ "kibana" \in wanted /\ kibana = STOPPED /\ es # STOPPED
  /\ kibana' = Entries
  /\ UNCHANGED <<vars, held, setting, units, es, keystore, sealed, upsets>>

\* Kibana encrypts an object, when it has a key.
Seal ==
  /\ kibana # STOPPED /\ SavedObjectsKey \in Entry /\ kibana[SavedObjectsKey] # ABSENT
  /\ sealed' = sealed \cup {kibana[SavedObjectsKey]}
  /\ UNCHANGED <<vars, held, setting, units, es, keystore, kibana, upsets>>

Upset == upsets < MaxUpsets /\ upsets' = upsets + 1

Crash ==
  /\ Upset
  /\ \/ es # STOPPED /\ es' = STOPPED /\ UNCHANGED kibana
     \/ kibana # STOPPED /\ kibana' = STOPPED /\ UNCHANGED es
  /\ UNCHANGED <<vars, held, setting, units, keystore, sealed>>

\* A shutdown ends every run (Interrupt) before the machine boots.
Boot ==
  /\ Upset
  /\ \A r \in Run : At(r, "idle")
  /\ setting' = IF setting = "unset" THEN "unset" ELSE "kernel"
  /\ wanted' = IF installed THEN {"elasticsearch", "kibana"} ELSE {}
  /\ es' = STOPPED /\ kibana' = STOPPED
  /\ UNCHANGED <<vars, held, installed, keystore, sealed>>

-----------------------------------------------------------------------------
Perform(r) ==
  \/ Establish(r)
  \/ ConfigureHost(r) \/ Sysctl(r) \/ Install(r)
  \/ RestartElasticsearch(r) \/ WaitElasticsearch(r)
  \/ CreateKeystore(r) \/ ReadEntry(r) \/ AddEntry(r)
  \/ RestartKibana(r) \/ WaitKibana(r)

DeployNext ==
  \/ \E r \in Run : Perform(r) \/ Interrupted(r)
  \/ UpElasticsearch \/ UpKibana \/ Seal \/ Crash \/ Boot

DeploySpec == DeployInit /\ [][DeployNext]_deployVars

\* A run that is alive goes on, the operator runs deploy again after every end,
\* and systemd starts what is wanted.  Faults and upsets are never forced.
FairDeploySpec ==
  /\ DeploySpec
  /\ \A r \in Run : WF_deployVars(Perform(r))
  /\ WF_deployVars(UpElasticsearch) /\ WF_deployVars(UpKibana)

-----------------------------------------------------------------------------
\* Every variable of the machine holds what deploy or systemd can put there.
MachineTypeOK ==
  /\ held \in [Run -> Content]
  /\ setting \in {"unset", "file", "kernel"}
  /\ installed \in BOOLEAN
  /\ wanted \subseteq {"elasticsearch", "kibana"}
  /\ es \in Value \cup {STOPPED}
  /\ keystore \in [Entry -> Content] \cup {ABSENT}
  /\ kibana \in [Entry -> Content] \cup {STOPPED}
  /\ sealed \subseteq Value
  /\ upsets \in 0..MaxUpsets

\* Elasticsearch, however often and by whomever it was started, accepts the
\* password that the clients of a run read from the protected file.
ClientsAuthenticate == es # STOPPED => Serves

\* When prepare_kibana_keystore has gone over an entry, it holds the protected
\* secret, whatever part of the keystore an interrupted run had left.
KeystoreFollows ==
  \A r \in Run : \A c \in Passed(r, "entry") :
    keystore # ABSENT /\ keystore[c] = file[c] /\ file[c] \in Value

\* Kibana can read every object it ever encrypted, also when systemd starts it
\* from a keystore that deploy has filled half: it holds the one key or none
\* has been used.
SavedObjectsReadable ==
  kibana # STOPPED => sealed \subseteq {kibana[SavedObjectsKey]}

Complete == [c \in Entry |-> file[c]]

\* Deploy, run again after every end, makes every credential ready and then
\* keeps Kibana coming back with all of its entries and authenticated, unless
\* an interruption orphaned a credential.
Converges ==
  \/ /\ <>[](\A c \in Cred : Ready(c))
     /\ []<>(Available /\ kibana = Complete)
     /\ <>[](kibana \in {Complete, STOPPED})
  \/ <>(\E c \in Cred : Orphaned(c))

\* A run died after it had written the sysctl file and before it told the kernel.
LostSetting == setting = "file" /\ \A r \in Run : ~Halfway(r, "host")

\* Past configure_host the kernel has the setting, unless it was lost so: no later
\* deploy tells the kernel, because it finds the file as it should be.
SettingApplied ==
  \A r \in Run : (\E i \in 1..(step[r] - 1) : Script[i].op = "host")
    => setting = "kernel" \/ (LostSetting /\ faults > 0)
================================================================================
