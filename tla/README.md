# elkctl: specifications, model checking and proofs

`elkctl` deploys a single-node Elastic Stack (Elasticsearch, Kibana, a Fleet
Server and a local Elastic Agent) on one RHEL host with rootful Podman Quadlets.
Almost everything it does is a sequence of small writes to stores it does not
own alone: protected files, Podman secrets, Elasticsearch and Kibana through
HTTP, systemd units. It may be interrupted between any two of them, it keeps no
journal and takes no lock, and its documentation promises that it can be run
again. These modules state what that promise amounts to, and check it.

Paths below are relative to the repository (`src/elkctl/...` is the Python
package).

## Inventory

| Part | State it keeps | Operations | Works with | What is hard | What makes it correct |
|---|---|---|---|---|---|
| **Credentials** (`stack.py` `ensure_secret`, `create_service_token`, `create_enrollment_token`, `ensure_podman_secret`) | files under `secrets/` with their modes, Podman secrets, hash records under `runtime/records` | generate, ask a service, mount | Elasticsearch's and Kibana's token APIs, `podman secret` | writes in two halves, lost answers, reruns, two runs | a container is given what the controller reads; nothing established is replaced; a rerun repairs what was interrupted |
| **Readiness** (`stack.py` `wait_for` and five checks, `http.py`) | attempts, time | ask, sleep | a service that comes up, crashes, comes back | which failure is retried, which escapes; the budget | success only on a ready answer, failure only after the budget, an end in any case |
| **Fleet bootstrap** (`stack.py` `bootstrap_fleet` and helpers) | none of its own; agent policies, integrations, templates, keys and enrolled agents in Fleet; the token file, its Podman secret and record | look, delete, create, attach, configure, start the Fleet Server, ask for a key, mount it, start the Agent | Kibana's Fleet API, the Agent's entrypoint, systemd, what an earlier controller left | every look is stale when acted on; the delete is forced; file and secret are only ever compared | enrolled agents keep their policy; file and secret hold one key that Fleet accepts; the Agent starts on a complete bootstrap |
| **Rendering and units** (`render.py`, `stack.py` `lifecycle`, `destroy`, `restart_quadlet`) | `runtime/`, `/etc/containers/systemd`, systemd's units | copy, render, install, reload, start, stop, restart, unlink | preflight before it, systemd, the operator who renews files | systemd starts services from whatever is there; copies truncate in place; jobs outlive the command; a stop may fail unnoticed | a converged deploy runs the supplied files; stop and destroy mean it |
| **Deploy** (`stack.py` `deploy`, `configure_host`, `start_elasticsearch`, `start_kibana`) | the sysctl drop-in, the kernel's setting; what runs and from what | the order of everything above | all | one step of many fails; systemd starts services between any two steps | clients are accepted; saved objects stay readable; reruns converge |
| **Kibana keystore** (`stack.py` `prepare_kibana_keystore`) | `kibana.keystore` | create, add four entries | the secrets, Podman, Kibana's start | entries are replaced one at a time | keystore and secrets agree; an encryption key that was used is never lost |
| **Preflight** (`preflight.py`, `checks.py`) | a report | host, network, PKI and supply-chain checks | the host, the services of an earlier deploy | a probe that hangs raises; the port check looks twice; early returns | no failure means the host is fit; a fit host is not refused |
| **Configuration** (`config.py`, schema) | `StackConfig` | load, validate | everything | agreement with the JSON schema | only valid values are accepted |
| **Runner** (`runner.py`) | none | run a command | subprocess | a timeout raises even where failures are ignored | errors end the command |
| **Host preparation, pulls, plan, status, logs, CLI, constants** | images | idempotent calls, reports | Podman, journald | little | - |

The hazards, each at its line, are listed under `hazards` in `PROJECT.json`.

## Modules

### `CredentialRegister` and `Credentials`

`CredentialRegister` is the promise without the mechanism: a value is
established once, never replaced, and what a container mounts is that value.

`Credentials` is the mechanism. A *run* (an `elkctl deploy` process) executes
`Script`, the credential steps of `deploy` in their order, each of one of four
kinds: `generate` (`ensure_secret`), `service` (`create_service_token`),
`enroll` (`create_enrollment_token`) and `mount` (`ensure_podman_secret`). Steps
of other kinds (`Other`) leave the stores alone; what they do is `Deploy`'s.
`Script` is a constant, so theorems hold for any order the assumptions allow;
`MCDeploy!FullScript` is deploy's.

| Code | Model |
|---|---|
| `secrets/<name>`: absent, truncated by `write_text`, written | `file[c]` in `ABSENT`, `EMPTY`, a value |
| its mode | `private[c]` |
| the Podman secret, the hash record | `podman[c]`, `record[c]` |
| the tokens the service has issued | `issued[c]` |
| position in `deploy`, and in the helper | `step[r]`, `pc[r]` |
| the local `value`, or `digest` | `val[r]` |

Every write is an action of its own; `write_text` is two (`OpenFile`,
`WriteFile`). `Interrupt` ends a run anywhere: a signal, an HTTP error, a failed
or timed-out command. A digest is the content itself, so different contents have
different digests. `Fresh` draws a value that occurs nowhere, which is what 48
random bytes amount to.

### `Readiness`

One execution of `wait_for` with one of its five checks. `request` and `json`
are the two methods of `HttpClient` and say which failures become an
`ElkctlError` (retried) and which do not (they escape `wait_for`): a connection
that closes while the answer is awaited (`RemoteDisconnected` and its like) is
neither a `URLError` nor an `SSLError`, and an empty answer becomes `None`,
whose `.get` fails. Only the Fleet setup looks at the type first. Time is
counted in sleeps of five seconds.

### `FleetPolicies`

`bootstrap_fleet` from the first agent policy to the enrolled Agent, one action
per request or write, and what goes on beside it.

| Code | Model |
|---|---|
| the two agent policies in Fleet | `policy[p]`: absent, hosted (of an earlier controller) or ordinary |
| the agents of a policy | `enrolled[p]`: none, counted by Fleet, or orphaned by a delete of their policy |
| integrations, component templates, the keys that Fleet accepts | `package`, `templates`, `keys` |
| the token file, the Podman secret, its hash record | `token`, `secret`, `record` |
| the containers of the Fleet Server and the Agent | `started[p]`: by whom they were started |
| `ensure_agent_policy` | `GetPolicy`, `DeletePolicy`, `CreatePolicy` |
| `ensure_package_policy`, `configure_single_node_templates` | `GetPackage`, `PostPackage`, `PutTemplate` |
| restart of the Fleet Server and its wait | `RestartServer`, `WaitServing` |
| `create_enrollment_token` | `ReadToken`, `PostKey`, `OpenToken`, `WriteToken` |
| `ensure_podman_secret` of that token | `ReadDigest`, `Inspect`, `CreateSecret`, `WriteRecord` |
| restart of the Agent and its wait | `RestartAgent`, `WaitOnline` |
| systemd, and the containers themselves | `SystemdStartsAgent`, `Enrolls` |

Fleet's side is modelled from how the code uses it: an id that exists is refused, a
hosted policy accepts no integration through the API, a forced delete takes the
integrations and keys of the policy along and leaves its agents without one. Fleet
may also refuse it when there are agents by then; the model has both.

`Init` is what an earlier controller can have left, for the policies in `Leftover`
hosted ones: with or without a running container and an enrolled agent, a token file
with or without its Podman secret and record (`OldKey`;
`docs/operations/troubleshooting.md:177-178` and `298-299` keep secrets and Agent
state through a migration). A Fleet Server or Agent that is started enrolls whenever
it can, between any two requests of a run. systemd starts the Agent itself as soon as
its Podman secret exists (a boot, `Restart=on-failure`), before deploy gets there.
Component templates may be put in any order. The Podman secret here is the one of
the enrollment token only, the one credential whose value Fleet can take back; the
others, and failed inspects, are `Credentials`'.

### `Rollout`

The way of certificates, keys, configurations and units from the checkout to the
containers. A service is started from the files in its slots, `Has[s]`:

| Slot | Code | How it is written |
|---|---|---|
| `ca`, `crt`, `key` | `install_pki`, service by service (`render.py:92-103`) | copied in place |
| `proxy` | `install_pki`, after all pairs (`105-106`) | copied in place |
| `config` | `render_configs` | `atomic_write`, one step |
| `script` | the Agent's entrypoint (`147-151`) | copied in place |
| `unit` | `render_quadlets`, then `install_quadlets` and the reload | `atomic_write`; installed by a copy in place |

`pki` and `site` are what the operator supplies (`ca` and `proxy` are one file for
all services, and may be the same one), `staged` what is under `runtime/`,
`installed` what is under `/etc/containers/systemd`, `loaded` what systemd has
generated from it at the last reload, and `running` what the container was started
from. A command is a sequence of steps (`Program`). A copy in place truncates and
fills (`Copy`, two halves), a step for a file that the service does not have does
nothing. systemd acts between any two steps: it starts what is `wanted` (`Up`),
finishes stops (`Down`), restarts what crashed, and after a `Boot` generates units
anew and starts them all. `Interrupt` also stands for a `systemctl` that exceeds the
runner's 120 seconds: the job goes on. `StopFails` is a `systemctl stop` that fails
at once or while its job runs; `stop` and `destroy` ignore it (`stack.py:547`, `552`)
and go on. Two history variables name what the properties must except: `cut`, the
services at one of whose copies a command was cut off, until a deploy has gone
through all of their copies again, and `spared`, the services whose last stop failed.

Left out: `runtime/pki/service-ca-chain.pem` (`render.py:91`), which only elkctl's
own HTTP client reads and no container mounts; that `kibana.yml` quotes the CA chain
as well; what a single wrong configuration value does. A service is taken not to
start from a truncated file. Units are installed in the order of `SERVICES` here and
alphabetically in the code; their order tells nothing apart.

### `Deploy`

`deploy` as a whole, composed with `Credentials` by EXTENDS: a step of the script
is either one of `Credentials` (`Establish`) or one of these.

| Code | Model |
|---|---|
| `configure_host`: the drop-in is written, then `sysctl` is run | `ConfigureHost`, `Sysctl`; `setting` |
| `render_all`, `pull_images`, `install_quadlets` | `Install`; `installed` |
| `start_elasticsearch`: restart, wait for the password to be accepted | `RestartElasticsearch`, `WaitElasticsearch`; `es` is the password it was started with |
| `prepare_kibana_keystore`: create, then read and add each entry | `CreateKeystore`, `ReadEntry`, `AddEntry`; `keystore`, and `held[r]` between the read and the add |
| `start_kibana` | `RestartKibana`, `WaitKibana`; `kibana` is the entries it was started with |
| systemd: start jobs, `Restart=on-failure`, a reboot | `UpElasticsearch`, `UpKibana`, `Crash`, `Boot` |
| Kibana encrypting a saved object | `Seal`; `sealed` is the set of keys ever used |

A request of a later step needs Elasticsearch or Kibana to serve it (`Serves`,
`Available`); a run whose request is not served is interrupted. A wait fails when
what it waits for can never come. Elasticsearch is assumed to start without the
kernel's setting; `SettingApplied` speaks of the setting itself.

### `Config` and `Preflight`

`Config` says what `load_config` makes of a document, over classes of documents:
one class for each rule of the code or of the JSON schema (`SchemaValid`, the
reference definition). `Preflight` is the command, and the same checks in front
of `deploy`: `Plan` is the order of the checks, a concatenation of what each function
looks at for the services in `Service` (a constant, at most the three that have a
certificate), `defects` the checks the host does not meet, `Judge` and
`JudgeCertificate` a check with its early returns. A port is
looked at twice, first with `ss` (`SeeListener`), then by its unit (`AskUnit`);
meanwhile `UnitMoves` and `ForeignMoves` go on. `TimesOut` is a command that runs
longer than the runner waits: it raises although `check` is off, and only the
certificate checks expect that.

Operators named as mutants (each marked in a comment) are never used by a
specification; they are plausible bugs against which the properties are tested.

## Runs

| Run | Asks | Bounds and why they are enough |
|---|---|---|
| `Deploy` | all nineteen steps of deploy, one run at a time, interrupted anywhere, with Elasticsearch and Kibana going on by themselves | 7 credentials; 2 interruptions: one to leave something half done, one in the rerun that meets it; 1 crash or boot, which may come between any two steps; a value for every place that can hold one |
| `DeployRace` | two deploys, interleaved freely, over the elastic password, the token in the keystore and the token that is mounted | 2 runs, 2 interruptions; no crash or boot: the races on the name, the file, the Podman secret and the keystore are between the two runs |
| `CredentialsLostRecord` | "The command is rerunnable after an interruption" | **violated**: see findings |
| `ReadinessWait` | when a wait gives up, and that it ends | budgets of 2 and 3 for the code's 60 and 90: first, middle and last attempt differ, more repeat the middle; requests of 0 to 2 sleeps |
| `ReadinessOtherErrors` | "Other HTTP errors remain immediate failures" | **violated**: see findings |
| `FleetMigration` | one run at a time over everything an earlier controller may have left, with containers that systemd starts and agents that enroll at any moment | 3 interruptions, so that a death during a migration, one beside the token file and one beside its Podman secret can meet; 2 datasets for the code's 13 (first and last differ); 4 keys: those that file, secret, record and the run can hold, and one more |
| `FleetRace` | two runs over the same leftovers: what they can leave that no rerun repairs, and what they cannot do where nothing is hosted | 1 interruption besides the interleaving; 5 keys |
| `FleetForcedDelete` | "It refuses this migration when the policy has an enrolled agent" | **violated** with one run: see findings |
| `RolloutOperations` | all commands in any order, files renewed between commands | Kibana and the Agent, which between them have every kind of file, the second requiring the first; certificate, key and entrypoint are renewed; 2 generations; 2 faults, so that a boot or crash meets what an interruption or a failed stop left |
| `RolloutCareless` | deploys while files change at any moment | the same with 1 fault; certificate, key and CA chain are renewed; only deploy |
| `Preflight` | what a passed and a failed preflight mean | two services, the one whose certificate must be good for clients and one whose need not; every single defect and the pairs that an early return could let hide each other; every kind of document; defects, hung commands and moves of others together at most 2, so that a unit may stop and its port be taken between the two looks |
| `PreflightWrongName` | "certificate, SAN, chain, key, EKU, and expiry validate" | **violated**: see findings |

The two runs of `Readiness` and the two of `Preflight` switch deadlock checking
off: a wait and a preflight really end.

**Findings.**

1. *Lost record* (`stack.py:82-83`). Death between `podman secret create` and the
   record: every later deploy stops at "exists without a framework hash record".
2. *Wrong name* (`preflight.py:54`). `openssl x509 -checkhost` prints that a name
   does not match and, in OpenSSL 3.0, exits 0 all the same; the code looks at the
   exit status. A certificate of another host is reported as validated. (All that
   `PassMeansFit` promises therefore leaves the name out.)
3. *Errors of the Fleet setup* (`stack.py:136`). The docs promise that only a 503
   is retried; every `ElkctlError` is. The budget also differs from the docs and
   from the message of `wait_for` itself: the 5 seconds per attempt do not
   include the request, which may take up to 120.
4. *Forced delete* (`stack.py:308-319`). The agent count is stale when the delete
   is sent: the Fleet Server or the Agent of the earlier controller, which systemd
   goes on restarting, may enroll in between, and loses its policy. One deploy is
   enough. It rests on a forced delete being carried out although there are agents,
   which is Fleet's affair.

What the runs show besides, as an exception in a property:

- *Lost token* (`stack.py:159-168`). Death, or a lost answer, between the creation
  of a service token and its file: Elasticsearch refuses the name from then on.
  `OrphanedForever` shows that nothing repairs this or the lost record,
  `Converges` that these two windows are the only ones.
- *Lost setting* (`stack.py:100-102`). Death between the sysctl drop-in and
  `sysctl`: every rerun finds the file as it should be and does not tell the
  kernel; only a boot does (`SettingApplied`, `LostSetting`).
- *Hung probes* (`runner.py:52`). An optional probe that hangs ends preflight
  without a report (`FitHostPasses` excepts `timeouts`). A unit that listens and
  is not active yet makes preflight fail on a healthy host (the same property's
  `activating`).
- *Code and schema* (`AcceptedIsValid`). A proxy object without `url` and a
  `$schema` that is no text pass the code and not the schema. A proxy URL like
  `http://[::1` and a file that is not UTF-8 raise errors that `main` does not
  expect (`Escapes`).
- *Two deploys at once* on a new host can generate two values of one secret, one
  in the file and one mounted: Elasticsearch then rejects every client
  (`ClientsAuthenticate` and `SecretAgrees` fail with two runs; the theorems that
  need it assume `OneRun`). `DeployRace` shows that the service tokens, and the
  keystore's copy of one, stay together even so. The enrollment token does not: both
  runs find no file, both ask for a key, one mounts the earlier key and the other
  stores the later one. Both keys are good, but `stack.py:91` refuses every later
  deploy (`Stuck`, `StuckForever` in `FleetRace`).
- *Stranded token* (`stack.py:377`). A token file that an earlier controller left is
  reused unseen. When its hosted local policy is migrated, Fleet revokes its key and
  the file keeps it: the Agent stays offline, and no rerun repairs it
  (`TokenUsable` excepts `OldKey`, `Converges` has `Stuck`). One deploy is enough;
  the documentation tells the operator to keep the secrets.
- *Lost record of the enrollment token* (`stack.py:82-83` by way of `436`). The first
  finding again, with the Agent as its victim: deploy no longer reaches it, though
  systemd may start it. `FleetMigration`'s `Converges` says that these, an agent
  orphaned by finding 4 and a hosted policy with agents are the only ways in which
  reruns do not end with the Agent online.
- *Torn copies* (`render.py:81-106`, `147-151`). A deploy interrupted during a copy
  in place, or between a certificate and its key, leaves a service that cannot start
  again until deploy is rerun: `RunningIsRestartable` says that these windows are the
  only ones, `RenewalArrives` that a rerun closes them.
- *Failed stops* (`stack.py:547`, `552`). `stop` returns although a service it could
  not stop still runs, and `destroy` then removes its unit and reports "services
  removed": a container goes on without the unit it would come back with.
  `StoppedMeansDown`
  and `DestroyedMeansGone` say that no other service is left running.

## Fairness

Weak fairness of a run's (or command's) next step: a live process goes on. It
includes the start, because the documents tell the operator to run deploy again
after an error; a property that needs it speaks of an operator who does.
`Interrupt`, `Crash`, `Boot`, `InspectFails` and `Renew` have none and are
bounded. In `Deploy` systemd's `UpElasticsearch` and `UpKibana` are weakly fair
(`Restart=on-failure`, and start jobs after a boot); `Preflight` has no fairness, its
properties are about what it has reported. In `Rollout` systemd's `Up` and `Down` are weakly fair (start and stop
jobs are carried out, `Restart=on-failure`); in `FleetPolicies` the first
enrollment of each container is (it restarts until it succeeds), a later one, after
its policy was deleted, is not, nor is systemd's start of the Agent, which deploy
does not need, and with several runs it is enough that *somebody* runs deploy
again; in `Readiness` the
service has no fairness at all: a wait ends whatever it does.

## Proofs

Six modules (`*Proofs`) are checked by TLAPS, for all values of the constants:
every script, order of services, set of defects and budget, and any number of
interruptions, crashes, boots, generations, keys and hung commands. They state
every invariant and every action property that a passing run checks.

What is assumed of the constants is named in the modules: sentinels are no values,
bounds are naturals, `Script` mounts only what an earlier step made and gives a
credential one origin, starts Elasticsearch after it has mounted its password and
adds an entry of an established secret to an existing keystore (`Deploy`'s
`OrderAssumption`), attempts are positive, every service is in `Order` behind what
it requires (`Rollout`'s), a defect is a check and no port (`DefectsAssumption`).

Three hypotheses stand in front of theorems that are false without them, and the
runs show so or the findings say so:

| Hypothesis | Says | Because |
|---|---|---|
| `OneRun` | deploys run one at a time | elkctl takes no lock; two can generate two values of one secret |
| `Calm` | `OneRun`, or no policy is hosted | of two runs that migrate, one deletes the policy and the keys the other has made |
| `Careful` | the operator leaves the supplied files alone while a command runs | a copy can otherwise be of half renewed files |

**Credentials.**

- `TypeCorrect`: `TypeOK` strengthened by `Control`, which ties `pc` to the kind
  of the step a run is at and to its local value (a run about to write holds a
  value). Every other proof uses the two together (`ControlAlways`).
- `ProtectedAlways`: files are never removed, so a mode once tightened stays.
- `TokensAlwaysIssued`, `ServiceTokensAgree`: for *any* number of concurrent
  runs. The invariant of the second counts writers: a service issues one token
  per name, so there is at most one value to write, at most one run that
  writes it, and no Podman secret can exist before it is written.
- `SecretsAgree`, `MountsConsistent`, `ImplementsRegister`: under `OneRun`. The
  invariant `StoreInv` relates the three stores of a credential, the local of
  the run, and everything the run has passed: `record` is only ever written with
  the Podman secret's digest, a run that mounts still has the file's content in
  hand, and a passed step leaves its stores agreeing. `ImplementsRegister` maps
  each step to `Establish`, `Mount` or a stutter from it.
- `KeysStayBounded`: under `OneRun`. The bound alone is not inductive; `KeysInv`
  has one key less as long as the file is blank and no run is about to write it,
  which `StoreInv` says of every run that asks for one.
- `OrphansStay`: for any number of runs, by a case for each step that writes one
  of the stores involved.

**Deploy.**

- `DeployKeepsCredentials`: every step of deploy and of the machine is a step of
  `Credentials` or leaves its variables alone, so all the above hold of deploy, for
  any number of runs, interruptions, crashes and boots.
- `ClientsAlwaysAuthenticate`: under `OneRun`. `PasswordInv` says that a running
  Elasticsearch was started with what its Podman secret holds. It is inductive
  because no step changes a Podman secret that exists (`PodmanStays`), systemd
  cannot start the container without one, and the script mounts the password
  before deploy's own restart. `StoreInv` adds that this is the file's content.
- `MachineTypeCorrect`, `KeystoreAlwaysFollows`, `SavedObjectsAlwaysReadable`: under
  `OneRun`. `KeystoreInv` says that what a run holds between the read and the add
  of an entry is the established secret (`HeldOK`), that every entry is that or not
  there yet (`EntriesOK`), that a passed step has left its entry (`FilledOK`), that
  what Kibana was started with is still in the keystore (`StartedOK`), and that at
  most one key was ever used (`SealedOK`). `EstablishedStays` is the reason: with
  one run at a time an established file is never written again. The keystore is
  never taken for Kibana's absence or its own (`KeystoreAssumption`).
- `SettingStaysApplied`: under `OneRun`. `SettingInv` says where the kernel can lag
  behind the file: while the run that wrote it stands before `sysctl`, which it has
  not done twice, or after an interruption. With a second run the property is
  false: that run finds the file and goes on while the first stands before `sysctl`.
- `ServiceEntriesAlwaysFollow`: for *any* number of concurrent runs, the case that
  `DeployRace` checks with two. `ServiceDone` says that a run past a service token
  has left it in its file, where `ServiceStays` keeps it whoever comes next;
  `SharedInv` then says of each run that a token it is about to add is the one in
  the file, and that nothing takes an entry out again (`Kept`).

**Readiness.** `TypeCorrect`, `BudgetIsSpent`: `WaitInv` counts a sleep for every
finished attempt, and a wait that sleeps has not seen a ready answer.

**Fleet.**

- `TypeCorrect`: for any number of runs; `Control` says at which request of which
  step a run can stand, and that it stores only a key it was given.
- `TokenIsUsable`, `BootstrapBeforeAgent`: under `Calm`. `BootInv` says of every run
  what the steps it has passed have left in Fleet (`Passed`), what the request it is
  at relies on (`Pending`), and of Fleet itself that nothing of the local policy is
  there without the policy, but for what an earlier controller left (`Stores`). Every
  step but the forced delete only adds (`Grown`), so what the others have passed
  stands and only the run that moves has to be looked at (`ActorSuffices`). The
  forced delete is the reason for `Calm`: it is sent only by the one run there is,
  before any key that the controller asks for.
- `OrdinaryPoliciesStay`: under `Calm`, from `BootInv`; what the delete finds is
  still the hosted policy that was looked at.
- `NoMigrationRevokesNothing`: for any number of runs where nothing is hosted. No
  step makes a policy hosted, so `BootInv` holds, and without an earlier controller
  there is no old key (`NoOld`).
- `DeployReturnsOnline`: under `OneRun`. `Arrived` says what each step behind the run
  has left in file, secret and record and of the Agent; it survives an interruption
  because a Podman secret that exists is only compared (`OnlineInv`).
- `StuckStays`: for any number of runs. `RecordInv` says that whoever is about to
  write the record has made the Podman secret, and is alone; so no run writes the
  record of another's secret, and none asks for a key while the file is filled.

**Rollout.** A command's position stands for what it has done, so the lemmas come
first that say which instruction of each `Program` is where: `Place` is the position
of each operation of deploy (`DeployProgram`), `At` the operation a command is at,
`Untouched` that slots a service does not have stay empty. `Passing` is the fact
that the invariants live on: a step of deploy puts its own operation behind it and
nothing else. Then, each with the steps of systemd and of the operator as one case
(`Around`):

- `TypeCorrect`: for any operator and any faults.
- `DeployReturnsUsable`: for *any* operator. `Deployed` lists what every position
  behind deploy has left: rendered and loaded of the configuration it was started
  with, and, once a restart returned, a service that could be started again.
- `DeployConverges`: under `Careful`. `Current` adds that the pair which was
  checked is still the one supplied, the copies are of it, and a service behind the
  restarts runs from them.
- `StopLeavesNothingRunning`, `DestroyLeavesNothing`: for *any* operator and faults.
  `Stopped` says what every position behind stop and destroy has left, but for the
  services in `spared`. It is inductive because systemd starts only what is wanted,
  and what makes a service wanted again, a start or a boot, is another command or
  ends this one.
- `RunningCanRestart`: under `Careful`, with any number of faults. `Restartable` adds
  that what runs has a unit, unless its stop failed, and all of its files, also
  before deploy has reached it, that a copied file is whole unless it is the one
  being copied, and that a staged pair agrees unless the key is the next to be copied;
  services in `cut` are left out until the last copy for them, whose position says
  that all the others are renewed.

`CarefulInv`, `StopInv` and `RestartInv` were checked by TLC on the instance of
`RolloutOperations`, `BootInv`, `OnlineInv` and `RecordInv` on those of Fleet, before
they were proved.

**Preflight.** Of the order of the plan the proofs need two facts: once a service's
certificate is looked at, nothing but that is left of the service (`Late`), and the
address comes right after the name (`Followed`). They are shown part by part, for
every set of services. Where an early return goes on (`AfterPki`) is the least
position of another subject; that there is one is `Least`, from the well-foundedness
of the naturals.

- `TypeCorrect`: `Ready` adds what the types leave open: a unit that is up listens,
  a document behind the load was accepted.
- `PassedHostsAreFit`, `ReportNamesEverything`: `Progress` says that every unmet check
  behind the position is in the report, or left out after a failure that says so.
- `FitHostsPass`: `FitInv` says that an undisturbed host has no failure so far, and
  that a listener which was seen is still there.
- `PortsPassRightly`: from the step alone, with `Ready`.
- `AcceptedMeetsSchema`: a fact about the classes of documents, for all of them.

**Model-checked only.** Liveness: `Converges` (of `Deploy` and of `FleetPolicies`),
`WaitEnds`, `RenewalArrives`; temporal reasoning with
fairness is out of the prover's reach. Of `KeystoreFollows` without `OneRun` only the
part about service tokens is true, and proved: two runs can generate two keys.
Nothing proved here is by induction over data:
sequences are put together explicitly and looked at by position.

## Not modelled

Wording, logging and layout; the content of templates (`render_text` and the
values it puts in) and the layout, owners and modes of the directories; the mode
and owner of the keystore file; TLS itself, and that Elasticsearch reloads
certificate files while it runs; whether Elasticsearch refuses to start without
the kernel's setting; `pull_images`, which only succeeds or fails; `plan`, `status`
and `logs` (reports of what other tools say); argument parsing and
`config-check`, which is the load alone.

## Plan

1. *Done*: the models of all parts named above with their runs, and a proof for
   every invariant and action property that a passing run checks.
2. The five predicates of `Readiness` apart, with the bodies that they tell from
   each other, so that a property can say what a wait may take for readiness.
3. An abstract rollout (what runs was supplied together; a stopped service stays
   down) that `Rollout` implements, with its refinement proved from `DeployInv` and
   `StopInv`.
