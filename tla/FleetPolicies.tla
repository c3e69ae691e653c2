----------------------------- MODULE FleetPolicies -----------------------------
(***************************************************************************)
(* bootstrap_fleet against Kibana's Fleet: the two agent policies, the     *)
(* integrations of the local one, the index templates, the Fleet Server,   *)
(* the enrollment key with its file and Podman secret, and the local Agent *)
(* that enrolls with it.  Every step is one request or one write; between  *)
(* the request that looks and the request that acts another run, an agent  *)
(* that enrolls, or the end of this run, can come.                         *)
(*                                                                         *)
(* An earlier controller may have left hosted policies, a token file with  *)
(* its key, the Podman secret, and containers that systemd goes on         *)
(* starting.                                                               *)
(***************************************************************************)
EXTENDS Naturals, Sequences

CONSTANTS
  Run,        \* the elkctl processes that may be active together
  Dataset,    \* the datasets whose replicas are configured, one PUT each
  NONE,       \* no token in the file (which may be empty), no secret, no record
  EMPTY,      \* the digest of an empty file
  Leftover,   \* the policies an earlier controller version may have left hosted
  MaxKey,     \* bound: how many new enrollment keys can be held at one time
  MaxFaults   \* bound: how many interruptions a behaviour has

Policy == {"server", "local"}
Package == {"system", "journald"}
OldKey == 0            \* the key that an earlier controller may have stored
NewKey == 1..MaxKey
Key == NewKey \cup {OldKey}

ASSUME LeftoverAssumption == Leftover \subseteq Policy
ASSUME KeyAssumption == MaxKey \in Nat /\ NONE \notin Nat /\ EMPTY \notin Nat /\ NONE # EMPTY
ASSUME FaultAssumption == MaxFaults \in Nat

VARIABLES
  policy,     \* policy[p]: absent, hosted, or ordinary (API-managed)
  enrolled,   \* enrolled[p]: whether p's agent is counted, or lost its policy
  package,    \* the integrations of the local policy
  templates,  \* the datasets whose component template is in place
  keys,       \* the enrollment keys that Fleet accepts and somebody holds
  token,      \* content of the protected token file
  secret,     \* content of the Podman secret, which the Agent mounts
  record,     \* the digest in the hash record
  started,    \* started[p]: who started p's container, the Fleet Server or the Agent
  pc,         \* pc[r]: where r stands within its step
  step,       \* step[r]: the step of Script r is at
  made,       \* made[r]: the key r was given, or the digest it has read
  todo,       \* todo[r]: the datasets r has not configured yet
  faults      \* interruptions so far

fleet == <<policy, enrolled, package, templates, keys>>
host == <<token, secret, record, started>>
control == <<pc, step, made, todo>>
vars == <<policy, enrolled, package, templates, keys, token, secret, record, started,
          pc, step, made, todo, faults>>

\* The order of bootstrap_fleet.
Script == <<"server", "local", "system", "journald", "templates", "fleet", "token", "secret",
            "agent">>

Label == {"idle", "next", "migrate", "create", "add", "serving", "post", "open", "write",
          "inspect", "mount", "record", "online"}

\* What an earlier controller may have left, up to a container that was started
\* and has not enrolled yet.
Init ==
  /\ policy \in [Policy -> {"absent", "hosted"}]
  /\ \A p \in Policy : policy[p] = "hosted" => p \in Leftover
  /\ token \in {NONE, OldKey}
  /\ policy["local"] = "absent" => token = NONE
  /\ keys = {token} \ {NONE}
  /\ secret \in {NONE, token}
  /\ record \in {NONE, secret}
  /\ started \in [Policy -> {"no", "systemd"}]
  /\ started["server"] = "systemd" => policy["server"] = "hosted"
  /\ started["local"] = "systemd" => secret # NONE /\ started["server"] = "systemd"
  /\ enrolled \in [Policy -> {"none", "counted"}]
  /\ \A p \in Policy : enrolled[p] = "counted" => started[p] = "systemd"
  /\ package = {}
  /\ templates = {}
  /\ pc = [r \in Run |-> "idle"]
  /\ step = [r \in Run |-> 1]
  /\ made = [r \in Run |-> NONE]
  /\ todo = [r \in Run |-> {}]
  /\ faults = 0

-----------------------------------------------------------------------------
(* The control of one run.                                                 *)

At(r, label) == pc[r] = label
Item(r) == Script[step[r]]
Doing(r, items) == step[r] \in DOMAIN Script /\ Item(r) \in items

Goto(r, label) == pc' = [pc EXCEPT ![r] = label] /\ UNCHANGED <<step, made, todo>>

Leave(r, label, next) ==
  /\ pc' = [pc EXCEPT ![r] = label]
  /\ step' = [step EXCEPT ![r] = next]
  /\ made' = [made EXCEPT ![r] = NONE]
  /\ todo' = [todo EXCEPT ![r] = Dataset]

Return(r) == Leave(r, "next", step[r] + 1)
Exit(r) == Leave(r, "idle", 1)

\* deploy reaches bootstrap_fleet; initialize_fleet changes nothing of this.
Start(r) ==
  /\ At(r, "idle")
  /\ Leave(r, "next", 1)
  /\ UNCHANGED <<fleet, host, faults>>

Finish(r) ==
  /\ At(r, "next") /\ step[r] = Len(Script) + 1
  /\ Exit(r)
  /\ UNCHANGED <<fleet, host, faults>>

\* A signal, an HTTP error or a failed command ends the run where it stands.
Interrupt(r) ==
  /\ ~At(r, "idle")
  /\ faults < MaxFaults
  /\ faults' = faults + 1
  /\ Exit(r)
  /\ UNCHANGED <<fleet, host>>

-----------------------------------------------------------------------------
(* ensure_agent_policy: GET, then maybe a forced delete, then POST.        *)

\* Mutant: every policy without agents is migrated.
GetPolicyMigratingAll(r) ==
  /\ At(r, "next") /\ Doing(r, Policy)
  /\ CASE policy[Item(r)] = "absent" -> Goto(r, "create")
       [] policy[Item(r)] # "absent" /\ enrolled[Item(r)] # "counted" -> Goto(r, "migrate")
       [] policy[Item(r)] = "ordinary" /\ enrolled[Item(r)] = "counted" -> Return(r)
       [] policy[Item(r)] = "hosted" /\ enrolled[Item(r)] = "counted" -> Exit(r)
  /\ UNCHANGED <<fleet, host, faults>>

\* A hosted policy with agents is not migrated: the run ends with an error.
GetPolicy(r) ==
  /\ At(r, "next") /\ Doing(r, Policy)
  /\ CASE policy[Item(r)] = "ordinary" -> Return(r)
       [] policy[Item(r)] = "absent" -> Goto(r, "create")
       [] policy[Item(r)] = "hosted" ->
            IF enrolled[Item(r)] = "counted" THEN Exit(r) ELSE Goto(r, "migrate")
  /\ UNCHANGED <<fleet, host, faults>>

\* The forced delete takes whatever policy has that name now, and with it its
\* integrations, its enrollment keys and the place of its agents; Fleet may also
\* refuse it when there are agents by now.
DeletePolicy(r) ==
  /\ At(r, "migrate")
  /\ \/ /\ policy[Item(r)] = "absent" \/ enrolled[Item(r)] = "counted"
        /\ Exit(r)
        /\ UNCHANGED fleet
     \/ /\ policy[Item(r)] # "absent"
        /\ policy' = [policy EXCEPT ![Item(r)] = "absent"]
        /\ enrolled' = [enrolled EXCEPT ![Item(r)] = IF @ = "counted" THEN "orphaned" ELSE @]
        /\ package' = IF Item(r) = "local" THEN {} ELSE package
        /\ keys' = IF Item(r) = "local" THEN {} ELSE keys
        /\ Goto(r, "create")
        /\ UNCHANGED templates
  /\ UNCHANGED <<host, faults>>

\* Mutant: the payload says is_managed.
CreatePolicyHosted(r) ==
  /\ At(r, "create")
  /\ \/ policy[Item(r)] # "absent" /\ Exit(r) /\ UNCHANGED policy
     \/ /\ policy[Item(r)] = "absent"
        /\ policy' = [policy EXCEPT ![Item(r)] = "hosted"]
        /\ Return(r)
  /\ UNCHANGED <<enrolled, package, templates, keys, host, faults>>

\* Fleet refuses an id that exists.
CreatePolicy(r) ==
  /\ At(r, "create")
  /\ \/ policy[Item(r)] # "absent" /\ Exit(r) /\ UNCHANGED policy
     \/ /\ policy[Item(r)] = "absent"
        /\ policy' = [policy EXCEPT ![Item(r)] = "ordinary"]
        /\ Return(r)
  /\ UNCHANGED <<enrolled, package, templates, keys, host, faults>>

-----------------------------------------------------------------------------
(* ensure_package_policy, configure_single_node_templates.                 *)

GetPackage(r) ==
  /\ At(r, "next") /\ Doing(r, Package)
  /\ IF Item(r) \in package THEN Return(r) ELSE Goto(r, "add")
  /\ UNCHANGED <<fleet, host, faults>>

\* Fleet refuses an integration of a policy it does not have, or has it twice.
PackageRefused(r) == policy["local"] # "ordinary" \/ Item(r) \in package

PostPackage(r) ==
  /\ At(r, "add")
  /\ \/ PackageRefused(r) /\ Exit(r) /\ UNCHANGED package
     \/ ~PackageRefused(r) /\ package' = package \cup {Item(r)} /\ Return(r)
  /\ UNCHANGED <<policy, enrolled, templates, keys, host, faults>>

\* Mutant: the first PUT ends the step.
PutOneTemplate(r) ==
  /\ At(r, "next") /\ Doing(r, {"templates"})
  /\ \E d \in todo[r] : templates' = templates \cup {d}
  /\ Return(r)
  /\ UNCHANGED <<policy, enrolled, package, keys, host, faults>>

\* One PUT; the last one ends the step.
PutTemplate(r) ==
  /\ At(r, "next") /\ Doing(r, {"templates"})
  /\ \E d \in todo[r] :
       /\ templates' = templates \cup {d}
       /\ IF todo[r] = {d}
            THEN Return(r)
            ELSE todo' = [todo EXCEPT ![r] = @ \ {d}] /\ UNCHANGED <<pc, step, made>>
  /\ UNCHANGED <<policy, enrolled, package, keys, host, faults>>

-----------------------------------------------------------------------------
(* The Fleet Server, which enrolls itself; its service token is the matter *)
(* of Credentials.                                                         *)

RestartServer(r) ==
  /\ At(r, "next") /\ Doing(r, {"fleet"})
  /\ started' = [started EXCEPT !["server"] = "deploy"]
  /\ Goto(r, "serving")
  /\ UNCHANGED <<fleet, token, secret, record, faults>>

\* wait_for sees it serve, or gives up.  Whether one that lost its policy still
\* serves is Fleet's affair.
WaitServing(r) ==
  /\ At(r, "serving")
  /\ \/ enrolled["server"] # "none" /\ Return(r)
     \/ enrolled["server"] # "counted" /\ Exit(r)
  /\ UNCHANGED <<fleet, host, faults>>

-----------------------------------------------------------------------------
(* create_enrollment_token.                                                *)

Held == {token, secret, record} \cup {made[r] : r \in Run}
Fresh(k) == k \notin Held /\ \A other \in NewKey \ Held : k <= other

\* Mutant: a key is asked for on every run.
ReadTokenAnew(r) ==
  /\ At(r, "next") /\ Doing(r, {"token"})
  /\ Goto(r, "post")
  /\ UNCHANGED <<fleet, host, faults>>

\* A file that is not empty is reused unseen.
ReadToken(r) ==
  /\ At(r, "next") /\ Doing(r, {"token"})
  /\ IF token = NONE THEN Goto(r, "post") ELSE Return(r)
  /\ UNCHANGED <<fleet, host, faults>>

\* Mutant: nobody looks whether the answer has a key in it.
PostKeyUnanswered(r) ==
  /\ At(r, "post")
  /\ keys' = keys \cap Held
  /\ Goto(r, "open")
  /\ UNCHANGED <<policy, enrolled, package, templates, host, faults>>

\* Fleet makes a key for a policy it has.  The keys that nobody holds any more
\* cannot come back, and are forgotten.
PostKey(r) ==
  /\ At(r, "post")
  /\ \/ policy["local"] = "absent" /\ Exit(r) /\ UNCHANGED keys
     \/ /\ policy["local"] # "absent"
        /\ \E k \in NewKey :
             /\ Fresh(k)
             /\ keys' = (keys \cap Held) \cup {k}
             /\ made' = [made EXCEPT ![r] = k]
        /\ pc' = [pc EXCEPT ![r] = "open"]
        /\ UNCHANGED <<step, todo>>
  /\ UNCHANGED <<policy, enrolled, package, templates, host, faults>>

\* write_text truncates the file, whatever it holds by now, and then fills it.
OpenToken(r) ==
  /\ At(r, "open")
  /\ token' = NONE
  /\ Goto(r, "write")
  /\ UNCHANGED <<fleet, secret, record, started, faults>>

WriteToken(r) ==
  /\ At(r, "write")
  /\ token' = made[r]
  /\ Return(r)
  /\ UNCHANGED <<fleet, secret, record, started, faults>>

-----------------------------------------------------------------------------
(* ensure_podman_secret.                                                   *)

ReadDigest(r) ==
  /\ At(r, "next") /\ Doing(r, {"secret"})
  /\ made' = [made EXCEPT ![r] = IF token = NONE THEN EMPTY ELSE token]
  /\ pc' = [pc EXCEPT ![r] = "inspect"]
  /\ UNCHANGED <<fleet, host, step, todo, faults>>

\* A secret that exists is never replaced: its record must be there and agree.
Inspect(r) ==
  /\ At(r, "inspect")
  /\ \/ secret = NONE /\ Goto(r, "mount")
     \/ secret # NONE /\ record = made[r] /\ Return(r)
     \/ secret # NONE /\ record # made[r] /\ Exit(r)
  /\ UNCHANGED <<fleet, host, faults>>

\* podman reads the file itself, and takes neither a name that exists nor nothing.
CreateSecret(r) ==
  /\ At(r, "mount")
  /\ \/ (secret # NONE \/ token = NONE) /\ Exit(r) /\ UNCHANGED secret
     \/ secret = NONE /\ token # NONE /\ secret' = token /\ Goto(r, "record")
  /\ UNCHANGED <<fleet, token, record, started, faults>>

\* A record that was cut short is refused like one that is missing.
WriteRecord(r) ==
  /\ At(r, "record")
  /\ record' = made[r]
  /\ Return(r)
  /\ UNCHANGED <<fleet, token, secret, started, faults>>

-----------------------------------------------------------------------------
(* The Agent.                                                              *)

RestartAgent(r) ==
  /\ At(r, "next") /\ Doing(r, {"agent"})
  /\ started' = [started EXCEPT !["local"] = "deploy"]
  /\ Goto(r, "online")
  /\ UNCHANGED <<fleet, token, secret, record, faults>>

\* Mutant: an online agent of any policy will do.
WaitAnyOnline(r) ==
  /\ At(r, "online")
  /\ \/ (\E p \in Policy : enrolled[p] # "none") /\ Return(r)
     \/ enrolled["local"] # "counted" /\ Exit(r)
  /\ UNCHANGED <<fleet, host, faults>>

\* wait_for sees an Agent of the local policy online, or gives up.  Whether one
\* that lost its policy counts as online is Fleet's affair.
WaitOnline(r) ==
  /\ At(r, "online")
  /\ \/ enrolled["local"] # "none" /\ Return(r)
     \/ enrolled["local"] # "counted" /\ Exit(r)
  /\ UNCHANGED <<fleet, host, faults>>

\* A boot, or Restart=on-failure, starts the Agent as soon as its secret is there.
SystemdStartsAgent ==
  /\ started["local"] = "no"
  /\ secret # NONE /\ started["server"] # "no"
  /\ started' = [started EXCEPT !["local"] = "systemd"]
  /\ UNCHANGED <<fleet, token, secret, record, control, faults>>

\* A container enrolls in its policy, the Agent with the key it mounts and through
\* the Fleet Server.  One that is enrolled keeps its state and stays; one that
\* lost its policy may enroll again.
Enrolls(p) ==
  /\ started[p] # "no" /\ policy[p] # "absent" /\ enrolled[p] # "counted"
  /\ p = "local" => secret \in keys /\ enrolled["server"] # "none"
  /\ enrolled' = [enrolled EXCEPT ![p] = "counted"]
  /\ UNCHANGED <<policy, package, templates, keys, host, control, faults>>

-----------------------------------------------------------------------------
\* What a live process goes on with; Start is up to the operator.
Proceed(r) ==
  \/ Finish(r)
  \/ GetPolicy(r) \/ DeletePolicy(r) \/ CreatePolicy(r)
  \/ GetPackage(r) \/ PostPackage(r) \/ PutTemplate(r)
  \/ RestartServer(r) \/ WaitServing(r)
  \/ ReadToken(r) \/ PostKey(r) \/ OpenToken(r) \/ WriteToken(r)
  \/ ReadDigest(r) \/ Inspect(r) \/ CreateSecret(r) \/ WriteRecord(r)
  \/ RestartAgent(r) \/ WaitOnline(r)

Next ==
  \/ \E r \in Run : Start(r) \/ Proceed(r) \/ Interrupt(r)
  \/ SystemdStartsAgent
  \/ \E p \in Policy : Enrolls(p)

Spec == Init /\ [][Next]_vars

\* A live process takes its next step and somebody runs deploy again; a container
\* that never was enrolled enrolls in the end, when it can.
FairSpec ==
  /\ Spec
  /\ \A r \in Run : WF_vars(Proceed(r))
  /\ WF_vars(\E r \in Run : Start(r))
  /\ \A p \in Policy : WF_vars(enrolled[p] = "none" /\ Enrolls(p))

-----------------------------------------------------------------------------
\* Every variable holds what a run, Podman or Fleet can store there, and a run that
\* stores a key has been given one.
TypeOK ==
  /\ policy \in [Policy -> {"absent", "hosted", "ordinary"}]
  /\ enrolled \in [Policy -> {"none", "counted", "orphaned"}]
  /\ package \subseteq Package
  /\ templates \subseteq Dataset
  /\ keys \subseteq Key
  /\ token \in Key \cup {NONE}
  /\ secret \in Key \cup {NONE}
  /\ record \in Key \cup {NONE, EMPTY}
  /\ started \in [Policy -> {"no", "systemd", "deploy"}]
  /\ pc \in [Run -> Label]
  /\ step \in [Run -> 1..(Len(Script) + 1)]
  /\ made \in [Run -> Key \cup {NONE, EMPTY}]
  /\ \A r \in Run : pc[r] \in {"open", "write"} => made[r] \in Key
  /\ todo \in [Run -> SUBSET Dataset]
  /\ faults \in 0..MaxFaults

\* Neither the token file nor the Podman secret ever holds a key that Fleet has
\* revoked, but for the one that an earlier controller left: create_enrollment_token
\* reuses the file unseen, so a stale key would keep the Agent offline for good.
TokenUsable == {token, secret} \subseteq keys \cup {NONE, OldKey}

\* The Agent is started only on a complete bootstrap that stays complete: both
\* policies API-managed, every integration present, every template in place.  That
\* is so from the moment its Podman secret is made, since systemd may start it then.
AgentNeedsBootstrap ==
  started["local"] = "deploy" \/ secret \notin {NONE, OldKey} =>
    /\ \A p \in Policy : policy[p] = "ordinary"
    /\ package = Package
    /\ templates = Dataset

\* A policy the controller made is never deleted again, by no run.
OrdinaryKept ==
  [][\A p \in Policy : policy[p] = "ordinary" => policy'[p] = "ordinary"]_vars

\* "It refuses this migration when the policy has an enrolled agent" (the docs'
\* troubleshooting page): agents keep the policy they are enrolled in.
EnrolledKept ==
  [][\A p \in Policy : enrolled[p] = "counted" => policy'[p] = policy[p]]_vars

\* deploy returns only when the Agent it has started is enrolled (or lost its policy
\* to a delete), and the token file, the Podman secret and its record agree, so that
\* the next deploy is not refused.
ReturnsOnline ==
  [][\A r \in Run : Finish(r) =>
       /\ started["local"] = "deploy" /\ enrolled["local"] # "none"
       /\ token # NONE /\ secret = token /\ record = token]_vars

-----------------------------------------------------------------------------
(* What comes of it in the end, also of deploys that overlapped.           *)

Complete ==
  started["local"] = "deploy" /\ enrolled["local"] = "counted" /\ AgentNeedsBootstrap

\* A hosted policy that has agents needs an operator.
Blocked == \E p \in Policy : policy[p] = "hosted" /\ enrolled[p] = "counted"

\* An agent whose policy was deleted under it.
Orphaned == \E p \in Policy : enrolled[p] = "orphaned"

\* A Podman secret whose record will never be written.
Unrecorded == secret # NONE /\ record = NONE /\ \A r \in Run : pc[r] # "record"

\* The file holds a key that is revoked, or another one than the record is of, and
\* no run is about to write one.
Unusable ==
  /\ token # NONE
  /\ token \notin keys \/ record \notin {NONE, token}
  /\ \A r \in Run : pc[r] \notin {"post", "open", "write"}

Stuck == Unrecorded \/ Unusable

\* No run of deploy gets out of this: neither a revoked enrollment token nor a
\* Podman secret that differs from its file, or has no record, is ever replaced.
StuckForever == [][Stuck => Stuck']_vars

Alone == \A q, r \in Run : q = r \/ pc[q] = "idle" \/ pc[r] = "idle"

\* Once deploys do not overlap any more, deploy, run again after every end, brings
\* the Agent online for good, unless a hosted policy has agents, the migration has
\* orphaned one, or the token is stuck.
Converges ==
  <>[]Alone => <>[]Complete \/ <>[]Blocked \/ <>Orphaned \/ <>Stuck

\* Where no policy is hosted no deploy revokes the key of another and none starts the
\* Agent on an incomplete bootstrap, although nothing locks one out.  (The file and
\* the Podman secret can come apart even so: two keys, both good.)
NoMigrationNoRevocation ==
  (\A p \in Policy : policy[p] # "hosted") =>
    []({token, secret} \subseteq keys \cup {NONE} /\ AgentNeedsBootstrap)
================================================================================
