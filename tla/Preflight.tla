------------------------------- MODULE Preflight -------------------------------
(***************************************************************************)
(* The command preflight, and the same checks in front of deploy: the      *)
(* configuration is loaded, the checks are made one after the other, and   *)
(* the report is printed when the last of them is through.                 *)
(*                                                                         *)
(* What is wrong with the host stays wrong, but the services of an earlier *)
(* deploy go on meanwhile and any process may take a port that is free.    *)
(* A command that hangs is given up after 120 seconds.                     *)
(***************************************************************************)
EXTENDS Naturals, Sequences, Functions, Config

CONSTANTS
  Service,     \* bound: the services that are looked at
  Defects,     \* bound: the sets of checks a host may fail to meet
  MaxTrouble   \* bound: things wrong, commands that hang and steps of others

ASSUME PreflightAssumption ==
  /\ Service \subseteq {"elasticsearch", "kibana", "fleet"}
  /\ MaxTrouble \in Nat

-----------------------------------------------------------------------------
(* The checks: <<what is checked, the check>>, in the code's order.        *)

Of(subject, checks) == [i \in DOMAIN checks |-> <<subject, checks[i]>>]

Pki == {"files", "certificate", "key", "chain", "name", "expiry", "server", "client", "pair"}

\* Only Elasticsearch's certificate must be good for clients.
PkiOf(s) ==
  Of(s, <<"files", "certificate", "key", "chain", "name", "expiry", "server">>)
    \o (IF s = "elasticsearch" THEN Of(s, <<"client">>) ELSE <<>>)
    \o Of(s, <<"pair">>)

PortOf(s) == IF s \in Service THEN Of(s, <<"port">>) ELSE <<>>
CertificateOf(s) == IF s \in Service THEN Of(s, <<"mode">>) \o PkiOf(s) ELSE <<>>

Host == Of("host", <<"release", "podman", "machine", "systemd", "cgroup", "selinux",
                    "cpu", "memory", "disk", "swap", "mmap">>)

Network ==
  Of("network", <<"resolves", "ipv4">>)
    \o PortOf("elasticsearch") \o PortOf("kibana") \o PortOf("fleet")
    \o Of("network", <<"firewalld">>)

Supply(proxy) ==
  (IF proxy THEN Of("supply", <<"proxy_ca">>) ELSE <<>>)
    \o Of("supply", <<"images", "registry", "artifacts">>)

Plan == [proxy \in BOOLEAN |->
  Of("run", <<"lock", "root", "commands">>) \o Host \o Network
    \o CertificateOf("elasticsearch") \o CertificateOf("kibana") \o CertificateOf("fleet")
    \o Supply(proxy)]

Check == Range(Plan[TRUE])
IsPort(c) == c[2] = "port"
IsPki(c) == c[2] \in Pki

ASSUME DefectsAssumption == Defects \subseteq SUBSET {c \in Check : ~IsPort(c)}

\* A failure here is the last thing in the report.
Gate == {<<"run", "lock">>, <<"run", "root">>, <<"run", "commands">>}

\* What is only warned about.
Advisory == {<<"host", "swap">>, <<"host", "mmap">>, <<"network", "firewalld">>,
             <<"supply", "artifacts">>}

\* The checks that run a command; the others look for themselves.
Command ==
  {c \in Check : IsPort(c) \/ (IsPki(c) /\ c[2] # "files")}
    \cup {<<"host", "podman">>, <<"host", "cgroup">>, <<"host", "selinux">>,
          <<"host", "mmap">>, <<"network", "firewalld">>}
    \cup {c \in Check : c[1] = "supply"}

VARIABLES
  doc,      \* the configuration
  defects,  \* the checks the host does not meet
  port,     \* port[s]: "free", "ours" or "foreign"
  unit,     \* unit[s]: "inactive", "activating" or "active", to systemd
  at,       \* the check of the plan that is next; 0 before the load
  seen,     \* ss has shown a listener, and its unit is to be asked for
  report,   \* the checks that were reported, with a status
  outcome,  \* "running", then "passed", "failed", or "error" without a report
  timeouts, \* commands that hung so far
  moves     \* what others did so far

host == <<port, unit>>
vars == <<doc, defects, host, at, seen, report, outcome, timeouts, moves>>

\* Bound: what is wrong with the host is only tried with plain documents.
Plain(d) ==
  /\ Accepted(d)
  /\ d.schema = "text" /\ d.proxy.noProxy = "absent"
  /\ d.proxy.is = "null" \/ ProxyEnabled(d)

Init ==
  /\ doc \in Document
  /\ defects \in Defects
  /\ ~Plain(doc) => defects = {}
  /\ port \in [Service -> {"free", "ours", "foreign"}]
  /\ ~Plain(doc) => port = [s \in Service |-> "free"]
  /\ unit \in [Service -> {"inactive", "activating", "active"}]
  /\ \A s \in Service : port[s] = "ours" <=> unit[s] # "inactive"
  /\ at = 0 /\ seen = FALSE
  /\ report = {}
  /\ outcome = "running"
  /\ timeouts = 0 /\ moves = 0

-----------------------------------------------------------------------------
(* Going through the plan.                                                 *)

plan == Plan[ProxyEnabled(doc)]
Going == outcome = "running" /\ at \in DOMAIN plan
Here == plan[at]

\* What is wrong is what the host does not meet.  OpenSSL prints that a name
\* does not match; its exit status may be 0 all the same.
Finds(c) == IF c[2] = "name" THEN {(c \in defects), FALSE} ELSE {(c \in defects)}

Room == Cardinality(defects) + timeouts + moves < MaxTrouble

Add(status) == report' = report \cup {<<Here, status>>}

\* The next check after an early return from the service's certificate.
AfterPki ==
  CHOOSE n \in (at + 1)..(Len(plan) + 1) :
    /\ n \in DOMAIN plan => plan[n][1] # Here[1]
    /\ \A k \in at..(n - 1) : plan[k][1] = Here[1]

Exit(how) == outcome' = how /\ UNCHANGED <<at, seen, report>>

\* load_config: the error is printed, or is not one that main expects.
Load ==
  /\ outcome = "running" /\ at = 0
  /\ IF Accepted(doc) THEN at' = 1 /\ UNCHANGED <<seen, report, outcome>> ELSE Exit("error")
  /\ UNCHANGED <<doc, defects, host, timeouts, moves>>

\* A check by itself.  After a name that does not resolve its addresses are not
\* looked at, and after a failed gate nothing is.
Judge ==
  /\ Going /\ ~IsPort(Here) /\ ~IsPki(Here)
  /\ IF Here \in defects
       THEN Add(IF Here \in Advisory THEN "WARN" ELSE "FAIL")
       ELSE Add("PASS")
  /\ at' = CASE Here \in Gate \cap defects -> Len(plan) + 1
             [] Here = <<"network", "resolves">> /\ Here \in defects -> at + 2
             [] OTHER -> at + 1
  /\ UNCHANGED <<doc, defects, host, seen, outcome, timeouts, moves>>

\* Mutants of JudgeCertificate: an early return forgets the report; it ends the
\* whole preflight.
JudgeCertificateSilently ==
  /\ Going /\ IsPki(Here)
  /\ \E wrong \in Finds(Here) :
       IF wrong
         THEN at' = AfterPki /\ UNCHANGED report
         ELSE /\ IF Here[2] = "pair" THEN Add("PASS") ELSE UNCHANGED report
              /\ at' = at + 1
  /\ UNCHANGED <<doc, defects, host, seen, outcome, timeouts, moves>>

JudgeCertificateLast ==
  /\ Going /\ IsPki(Here)
  /\ \E wrong \in Finds(Here) :
       IF wrong
         THEN Add("FAIL") /\ at' = Len(plan) + 1
         ELSE /\ IF Here[2] = "pair" THEN Add("PASS") ELSE UNCHANGED report
              /\ at' = at + 1
  /\ UNCHANGED <<doc, defects, host, seen, outcome, timeouts, moves>>

\* _validate_certificate: the first failure is the only one; the last check
\* that is met is what the report calls validated.
JudgeCertificate ==
  /\ Going /\ IsPki(Here)
  /\ \E wrong \in Finds(Here) :
       IF wrong
         THEN Add("FAIL") /\ at' = AfterPki
         ELSE /\ IF Here[2] = "pair" THEN Add("PASS") ELSE UNCHANGED report
              /\ at' = at + 1
  /\ UNCHANGED <<doc, defects, host, seen, outcome, timeouts, moves>>

SeeListener ==
  /\ Going /\ IsPort(Here) /\ ~seen
  /\ IF port[Here[1]] = "free"
       THEN Add("PASS") /\ at' = at + 1 /\ UNCHANGED seen
       ELSE seen' = TRUE /\ UNCHANGED <<report, at>>
  /\ UNCHANGED <<doc, defects, host, outcome, timeouts, moves>>

\* Mutants of AskUnit: any listener is ours; no listener is; the look is not ended.
AskUnitTrusting ==
  /\ Going /\ IsPort(Here) /\ seen
  /\ Add("PASS")
  /\ at' = at + 1 /\ seen' = FALSE
  /\ UNCHANGED <<doc, defects, host, outcome, timeouts, moves>>

AskUnitRefusing ==
  /\ Going /\ IsPort(Here) /\ seen
  /\ Add("FAIL")
  /\ at' = at + 1 /\ seen' = FALSE
  /\ UNCHANGED <<doc, defects, host, outcome, timeouts, moves>>

AskUnitStillSeen ==
  /\ Going /\ IsPort(Here) /\ seen
  /\ Add(IF unit[Here[1]] = "active" THEN "PASS" ELSE "FAIL")
  /\ at' = at + 1
  /\ UNCHANGED <<doc, defects, host, seen, outcome, timeouts, moves>>

AskUnit ==
  /\ Going /\ IsPort(Here) /\ seen
  /\ Add(IF unit[Here[1]] = "active" THEN "PASS" ELSE "FAIL")
  /\ at' = at + 1 /\ seen' = FALSE
  /\ UNCHANGED <<doc, defects, host, outcome, timeouts, moves>>

\* A hung command raises whether or not its exit status would be looked at.
\* Only the certificate checks expect that; elsewhere the report is lost.
TimesOut ==
  /\ Going /\ Here \in Command
  /\ Room /\ timeouts' = timeouts + 1
  /\ IF IsPki(Here)
       THEN Add("FAIL") /\ at' = AfterPki /\ UNCHANGED <<seen, outcome>>
       ELSE Exit("error")
  /\ UNCHANGED <<doc, defects, host, moves>>

Failed == {e[1] : e \in {f \in report : f[2] = "FAIL"}}

\* The report is printed; deploy goes on when there are no failures.
PrintReport ==
  /\ outcome = "running" /\ at = Len(plan) + 1
  /\ Exit(IF Failed = {} THEN "passed" ELSE "failed")
  /\ UNCHANGED <<doc, defects, host, timeouts, moves>>

-----------------------------------------------------------------------------
(* The services and other processes.                                       *)

Move(s, p, u) ==
  /\ outcome = "running"
  /\ Room /\ moves' = moves + 1
  /\ port' = [port EXCEPT ![s] = p]
  /\ unit' = [unit EXCEPT ![s] = u]
  /\ UNCHANGED <<doc, defects, at, seen, report, outcome, timeouts>>

\* Podman listens before the unit counts as started.
UnitMoves(s) ==
  \/ unit[s] = "inactive" /\ port[s] = "free" /\ Move(s, "ours", "activating")
  \/ unit[s] = "activating" /\ Move(s, "ours", "active")
  \/ unit[s] # "inactive" /\ Move(s, "free", "inactive")

ForeignMoves(s) ==
  \/ port[s] = "free" /\ Move(s, "foreign", unit[s])
  \/ port[s] = "foreign" /\ Move(s, "free", unit[s])

-----------------------------------------------------------------------------
Proceed ==
  \/ Load \/ Judge \/ JudgeCertificate \/ SeeListener \/ AskUnit \/ TimesOut \/ PrintReport

Next == Proceed \/ \E s \in Service : UnitMoves(s) \/ ForeignMoves(s)

Spec == Init /\ [][Next]_vars

-----------------------------------------------------------------------------
\* Every variable holds what preflight or its surroundings can put there, and
\* a unit that is up is the one that listens.
TypeOK ==
  /\ doc \in Document
  /\ defects \subseteq Check
  /\ port \in [Service -> {"free", "ours", "foreign"}]
  /\ \A s \in Service : unit[s] # "inactive" => port[s] = "ours"
  /\ at \in 0..(Len(plan) + 1)
  /\ seen => at \in DOMAIN plan /\ IsPort(Here)
  /\ report \subseteq Check \X {"PASS", "WARN", "FAIL"}
  /\ outcome \in {"running", "passed", "failed", "error"}

\* What the code accepts the schema accepts, but for a proxy object without a
\* url, a $schema that is no text, and what the placeholders stand for.
AcceptedIsValid ==
  at > 0 => \/ SchemaValid(doc)
            \/ doc.proxy.is = "object" /\ doc.proxy.url = "absent"
            \/ doc.schema # "text"

\* What the host does not meet although it must, as far as the plan asks for it
\* and openssl's exit status shows it.
Unmet == {d \in (defects \cap Range(plan)) \ Advisory : d[2] # "name"}

\* preflight, and the gate of deploy, let no host through that lacks something.
PassMeansFit == outcome = "passed" => Unmet = {}

\* A report that went past the gates names everything at once: one bad thing
\* hides another only within one service's certificate, and an address of a
\* name that does not resolve.
NamesEverything ==
  (outcome \in {"passed", "failed"} /\ Failed \cap Gate = {}) =>
    \A d \in Unmet :
      \/ d \in Failed
      \/ IsPki(d) /\ \E f \in Failed : IsPki(f) /\ f[1] = d[1]
      \/ d = <<"network", "ipv4">> /\ <<"network", "resolves">> \in Failed

\* A host that meets everything and that nothing disturbs passes, also while the
\* services of an earlier deploy hold the ports, unless one is just starting: it
\* listens already and is not active yet.
FitHostPasses ==
  outcome \in {"failed", "error"} =>
    \/ defects \ Advisory # {} \/ ~Accepted(doc)
    \/ timeouts > 0 \/ moves > 0
    \/ \E s \in Service : port[s] = "foreign" \/ unit[s] = "activating"

\* A port is passed only when no other process holds it at that moment.
PortPassIsJustified ==
  [][\A s \in Service :
       LET pass == <<<<s, "port">>, "PASS">>
       IN  pass \in report' \ report => port[s] # "foreign"]_vars

\* "certificate, SAN, chain, key, EKU, and expiry validate" (preflight.py:89):
\* what is reported so has the name of the host.
SANValidated ==
  \A s \in Service : <<<<s, "pair">>, "PASS">> \in report => <<s, "name">> \notin defects
================================================================================
