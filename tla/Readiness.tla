------------------------------- MODULE Readiness -------------------------------
(***************************************************************************)
(* wait_for, the five readiness checks deploy gives it, and the HTTP       *)
(* client between them and a service that is still coming up.  The client  *)
(* turns some failures into an ElkctlError, which the loop swallows and    *)
(* retries; what it does not turn escapes the loop and ends deploy.        *)
(*                                                                         *)
(* Time is counted in the loop's own unit, the 5 seconds of one sleep.     *)
(***************************************************************************)
EXTENDS Naturals

CONSTANTS
  Attempts,   \* the budget of each check: 60 or 90 in the code
  MaxCost     \* bound: how long one request takes, in units of one sleep

Check == {"Elasticsearch", "Kibana", "Fleet setup", "Fleet Server", "Agent"}

ASSUME AttemptsAssumption == Attempts \in [Check -> Nat \ {0}]
ASSUME CostAssumption == MaxCost \in Nat

VARIABLES
  service,   \* the service the check asks
  check,     \* the check this wait runs
  attempts,  \* requests made so far
  elapsed,   \* time since the wait began
  reply,     \* the last thing the service did
  phase      \* "asking", "sleeping", or how the wait ended

vars == <<service, check, attempts, elapsed, reply, phase>>

Service == {"down", "starting", "misconfigured", "up"}
Ended == {"ready", "failed", "escaped"}

Answer(status, body) == [kind |-> "answer", status |-> status, body |-> body]
Failure(kind) == [kind |-> kind, status |-> 0, body |-> "none"]

\* What a service in each state can do to one request.
Replies ==
  [s \in Service |->
    CASE s = "down" -> {Failure("refused"), Failure("timeout")}
      [] s = "starting" ->
           {Answer(200, "degraded"), Answer(200, "none"), Answer(200, "garbage"),
            Answer(503, "degraded"), Answer(503, "garbage"),
            Failure("timeout"), Failure("dropped")}
      [] s = "misconfigured" -> {Answer(400, "degraded"), Answer(401, "garbage")}
      [] s = "up" -> {Answer(200, "ready")}]

Reply == UNION {Replies[s] : s \in Service}
NoReply == Failure("none")

-----------------------------------------------------------------------------
(* HttpClient.request and HttpClient.json: a status and a payload, an      *)
(* ElkctlError, or an exception the client does not turn into one.         *)

ElkctlError == [raised |-> "ElkctlError", status |-> 0, payload |-> "none"]
Escape == [raised |-> "other", status |-> 0, payload |-> "none"]
Returned(status, payload) == [raised |-> "no", status |-> status, payload |-> payload]

\* URLError, TimeoutError and SSLError are wrapped; a connection that closes
\* while the answer is awaited or read raises something else.
request(rep, allowed) ==
  CASE rep.kind \in {"refused", "timeout"} -> ElkctlError
    [] rep.kind = "dropped" -> Escape
    [] rep.kind = "answer" ->
         IF rep.status = 200 \/ rep.status \in allowed
           THEN Returned(rep.status, rep.body)
           ELSE ElkctlError

json(rep, allowed) ==
  LET response == request(rep, allowed)
  IN IF response.raised = "no" /\ response.payload = "garbage" THEN ElkctlError ELSE response

\* What each check makes of the answer.  Only the Fleet setup looks whether
\* there is a payload; the others call a method of it.
allow_status(c) == IF c = "Fleet setup" THEN {503} ELSE {}

Outcome(c, rep) ==
  LET response == json(rep, allow_status(c))
  IN CASE response.raised = "ElkctlError" -> "error"
       [] response.raised = "other" -> "escape"
       [] response.raised = "no" /\ response.payload = "none" ->
            IF c = "Fleet setup" THEN "false" ELSE "escape"
       [] OTHER ->
            IF response.payload = "ready" /\ (c = "Agent" \/ response.status = 200)
              THEN "true" ELSE "false"

-----------------------------------------------------------------------------
Init ==
  /\ service \in Service
  /\ check \in Check
  /\ attempts = 0
  /\ elapsed = 0
  /\ reply = NoReply
  /\ phase = "asking"

\* One turn of the loop up to the end of the request.
Ask ==
  /\ phase = "asking"
  /\ \E rep \in Replies[service], cost \in 0..MaxCost :
       /\ reply' = rep
       /\ elapsed' = elapsed + cost
       /\ phase' = CASE Outcome(check, rep) = "true" -> "ready"
                     [] Outcome(check, rep) = "escape" -> "escaped"
                     [] OTHER -> "sleeping"
  /\ attempts' = attempts + 1
  /\ UNCHANGED <<service, check>>

\* Mutants of Sleep: one attempt too many, one too few, no error at the end.
SleepOnceMore ==
  /\ phase = "sleeping"
  /\ elapsed' = elapsed + 1
  /\ phase' = IF attempts <= Attempts[check] THEN "asking" ELSE "failed"
  /\ UNCHANGED <<service, check, attempts, reply>>

SleepOnceLess ==
  /\ phase = "sleeping"
  /\ elapsed' = elapsed + 1
  /\ phase' = IF attempts + 1 < Attempts[check] THEN "asking" ELSE "failed"
  /\ UNCHANGED <<service, check, attempts, reply>>

SleepWithoutError ==
  /\ phase = "sleeping" /\ attempts < Attempts[check]
  /\ elapsed' = elapsed + 1
  /\ phase' = "asking"
  /\ UNCHANGED <<service, check, attempts, reply>>

\* The loop sleeps after every attempt that did not end it, the last included.
Sleep ==
  /\ phase = "sleeping"
  /\ elapsed' = elapsed + 1
  /\ phase' = IF attempts < Attempts[check] THEN "asking" ELSE "failed"
  /\ UNCHANGED <<service, check, attempts, reply>>

\* The service comes up, or crashes and is restarted by systemd.
ServiceMoves ==
  /\ phase \notin Ended
  /\ \/ service = "down" /\ service' = "starting"
     \/ service = "starting" /\ service' \in {"up", "down"}
     \/ service = "up" /\ service' = "down"
  /\ UNCHANGED <<check, attempts, elapsed, reply, phase>>

Next == Ask \/ Sleep \/ ServiceMoves

Spec == Init /\ [][Next]_vars

\* The loop goes on; the service need not do anything.
FairSpec == Spec /\ WF_vars(Ask) /\ WF_vars(Sleep)

-----------------------------------------------------------------------------
\* Every variable holds what the loop and the service can make of it.
TypeOK ==
  /\ service \in Service
  /\ check \in Check
  /\ attempts \in 0..Attempts[check]
  /\ elapsed \in Nat
  /\ reply \in Reply \cup {NoReply}
  /\ phase \in {"asking", "sleeping"} \cup Ended

\* A wait gives up only when its whole budget is spent: every attempt made,
\* a sleep after each of them, and the last answer not a ready one.
FailsOnlyAfterBudget ==
  phase = "failed" =>
    /\ attempts = Attempts[check]
    /\ elapsed >= Attempts[check]
    /\ reply # Answer(200, "ready")

\* A wait ends, whatever the service does.
WaitEnds == <>(phase \in Ended)

-----------------------------------------------------------------------------
\* "retries only a temporary HTTP 503 response [...] Other HTTP errors remain
\* immediate failures" (docs/operations/troubleshooting.md, Fleet setup).
OtherErrorsEndTheSetup ==
  [][(Ask /\ check = "Fleet setup" /\ reply'.status \in {400, 401})
       => phase' \in {"failed", "escaped"}]_vars
================================================================================
