---------------------------- MODULE ReadinessProofs ----------------------------
(* Theorems about Readiness, for every budget of attempts and every cost   *)
(* of a request.                                                           *)
EXTENDS Readiness, TLAPS

\* A served answer that says "ready" makes every check true.
LEMMA ReadyMeansTrue ==
  ASSUME NEW c \in Check
  PROVE  Outcome(c, Answer(200, "ready")) = "true"
BY DEF Outcome, json, request, allow_status, Answer, ElkctlError, Escape, Returned

WaitInv ==
  /\ check \in Check
  /\ attempts \in Nat
  /\ elapsed \in Nat
  /\ service \in Service
  /\ phase = "asking" => attempts < Attempts[check] /\ elapsed >= attempts
  /\ phase = "sleeping" =>
       attempts <= Attempts[check] /\ elapsed + 1 >= attempts /\ reply # Answer(200, "ready")
  /\ FailsOnlyAfterBudget

\* A request and a sleep keep the books: attempts, time, and the last answer.
LEMMA WaitStep ==
  ASSUME WaitInv, [Next]_vars
  PROVE  WaitInv'
<1> USE AttemptsAssumption, CostAssumption DEF WaitInv, FailsOnlyAfterBudget
<1>1. CASE Ask
  <2>1. PICK rep \in Replies[service], cost \in 0..MaxCost :
          /\ reply' = rep
          /\ elapsed' = elapsed + cost
          /\ phase' = CASE Outcome(check, rep) = "true" -> "ready"
                        [] Outcome(check, rep) = "escape" -> "escaped"
                        [] OTHER -> "sleeping"
    BY <1>1 DEF Ask
  <2>2. /\ phase = "asking" /\ attempts' = attempts + 1
        /\ UNCHANGED <<service, check>>
    BY <1>1 DEF Ask
  <2>3. CASE Outcome(check, rep) = "true"
    BY <2>1, <2>2, <2>3
  <2>4. CASE Outcome(check, rep) # "true"
    <3>1. rep # Answer(200, "ready")
      BY <2>4, ReadyMeansTrue
    <3>2. phase' \in {"escaped", "sleeping"}
      BY <2>1, <2>4
    <3> QED
      BY <2>1, <2>2, <3>1, <3>2
  <2> QED
    BY <2>3, <2>4
<1>2. CASE Sleep
  BY <1>2 DEF Sleep
<1>3. CASE ServiceMoves
  BY <1>3 DEF ServiceMoves, Service, Ended
<1>4. CASE UNCHANGED vars
  BY <1>4 DEF vars
<1> QED
  BY <1>1, <1>2, <1>3, <1>4 DEF Next

\* The books of a wait are right in every reachable state.
LEMMA WaitAlways == Spec => []WaitInv
<1>1. Init => WaitInv
  BY AttemptsAssumption DEF Init, WaitInv, FailsOnlyAfterBudget
<1> QED
  BY <1>1, WaitStep, PTL DEF Spec

\* Every variable keeps its type: a service never answers what it cannot.
THEOREM TypeCorrect == Spec => []TypeOK
<1> DEFINE Typed == /\ reply \in Reply \cup {NoReply}
                    /\ phase \in {"asking", "sleeping"} \cup Ended
                    /\ attempts <= Attempts[check]
<1>1. Init => Typed
  BY AttemptsAssumption DEF Init
<1>2. ASSUME WaitInv, Typed, [Next]_vars PROVE Typed'
  <2>1. CASE Ask
    <3>1. PICK rep \in Replies[service] : reply' = rep
      BY <2>1 DEF Ask
    <3>2. rep \in Reply
      BY <1>2, <3>1 DEF Reply, WaitInv
    <3>3. phase' \in {"ready", "escaped", "sleeping"}
      BY <2>1 DEF Ask
    <3>4. attempts' <= Attempts[check]'
      BY <1>2, <2>1, AttemptsAssumption DEF Ask, WaitInv
    <3> QED
      BY <3>1, <3>2, <3>3, <3>4 DEF Ended
  <2>2. CASE Sleep
    <3>1. phase' \in {"asking", "failed"}
      BY <2>2 DEF Sleep
    <3> QED
      BY <1>2, <2>2, <3>1 DEF Sleep, Ended
  <2>3. CASE ServiceMoves \/ UNCHANGED vars
    <3>1. UNCHANGED <<reply, phase, attempts, check>>
      BY <2>3 DEF ServiceMoves, vars
    <3> QED
      BY <1>2, <3>1
  <2> QED
    BY <1>2, <2>1, <2>2, <2>3 DEF Next
<1>3. ASSUME WaitInv, Typed PROVE TypeOK
  <2>1. attempts \in 0..Attempts[check]
    BY <1>3, AttemptsAssumption DEF WaitInv
  <2> QED
    BY <1>3, <2>1 DEF WaitInv, TypeOK
<1> QED
  BY <1>1, <1>2, <1>3, WaitAlways, PTL DEF Spec

\* A wait gives up only when its whole budget is spent, whatever the budget.
THEOREM BudgetIsSpent == Spec => []FailsOnlyAfterBudget
<1>1. WaitInv => FailsOnlyAfterBudget
  BY DEF WaitInv
<1> QED
  BY <1>1, WaitAlways, PTL
================================================================================
