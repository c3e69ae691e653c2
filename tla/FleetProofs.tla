------------------------------ MODULE FleetProofs ------------------------------
(* Theorems about FleetPolicies, for every number of runs, datasets, keys   *)
(* and interruptions, and whatever an earlier version may have left.  Those *)
(* about a migration need deploys to run one at a time and say so with      *)
(* OneRun; where nothing is hosted any number may run together.             *)
EXTENDS FleetPolicies, TLAPS

OneRun == \A p, q \in Run : p = q

-----------------------------------------------------------------------------
(* Where a run is within its step, and the types.                          *)

\* The steps in which a run can stand at a label.
Place(label, n) ==
  /\ label \in {"migrate", "create"} => n \in {1, 2}
  /\ label = "add" => n \in {3, 4}
  /\ label = "serving" => n = 6
  /\ label \in {"post", "open", "write"} => n = 7
  /\ label \in {"inspect", "mount", "record"} => n = 8
  /\ label = "online" => n = 9

ControlOf(r) == Place(pc[r], step[r])

Control == \A r \in Run : ControlOf(r)

ControlInv == TypeOK /\ Control

\* bootstrap_fleet's steps by number.
LEMMA ScriptFacts ==
  /\ Len(Script) = 9 /\ DOMAIN Script = 1..9
  /\ Script[1] = "server" /\ Script[2] = "local"
  /\ Script[3] = "system" /\ Script[4] = "journald"
  /\ Script[5] = "templates" /\ Script[6] = "fleet" /\ Script[7] = "token"
  /\ Script[8] = "secret" /\ Script[9] = "agent"
BY DEF Script

\* What a run does at each step.
LEMMA ItemFacts ==
  ASSUME NEW r \in Run
  PROVE  /\ Doing(r, Policy) => step[r] \in {1, 2}
         /\ Doing(r, Package) => step[r] \in {3, 4}
         /\ Doing(r, {"templates"}) => step[r] = 5
         /\ Doing(r, {"fleet"}) => step[r] = 6
         /\ Doing(r, {"token"}) => step[r] = 7
         /\ Doing(r, {"secret"}) => step[r] = 8
         /\ Doing(r, {"agent"}) => step[r] = 9
         /\ step[r] = 1 => Item(r) = "server"
         /\ step[r] = 2 => Item(r) = "local"
         /\ step[r] = 3 => Item(r) = "system"
         /\ step[r] = 4 => Item(r) = "journald"
<1>1. step[r] \in DOMAIN Script => step[r] \in {1, 2, 3, 4, 5, 6, 7, 8, 9}
  BY ScriptFacts
<1> QED
  BY <1>1, ScriptFacts DEF Doing, Item, Policy, Package

\* A key is a number; NONE and EMPTY are no keys, and the old key is no new one.
LEMMA KeyFacts ==
  /\ NONE \notin Key /\ EMPTY \notin Key /\ NONE # EMPTY
  /\ NewKey \subseteq Key /\ OldKey \notin NewKey /\ OldKey \in Key
BY KeyAssumption DEF Key, NewKey, OldKey

\* How the control of a run and of the others moves.
LEMMA GotoMoves ==
  ASSUME ControlInv, NEW r \in Run, NEW label \in Label, Goto(r, label)
  PROVE  /\ pc' \in [Run -> Label] /\ pc'[r] = label
         /\ \A q \in Run : q # r => pc'[q] = pc[q]
         /\ UNCHANGED <<step, made, todo>>
BY DEF ControlInv, TypeOK, Goto

\* The same for a run that leaves its step.
LEMMA LeaveMoves ==
  ASSUME ControlInv, NEW r \in Run, NEW label \in Label, NEW n \in 1..10, Leave(r, label, n)
  PROVE  /\ pc' \in [Run -> Label] /\ pc'[r] = label
         /\ step' \in [Run -> 1..10] /\ step'[r] = n
         /\ made' \in [Run -> Key \cup {NONE, EMPTY}] /\ made'[r] = NONE
         /\ todo' \in [Run -> SUBSET Dataset] /\ todo'[r] = Dataset
         /\ \A q \in Run : q # r =>
              /\ pc'[q] = pc[q] /\ step'[q] = step[q]
              /\ made'[q] = made[q] /\ todo'[q] = todo[q]
BY ScriptFacts DEF ControlInv, TypeOK, Leave

\* A run that is given a key, or reads a digest.
Take(r, label, value) ==
  /\ made' = [made EXCEPT ![r] = value]
  /\ pc' = [pc EXCEPT ![r] = label]
  /\ UNCHANGED <<step, todo>>

\* The same for a run that takes a value.
LEMMA TakeMoves ==
  ASSUME ControlInv, NEW r \in Run, NEW label \in Label, NEW value \in Key \cup {NONE, EMPTY},
         Take(r, label, value)
  PROVE  /\ pc' \in [Run -> Label] /\ pc'[r] = label
         /\ made' \in [Run -> Key \cup {NONE, EMPTY}] /\ made'[r] = value
         /\ \A q \in Run : q # r => pc'[q] = pc[q] /\ made'[q] = made[q]
         /\ UNCHANGED <<step, todo>>
BY DEF ControlInv, TypeOK, Take

Given(r) == pc[r] \in {"open", "write"} => made[r] \in Key

ControlTypes ==
  /\ pc \in [Run -> Label] /\ step \in [Run -> 1..(Len(Script) + 1)]
  /\ made \in [Run -> Key \cup {NONE, EMPTY}] /\ todo \in [Run -> SUBSET Dataset]
  /\ \A r \in Run : Given(r)

\* A run that stays within its step may go where the step allows.
LEMMA GotoKeepsControl ==
  ASSUME ControlInv, NEW r \in Run, NEW label \in Label, Goto(r, label),
         Place(label, step[r]),
         label \in {"open", "write"} => made[r] \in Key
  PROVE  (ControlTypes /\ Control)'
<1>1. /\ pc' \in [Run -> Label] /\ pc'[r] = label
      /\ \A q \in Run : q # r => pc'[q] = pc[q]
      /\ UNCHANGED <<step, made, todo>>
  BY GotoMoves
<1>2. ASSUME NEW q \in Run PROVE ControlOf(q)' /\ Given(q)'
  <2>1. CASE q = r
    BY <1>1, <2>1 DEF ControlOf, Given
  <2>2. CASE q # r
    BY <1>1, <2>2 DEF ControlOf, Control, ControlInv, TypeOK, Given
  <2> QED
    BY <2>1, <2>2
<1>3. ControlTypes'
  BY <1>1, <1>2 DEF ControlTypes, ControlInv, TypeOK
<1> QED
  BY <1>2, <1>3 DEF Control

\* So may one that takes a value there.
LEMMA TakeKeepsControl ==
  ASSUME ControlInv, NEW r \in Run, NEW label \in Label, NEW value \in Key \cup {NONE, EMPTY},
         Take(r, label, value), Place(label, step[r]),
         label \in {"open", "write"} => value \in Key
  PROVE  (ControlTypes /\ Control)'
<1>1. /\ pc' \in [Run -> Label] /\ pc'[r] = label
      /\ made' \in [Run -> Key \cup {NONE, EMPTY}] /\ made'[r] = value
      /\ \A q \in Run : q # r => pc'[q] = pc[q] /\ made'[q] = made[q]
      /\ UNCHANGED <<step, todo>>
  BY TakeMoves
<1>2. ASSUME NEW q \in Run PROVE ControlOf(q)' /\ Given(q)'
  <2>1. CASE q = r
    BY <1>1, <2>1 DEF ControlOf, Given
  <2>2. CASE q # r
    BY <1>1, <2>2 DEF ControlOf, Control, ControlInv, TypeOK, Given
  <2> QED
    BY <2>1, <2>2
<1>3. ControlTypes'
  BY <1>1, <1>2 DEF ControlTypes, ControlInv, TypeOK
<1> QED
  BY <1>2, <1>3 DEF Control

\* A run that leaves its step is between two steps, or has ended.
LEMMA LeaveKeepsControl ==
  ASSUME ControlInv, NEW r \in Run, NEW label \in {"idle", "next"}, NEW n \in 1..10,
         Leave(r, label, n)
  PROVE  (ControlTypes /\ Control)'
<1>0. label \in Label
  BY DEF Label
<1>1. /\ pc' \in [Run -> Label] /\ pc'[r] = label
      /\ step' \in [Run -> 1..10] /\ step'[r] = n
      /\ made' \in [Run -> Key \cup {NONE, EMPTY}] /\ made'[r] = NONE
      /\ todo' \in [Run -> SUBSET Dataset] /\ todo'[r] = Dataset
      /\ \A q \in Run : q # r =>
           /\ pc'[q] = pc[q] /\ step'[q] = step[q]
           /\ made'[q] = made[q] /\ todo'[q] = todo[q]
  BY <1>0, LeaveMoves
<1>2. ASSUME NEW q \in Run PROVE ControlOf(q)' /\ Given(q)'
  <2>1. CASE q = r
    BY <1>1, <2>1 DEF ControlOf, Given, Place
  <2>2. CASE q # r
    BY <1>1, <2>2 DEF ControlOf, Control, ControlInv, TypeOK, Given
  <2> QED
    BY <2>1, <2>2
<1>3. ControlTypes'
  BY <1>1, <1>2, ScriptFacts DEF ControlTypes
<1> QED
  BY <1>2, <1>3 DEF Control

\* A run that ends, early or not, starts again from nothing.
LEMMA ExitKeepsControl ==
  ASSUME ControlInv, NEW r \in Run, Exit(r)
  PROVE  (ControlTypes /\ Control)'
BY LeaveKeepsControl DEF Exit

\* A run that returns from a step goes on with the next one.
LEMMA ReturnKeepsControl ==
  ASSUME ControlInv, NEW r \in Run, step[r] \in 1..9, Return(r)
  PROVE  (ControlTypes /\ Control)'
<1>1. step[r] + 1 \in 1..10
  OBVIOUS
<1> QED
  BY <1>1, LeaveKeepsControl DEF Return

\* What Fleet, the files, the Podman secret and the containers may hold.
StoreTypes ==
  /\ policy \in [Policy -> {"absent", "hosted", "ordinary"}]
  /\ enrolled \in [Policy -> {"none", "counted", "orphaned"}]
  /\ package \subseteq Package /\ templates \subseteq Dataset /\ keys \subseteq Key
  /\ token \in Key \cup {NONE} /\ secret \in Key \cup {NONE}
  /\ record \in Key \cup {NONE, EMPTY}
  /\ started \in [Policy -> {"no", "systemd", "deploy"}]
  /\ faults \in 0..MaxFaults

\* The types of the control and those of the stores, apart.
LEMMA TypesSplit == TypeOK <=> ControlTypes /\ StoreTypes
BY DEF TypeOK, ControlTypes, StoreTypes, Given

\* The control, when no run moves.
LEMMA ControlRests ==
  ASSUME ControlInv, UNCHANGED control
  PROVE  (ControlTypes /\ Control)'
BY DEF control, ControlInv, TypeOK, ControlTypes, Control, ControlOf, Given

\* No request leaves a run where its step does not lead.
LEMMA ControlStep ==
  ASSUME ControlInv, [Next]_vars
  PROVE  ControlInv'
<1> SUFFICES (ControlTypes /\ Control)' /\ StoreTypes'
  BY DEF ControlInv, TypeOK, ControlTypes, StoreTypes, Given
<1> USE DEF fleet, host
<1>0. StoreTypes /\ ControlTypes /\ Control
  BY TypesSplit DEF ControlInv
<1>1. CASE UNCHANGED vars
  <2>1. UNCHANGED control
    BY <1>1 DEF vars, control
  <2> QED
    BY <1>0, <1>1, <2>1, ControlRests DEF vars, StoreTypes
<1>2. CASE SystemdStartsAgent
  <2>1. started' \in [Policy -> {"no", "systemd", "deploy"}]
    BY <1>0, <1>2 DEF SystemdStartsAgent, StoreTypes
  <2> QED
    BY <1>0, <1>2, <2>1, ControlRests DEF SystemdStartsAgent, StoreTypes
<1>3. ASSUME NEW p \in Policy, Enrolls(p)
      PROVE  (ControlTypes /\ Control)' /\ StoreTypes'
  <2>1. enrolled' \in [Policy -> {"none", "counted", "orphaned"}]
    BY <1>0, <1>3 DEF Enrolls, StoreTypes
  <2> QED
    BY <1>0, <1>3, <2>1, ControlRests DEF Enrolls, StoreTypes
<1>4. ASSUME NEW r \in Run, Start(r) \/ Proceed(r) \/ Interrupt(r)
      PROVE  (ControlTypes /\ Control)' /\ StoreTypes'
  <2>0. /\ {"migrate", "create", "add", "serving", "post", "open", "write", "inspect", "mount",
            "record", "online"} \subseteq Label
        /\ step[r] \in {1, 2} => Place("migrate", step[r]) /\ Place("create", step[r])
        /\ step[r] \in {3, 4} => Place("add", step[r])
        /\ step[r] = 6 => Place("serving", step[r])
        /\ step[r] = 7 => \A label \in {"post", "open", "write"} : Place(label, step[r])
        /\ step[r] = 8 => \A label \in {"inspect", "mount", "record"} : Place(label, step[r])
        /\ step[r] = 9 => Place("online", step[r])
    BY DEF Label, Place
  <2>c. ControlOf(r)
    BY <1>0 DEF Control
  <2>1. CASE Start(r)
    BY <1>0, <2>1, LeaveKeepsControl DEF Start, StoreTypes
  <2>2. CASE Finish(r)
    BY <1>0, <2>2, ExitKeepsControl DEF Finish, StoreTypes
  <2>3. CASE Interrupt(r)
    <3>1. faults' \in 0..MaxFaults
      BY <1>0, <2>3, FaultAssumption DEF Interrupt, StoreTypes
    <3> QED
      BY <1>0, <2>3, <3>1, ExitKeepsControl DEF Interrupt, StoreTypes
  <2>4. CASE GetPolicy(r)
    <3>1. step[r] \in {1, 2}
      BY <2>4, ItemFacts DEF GetPolicy
    <3>2. Goto(r, "create") \/ Goto(r, "migrate") \/ Return(r) \/ Exit(r)
      <4>1. Item(r) \in Policy
        BY <2>4 DEF GetPolicy, Doing
      <4>2. policy[Item(r)] \in {"absent", "hosted", "ordinary"}
        BY <1>0, <4>1 DEF StoreTypes
      <4> QED
        BY <4>2, <2>4 DEF GetPolicy
    <3>3. (ControlTypes /\ Control)'
      BY <2>0, <3>1, <3>2, GotoKeepsControl, ReturnKeepsControl, ExitKeepsControl
    <3> QED
      BY <1>0, <3>3, <2>4 DEF GetPolicy, StoreTypes
  <2>5. CASE DeletePolicy(r)
    <3>1. step[r] \in {1, 2}
      BY <2>c, <2>5 DEF DeletePolicy, At, ControlOf, Place
    <3>2. Goto(r, "create") \/ Exit(r)
      BY <2>5 DEF DeletePolicy
    <3>3. (ControlTypes /\ Control)'
      BY <2>0, <3>1, <3>2, GotoKeepsControl, ExitKeepsControl
    <3>4. StoreTypes'
      <4>1. CASE UNCHANGED fleet
        BY <1>0, <2>5, <4>1 DEF DeletePolicy, StoreTypes
      <4>2. CASE /\ policy' = [policy EXCEPT ![Item(r)] = "absent"]
                 /\ enrolled' = [enrolled EXCEPT ![Item(r)] =
                                   IF @ = "counted" THEN "orphaned" ELSE @]
                 /\ package' = IF Item(r) = "local" THEN {} ELSE package
                 /\ keys' = IF Item(r) = "local" THEN {} ELSE keys
                 /\ UNCHANGED templates
        <5>1. policy' \in [Policy -> {"absent", "hosted", "ordinary"}]
          BY <1>0, <4>2 DEF StoreTypes
        <5>2. enrolled' \in [Policy -> {"none", "counted", "orphaned"}]
          BY <1>0, <4>2 DEF StoreTypes
        <5> QED
          BY <1>0, <2>5, <4>2, <5>1, <5>2 DEF DeletePolicy, StoreTypes
      <4> QED
        BY <2>5, <4>1, <4>2 DEF DeletePolicy
    <3> QED
      BY <3>3, <3>4
  <2>6. CASE CreatePolicy(r)
    <3>1. step[r] \in {1, 2}
      BY <2>c, <2>6 DEF CreatePolicy, At, ControlOf, Place
    <3>2. Return(r) \/ Exit(r)
      BY <2>6 DEF CreatePolicy
    <3>3. (ControlTypes /\ Control)'
      BY <3>1, <3>2, ReturnKeepsControl, ExitKeepsControl
    <3> QED
      BY <1>0, <2>6, <3>3 DEF CreatePolicy, StoreTypes
  <2>7. CASE GetPackage(r)
    <3>1. step[r] \in {3, 4}
      BY <2>7, ItemFacts DEF GetPackage
    <3>2. Return(r) \/ Goto(r, "add")
      BY <2>7 DEF GetPackage
    <3>3. (ControlTypes /\ Control)'
      BY <2>0, <3>1, <3>2, GotoKeepsControl, ReturnKeepsControl
    <3> QED
      BY <1>0, <3>3, <2>7 DEF GetPackage, StoreTypes
  <2>8. CASE PostPackage(r)
    <3>1. step[r] \in {3, 4}
      BY <2>c, <2>8 DEF PostPackage, At, ControlOf, Place
    <3>2. Return(r) \/ Exit(r)
      BY <2>8 DEF PostPackage
    <3>3. (ControlTypes /\ Control)'
      BY <3>1, <3>2, ReturnKeepsControl, ExitKeepsControl
    <3>4. Item(r) \in Package
      BY <3>1, ItemFacts DEF Package
    <3> QED
      BY <1>0, <2>8, <3>3, <3>4 DEF PostPackage, StoreTypes
  <2>9. CASE PutTemplate(r)
    <3>1. step[r] = 5
      BY <2>9, ItemFacts DEF PutTemplate
    <3>2. PICK d \in todo[r] :
            /\ templates' = templates \cup {d}
            /\ IF todo[r] = {d} THEN Return(r)
               ELSE todo' = [todo EXCEPT ![r] = @ \ {d}] /\ UNCHANGED <<pc, step, made>>
      BY <2>9 DEF PutTemplate
    <3>3. (ControlTypes /\ Control)'
      <4>1. CASE Return(r)
        BY <4>1, <3>1, ReturnKeepsControl
      <4>2. CASE todo' = [todo EXCEPT ![r] = @ \ {d}] /\ UNCHANGED <<pc, step, made>>
        BY <1>0, <4>2 DEF ControlTypes, Control, ControlOf, Given
      <4> QED
        BY <3>2, <4>1, <4>2
    <3>4. d \in Dataset
      BY <1>0 DEF ControlTypes
    <3> QED
      BY <1>0, <2>9, <3>2, <3>3, <3>4 DEF PutTemplate, StoreTypes
  <2>10. CASE RestartServer(r) \/ RestartAgent(r)
    <3>1. \/ step[r] = 6 /\ Goto(r, "serving")
          \/ step[r] = 9 /\ Goto(r, "online")
      BY <2>10, ItemFacts DEF RestartServer, RestartAgent
    <3>2. (ControlTypes /\ Control)'
      BY <2>0, <3>1, GotoKeepsControl
    <3>3. started' \in [Policy -> {"no", "systemd", "deploy"}]
      BY <1>0, <2>10 DEF RestartServer, RestartAgent, StoreTypes
    <3> QED
      BY <1>0, <2>10, <3>2, <3>3 DEF RestartServer, RestartAgent, StoreTypes
  <2>11. CASE WaitServing(r) \/ WaitOnline(r)
    <3>1. step[r] \in {6, 9} /\ (Return(r) \/ Exit(r))
      BY <2>c, <2>11 DEF WaitServing, WaitOnline, At, ControlOf, Place
    <3>2. (ControlTypes /\ Control)'
      BY <3>1, ReturnKeepsControl, ExitKeepsControl
    <3> QED
      BY <1>0, <2>11, <3>2 DEF WaitServing, WaitOnline, StoreTypes
  <2>12. CASE ReadToken(r)
    <3>1. step[r] = 7
      BY <2>12, ItemFacts DEF ReadToken
    <3>2. Return(r) \/ Goto(r, "post")
      BY <2>12 DEF ReadToken
    <3>3. (ControlTypes /\ Control)'
      BY <2>0, <3>1, <3>2, GotoKeepsControl, ReturnKeepsControl
    <3> QED
      BY <1>0, <3>3, <2>12 DEF ReadToken, StoreTypes
  <2>13. CASE PostKey(r)
    <3>1. step[r] = 7
      BY <2>c, <2>13 DEF PostKey, At, ControlOf, Place
    <3>2. CASE Exit(r) /\ UNCHANGED keys
      <4>1. (ControlTypes /\ Control)'
        BY <3>2, ExitKeepsControl
      <4> QED
        BY <1>0, <4>1, <3>2, <2>13 DEF PostKey, StoreTypes
    <3>3. ASSUME NEW k \in NewKey, keys' = (keys \cap Held) \cup {k}, Take(r, "open", k)
          PROVE  (ControlTypes /\ Control)' /\ StoreTypes'
      <4>0. k \in Key
        BY KeyFacts
      <4>1. (ControlTypes /\ Control)'
        BY <2>0, <3>1, <3>3, <4>0, TakeKeepsControl
      <4> QED
        BY <1>0, <4>0, <4>1, <3>3, <2>13 DEF PostKey, StoreTypes
    <3> QED
      BY <2>13, <3>2, <3>3 DEF PostKey, Take
  <2>14. CASE OpenToken(r)
    <3>1. step[r] = 7 /\ made[r] \in Key
      BY <1>0, <2>c, <2>14 DEF OpenToken, At, ControlOf, Place, ControlTypes, Given
    <3>2. (ControlTypes /\ Control)'
      BY <2>0, <2>14, <3>1, GotoKeepsControl DEF OpenToken
    <3> QED
      BY <1>0, <3>2, <2>14 DEF OpenToken, StoreTypes
  <2>15. CASE WriteToken(r)
    <3>1. step[r] = 7 /\ made[r] \in Key
      BY <1>0, <2>c, <2>15 DEF WriteToken, At, ControlOf, Place, ControlTypes, Given
    <3>2. (ControlTypes /\ Control)'
      BY <2>15, <3>1, ReturnKeepsControl DEF WriteToken
    <3> QED
      BY <1>0, <3>1, <3>2, <2>15 DEF WriteToken, StoreTypes
  <2>16. CASE ReadDigest(r)
    <3>1. step[r] = 8
      BY <2>16, ItemFacts DEF ReadDigest
    <3>2. PICK value \in Key \cup {NONE, EMPTY} : Take(r, "inspect", value)
      BY <1>0, <2>16 DEF ReadDigest, Take, StoreTypes
    <3>3. (ControlTypes /\ Control)'
      BY <2>0, <3>1, <3>2, TakeKeepsControl
    <3> QED
      BY <1>0, <3>3, <2>16 DEF ReadDigest, StoreTypes
  <2>17. CASE Inspect(r)
    <3>1. step[r] = 8
      BY <2>c, <2>17 DEF Inspect, At, ControlOf, Place
    <3>2. Goto(r, "mount") \/ Return(r) \/ Exit(r)
      BY <2>17 DEF Inspect
    <3>3. (ControlTypes /\ Control)'
      BY <2>0, <3>1, <3>2, GotoKeepsControl, ReturnKeepsControl, ExitKeepsControl
    <3> QED
      BY <1>0, <3>3, <2>17 DEF Inspect, StoreTypes
  <2>18. CASE CreateSecret(r)
    <3>1. step[r] = 8
      BY <2>c, <2>18 DEF CreateSecret, At, ControlOf, Place
    <3>2. Goto(r, "record") \/ Exit(r)
      BY <2>18 DEF CreateSecret
    <3>3. (ControlTypes /\ Control)'
      BY <2>0, <3>1, <3>2, GotoKeepsControl, ExitKeepsControl
    <3> QED
      BY <1>0, <3>3, <2>18 DEF CreateSecret, StoreTypes
  <2>19. CASE WriteRecord(r)
    <3>1. step[r] = 8
      BY <2>c, <2>19 DEF WriteRecord, At, ControlOf, Place
    <3>2. (ControlTypes /\ Control)'
      BY <2>19, <3>1, ReturnKeepsControl DEF WriteRecord
    <3>3. made[r] \in Key \cup {NONE, EMPTY}
      BY <1>0 DEF ControlTypes
    <3> QED
      BY <1>0, <3>2, <3>3, <2>19 DEF WriteRecord, StoreTypes
  <2> QED
    BY <1>4, <2>1, <2>2, <2>3, <2>4, <2>5, <2>6, <2>7, <2>8, <2>9, <2>10, <2>11, <2>12,
       <2>13, <2>14, <2>15, <2>16, <2>17, <2>18, <2>19 DEF Proceed
<1> QED
  BY <1>1, <1>2, <1>3, <1>4 DEF Next

\* Control and types are in order at the start.
LEMMA ControlInit == Init => ControlInv
<1> SUFFICES ASSUME Init PROVE ControlInv
  OBVIOUS
<1>1. StoreTypes
  BY FaultAssumption, KeyFacts DEF Init, StoreTypes
<1>2. ControlTypes /\ Control
  BY ScriptFacts DEF Init, ControlTypes, Control, ControlOf, Place, Given, Label
<1> QED
  BY <1>1, <1>2, TypesSplit DEF ControlInv

\* Every variable holds what a run or Fleet can store there, and every run stands
\* at a request of the step it is in.
LEMMA ControlAlways == Spec => []ControlInv
<1>1. ControlInv /\ [Next]_vars => ControlInv'
  BY ControlStep
<1> QED
  BY <1>1, ControlInit, PTL DEF Spec

\* Every variable keeps its type, with any number of runs, migrations and
\* interruptions: a run stores a key only when it has been given one.
THEOREM TypeCorrect == Spec => []TypeOK
<1>1. ControlInv => TypeOK
  BY DEF ControlInv
<1> QED
  BY <1>1, ControlAlways, PTL

-----------------------------------------------------------------------------
(* What a run has passed stays true, as long as no other run deletes it.   *)

NoHosted == \A p \in Policy : policy[p] # "hosted"

Passed(r) ==
  /\ step[r] > 1 => policy["server"] = "ordinary"
  /\ step[r] > 2 => policy["local"] = "ordinary"
  /\ step[r] > 3 => "system" \in package
  /\ step[r] > 4 => "journald" \in package
  /\ step[r] = 5 => Dataset \ todo[r] \subseteq templates
  /\ step[r] > 5 => templates = Dataset

Pending(r) ==
  /\ pc[r] = "migrate" => policy[Item(r)] = "hosted"
  /\ pc[r] \in {"open", "write"} => made[r] \in keys

Part(r) == Passed(r) /\ Pending(r)

\* Integrations, new keys and deploy's start of the Agent come after the local
\* policy is ordinary.
LocalFirst ==
  policy["local"] # "ordinary" =>
    /\ package = {}
    /\ token \in {NONE, OldKey} /\ secret \in {NONE, OldKey}
    /\ started["local"] # "deploy"

Stores == LocalFirst /\ TokenUsable /\ AgentNeedsBootstrap

BootInv == Stores /\ \A r \in Run : Part(r)

\* What every step does but the forced delete.
Grown ==
  /\ \A p \in Policy : policy[p] = "ordinary" => policy'[p] = "ordinary"
  /\ \A p \in Policy : policy[p] = "hosted" => policy'[p] = "hosted"
  /\ package \subseteq package' /\ templates \subseteq templates'
  /\ keys \cap Held \subseteq keys'

Others(r) ==
  \A q \in Run : q # r =>
    pc'[q] = pc[q] /\ step'[q] = step[q] /\ made'[q] = made[q] /\ todo'[q] = todo[q]

\* The first two steps are about the two policies.
LEMMA ItemIsPolicy ==
  ASSUME NEW r \in Run, step[r] \in {1, 2}
  PROVE  Item(r) \in Policy
BY ScriptFacts DEF Item, Policy

\* A run that is about to delete stands at one of them.
LEMMA MigrateIsPolicy ==
  ASSUME ControlInv, NEW r \in Run, pc[r] = "migrate"
  PROVE  step[r] \in {1, 2} /\ Item(r) \in Policy
<1>1. step[r] \in {1, 2}
  BY DEF ControlInv, Control, ControlOf, Place
<1> QED
  BY <1>1, ItemIsPolicy

\* What a run relies on stands when it rests and nothing is taken away.
LEMMA PartRests ==
  ASSUME ControlInv, ControlInv', NEW q \in Run, Grown, Part(q),
         pc'[q] = pc[q], step'[q] = step[q], made'[q] = made[q], todo'[q] = todo[q]
  PROVE  Part(q)'
<1>1. Passed(q) /\ Pending(q)
  BY DEF Part
<1>2. step[q] \in 1..10 /\ templates' \subseteq Dataset /\ templates \subseteq Dataset
  BY ScriptFacts DEF ControlInv, TypeOK
<1>3. Passed(q)'
  BY <1>1, <1>2 DEF Passed, Grown, Policy
<1>4. Pending(q)'
  <2>1. Item(q)' = Item(q)
    BY DEF Item
  <2>2. made[q] \in Held
    BY DEF Held
  <2> QED
    BY <1>1, <2>1, <2>2, MigrateIsPolicy DEF Pending, Grown
<1> QED
  BY <1>3, <1>4 DEF Part

\* A step that takes nothing away from Fleet keeps what the other runs have passed,
\* so only the run that moves has to be looked at.
LEMMA ActorSuffices ==
  ASSUME ControlInv, ControlInv', BootInv, NEW r \in Run, Grown, Others(r), Part(r)', Stores'
  PROVE  BootInv'
<1>1. ASSUME NEW q \in Run, q # r
      PROVE  Part(q)'
  <2>1. pc'[q] = pc[q] /\ step'[q] = step[q] /\ made'[q] = made[q] /\ todo'[q] = todo[q]
    BY <1>1 DEF Others
  <2>2. Part(q)
    BY DEF BootInv
  <2> QED
    BY <2>1, <2>2, PartRests
<1> QED
  BY <1>1 DEF BootInv

\* A run at its beginning has passed nothing and waits for nothing.
LEMMA LeaveFirst ==
  ASSUME ControlInv, NEW r \in Run, NEW label \in {"idle", "next"}, Leave(r, label, 1)
  PROVE  Others(r) /\ Part(r)'
<1>1. label \in Label
  BY DEF Label
<1>2. pc'[r] = label /\ step'[r] = 1 /\ Others(r)
  BY <1>1, LeaveMoves DEF Others
<1> QED
  BY <1>2 DEF Part, Passed, Pending

\* So has a run that ended.
LEMMA ExitFirst ==
  ASSUME ControlInv, NEW r \in Run, Exit(r)
  PROVE  Others(r) /\ Part(r)'
BY LeaveFirst DEF Exit

\* A run that returns from a step has done what the step is for.
LEMMA ReturnPasses ==
  ASSUME ControlInv, ControlInv', NEW r \in Run, Return(r), step[r] \in 1..9,
         Passed(r), Grown,
         step[r] = 1 => policy'["server"] = "ordinary",
         step[r] = 2 => policy'["local"] = "ordinary",
         step[r] = 3 => "system" \in package',
         step[r] = 4 => "journald" \in package',
         step[r] = 5 => templates' = Dataset
  PROVE  Others(r) /\ Part(r)'
<1>1. "next" \in Label /\ step[r] + 1 \in 1..10
  BY DEF Label
<1>2. pc'[r] = "next" /\ step'[r] = step[r] + 1 /\ todo'[r] = Dataset /\ Others(r)
  BY <1>1, LeaveMoves DEF Return, Others
<1>3. templates' \subseteq Dataset /\ templates \subseteq Dataset
  BY DEF ControlInv, TypeOK
<1>4. step'[r] > 5 => templates' = Dataset
  <2>1. step[r] > 5 => Dataset \subseteq templates'
    BY DEF Passed, Grown
  <2>2. step[r] > 5 => templates' = Dataset
    BY <1>3, <2>1
  <2> QED
    BY <1>2, <2>2
<1>5. step'[r] = 5 => Dataset \ todo'[r] \subseteq templates'
  BY <1>2
<1>6. /\ step'[r] > 1 => policy'["server"] = "ordinary"
      /\ step'[r] > 2 => policy'["local"] = "ordinary"
  BY <1>2 DEF Passed, Grown, Policy
<1>7. /\ step'[r] > 3 => "system" \in package'
      /\ step'[r] > 4 => "journald" \in package'
  BY <1>2 DEF Passed, Grown
<1>8. Passed(r)'
  BY <1>4, <1>5, <1>6, <1>7 DEF Passed
<1> QED
  BY <1>2, <1>8 DEF Part, Pending

\* A run that stays within its step has passed what it had passed.
LEMMA StayPasses ==
  ASSUME ControlInv, ControlInv', NEW r \in Run, Passed(r), Grown,
         step'[r] = step[r], todo'[r] = todo[r]
  PROVE  Passed(r)'
<1>1. step[r] \in 1..10 /\ templates' \subseteq Dataset /\ templates \subseteq Dataset
  BY ScriptFacts DEF ControlInv, TypeOK
<1> QED
  BY <1>1 DEF Passed, Grown, Policy

\* One that goes on within its step relies on what the next request needs.
LEMMA GotoPends ==
  ASSUME ControlInv, ControlInv', NEW r \in Run, NEW label \in Label, Goto(r, label),
         Passed(r), Grown,
         label = "migrate" => policy'[Item(r)] = "hosted",
         label \in {"open", "write"} => made[r] \in keys'
  PROVE  Others(r) /\ Part(r)'
<1>1. pc'[r] = label /\ step' = step /\ made' = made /\ todo' = todo /\ Others(r)
  BY GotoMoves DEF Others
<1>2. Passed(r)'
  BY <1>1, StayPasses
<1>3. Pending(r)'
  BY <1>1 DEF Pending, Item
<1> QED
  BY <1>1, <1>2, <1>3 DEF Part

\* So does one that takes a value.
LEMMA TakePends ==
  ASSUME ControlInv, ControlInv', NEW r \in Run, NEW label \in Label \ {"migrate"},
         NEW value \in Key \cup {NONE, EMPTY}, Take(r, label, value), Passed(r), Grown,
         label \in {"open", "write"} => value \in keys'
  PROVE  Others(r) /\ Part(r)'
<1>1. /\ pc'[r] = label /\ step' = step /\ made'[r] = value /\ todo' = todo /\ Others(r)
  BY TakeMoves DEF Others
<1>2. Passed(r)'
  BY <1>1, StayPasses
<1> QED
  BY <1>1, <1>2 DEF Part, Pending

\* Requests that only look, and the ends of a run.
LEMMA LooksKeepStores ==
  ASSUME UNCHANGED <<policy, package, templates, keys, token, secret, started>>
  PROVE  Grown /\ (Stores => Stores')
BY DEF Grown, Stores, LocalFirst, TokenUsable, AgentNeedsBootstrap

\* Behind the fifth step the bootstrap is complete.
LEMMA PassedComplete ==
  ASSUME ControlInv, NEW r \in Run, Passed(r), step[r] > 5
  PROVE  /\ \A p \in Policy : policy[p] = "ordinary"
         /\ package = Package /\ templates = Dataset
<1>1. step[r] > 1 /\ step[r] > 2 /\ step[r] > 3 /\ step[r] > 4
  BY ScriptFacts DEF ControlInv, TypeOK
<1>2. package \subseteq Package
  BY DEF ControlInv, TypeOK
<1>3. "system" \in package /\ "journald" \in package
  BY <1>1 DEF Passed
<1>4. package = Package
  BY <1>2, <1>3 DEF Package
<1> QED
  BY <1>1, <1>4 DEF Passed, Policy

-----------------------------------------------------------------------------
\* Deploys one at a time, or any number of them where nothing is hosted, never take
\* apart what an earlier step of any run has made.
LEMMA BootStep ==
  ASSUME ControlInv, ControlInv', BootInv, OneRun \/ NoHosted, [Next]_vars
  PROVE  BootInv'
<1> USE DEF host, fleet
<1>0. /\ policy \in [Policy -> {"absent", "hosted", "ordinary"}]
      /\ package \subseteq Package /\ templates \subseteq Dataset /\ keys \subseteq Key
      /\ templates' \subseteq Dataset
      /\ token \in Key \cup {NONE} /\ secret \in Key \cup {NONE}
      /\ started \in [Policy -> {"no", "systemd", "deploy"}]
  BY DEF ControlInv, TypeOK
<1>s. Stores
  BY DEF BootInv
<1>1. ASSUME UNCHANGED control, Grown, Stores'
      PROVE  BootInv'
  <2>1. ASSUME NEW q \in Run PROVE Part(q)'
    BY <1>1, PartRests DEF control, BootInv
  <2> QED
    BY <1>1, <2>1 DEF BootInv
<1>2. CASE UNCHANGED vars \/ \E p \in Policy : Enrolls(p)
  <2>1. UNCHANGED <<policy, package, templates, keys, token, secret, started, control>>
    BY <1>2 DEF vars, Enrolls, control
  <2> QED
    BY <1>1, <1>s, <2>1, LooksKeepStores
<1>3. CASE SystemdStartsAgent
  <2>1. UNCHANGED <<policy, package, templates, keys, token, secret, control>>
    BY <1>3 DEF SystemdStartsAgent
  <2>2. started'["local"] = "systemd" /\ started["local"] = "no"
    BY <1>0, <1>3 DEF SystemdStartsAgent, Policy
  <2>3. Stores'
    BY <1>s, <2>1, <2>2 DEF Stores, LocalFirst, TokenUsable, AgentNeedsBootstrap
  <2>4. Grown
    BY <2>1 DEF Grown
  <2> QED
    BY <1>1, <2>1, <2>3, <2>4
<1>4. ASSUME NEW r \in Run, Start(r) \/ Proceed(r) \/ Interrupt(r)
      PROVE  BootInv'
  <2>0. Passed(r) /\ Pending(r)
    BY DEF BootInv, Part
  <2>l. {"migrate", "create", "add", "serving", "post", "open", "write", "inspect", "mount",
         "record", "online"} \subseteq Label
    BY DEF Label
  <2>c. Place(pc[r], step[r])
    BY DEF ControlInv, Control, ControlOf
  <2>x. ASSUME Exit(r), UNCHANGED <<fleet, host>>
        PROVE  BootInv'
    BY <1>s, <2>x, ExitFirst, LooksKeepStores, ActorSuffices
  <2>1. CASE Start(r) \/ Finish(r) \/ Interrupt(r)
    <3>1. UNCHANGED <<fleet, host>> /\ (Leave(r, "next", 1) \/ Exit(r))
      BY <2>1 DEF Start, Finish, Interrupt
    <3>2. Others(r) /\ Part(r)'
      BY <3>1, LeaveFirst, ExitFirst
    <3> QED
      BY <1>s, <3>1, <3>2, LooksKeepStores, ActorSuffices
  <2>2. CASE GetPolicy(r)
    <3>1. step[r] \in {1, 2} /\ UNCHANGED <<fleet, host>>
      BY <2>2, ItemFacts DEF GetPolicy
    <3>2. Grown /\ Stores'
      BY <1>s, <3>1, LooksKeepStores
    <3>3. Item(r) \in Policy
      BY <3>1, ItemIsPolicy
    <3>4. CASE policy[Item(r)] = "ordinary"
      <4>1. Return(r)
        BY <2>2, <3>4 DEF GetPolicy
      <4>2. Others(r) /\ Part(r)'
        BY <2>0, <3>1, <3>2, <3>4, <4>1, ReturnPasses, ItemFacts
      <4> QED
        BY <3>2, <4>2, ActorSuffices
    <3>5. CASE policy[Item(r)] # "ordinary"
      <4>1. \/ Goto(r, "create")
            \/ Goto(r, "migrate") /\ policy[Item(r)] = "hosted"
            \/ Exit(r)
        BY <1>0, <2>2, <3>3, <3>5 DEF GetPolicy
      <4>2. Others(r) /\ Part(r)'
        BY <2>0, <2>l, <3>1, <3>2, <4>1, GotoPends, ExitFirst
      <4> QED
        BY <3>2, <4>2, ActorSuffices
    <3> QED
      BY <3>4, <3>5
  <2>3. CASE DeletePolicy(r)
    <3>1. pc[r] = "migrate" /\ step[r] \in {1, 2} /\ Item(r) \in Policy
      BY <2>3, MigrateIsPolicy DEF DeletePolicy, At
    <3>2. policy[Item(r)] = "hosted"
      BY <2>0, <3>1 DEF Pending
    <3>3. CASE Exit(r) /\ UNCHANGED fleet
      BY <2>3, <2>x, <3>3 DEF DeletePolicy
    <3>4. CASE /\ policy' = [policy EXCEPT ![Item(r)] = "absent"]
               /\ package' = IF Item(r) = "local" THEN {} ELSE package
               /\ keys' = IF Item(r) = "local" THEN {} ELSE keys
               /\ Goto(r, "create")
               /\ UNCHANGED templates
      <4>1. OneRun
        BY <3>1, <3>2 DEF NoHosted
      <4>2. UNCHANGED host
        BY <2>3 DEF DeletePolicy
      <4>3. /\ policy'[Item(r)] = "absent"
            /\ \A p \in Policy : p # Item(r) => policy'[p] = policy[p]
        BY <1>0, <3>1, <3>4
      <4>4. started["local"] # "deploy" /\ secret \in {NONE, OldKey}
        BY <1>s, <3>1, <3>2 DEF Stores, AgentNeedsBootstrap
      <4>5. Stores'
        <5>1. AgentNeedsBootstrap'
          BY <4>2, <4>4 DEF AgentNeedsBootstrap
        <5>2. CASE Item(r) = "local"
          <6>1. LocalFirst
            BY <1>s DEF Stores
          <6>2. token \in {NONE, OldKey}
            BY <3>2, <5>2, <6>1 DEF LocalFirst
          <6> QED
            BY <3>4, <4>2, <4>4, <5>1, <5>2, <6>2 DEF Stores, LocalFirst, TokenUsable
        <5>3. CASE Item(r) # "local"
          <6>1. policy'["local"] = policy["local"]
            BY <4>3, <5>3 DEF Policy
          <6> QED
            BY <1>s, <3>4, <4>2, <5>1, <5>3, <6>1 DEF Stores, LocalFirst, TokenUsable
        <5> QED
          BY <5>2, <5>3
      <4>6. Part(r)'
        <5>1. pc'[r] = "create" /\ step'[r] = step[r]
          BY <2>l, <3>4, GotoMoves
        <5>2. step[r] = 2 => policy'["server"] = "ordinary"
          BY <2>0, <4>3, ItemFacts DEF Passed, Policy
        <5> QED
          BY <3>1, <5>1, <5>2 DEF Part, Passed, Pending
      <4> QED
        BY <4>1, <4>5, <4>6 DEF OneRun, BootInv
    <3> QED
      BY <2>3, <3>2, <3>3, <3>4 DEF DeletePolicy
  <2>4. CASE CreatePolicy(r)
    <3>1. step[r] \in {1, 2} /\ Item(r) \in Policy
      BY <2>4, <2>c, ItemIsPolicy DEF CreatePolicy, At, Place
    <3>2. CASE Exit(r) /\ UNCHANGED policy
      BY <2>4, <2>x, <3>2 DEF CreatePolicy
    <3>3. CASE /\ policy[Item(r)] = "absent"
               /\ policy' = [policy EXCEPT ![Item(r)] = "ordinary"]
               /\ Return(r)
      <4>1. UNCHANGED <<package, templates, keys, token, secret, started>>
        BY <2>4 DEF CreatePolicy
      <4>2. /\ policy'[Item(r)] = "ordinary"
            /\ \A p \in Policy : p # Item(r) => policy'[p] = policy[p]
        BY <1>0, <3>1, <3>3
      <4>3. Grown
        BY <3>3, <4>1, <4>2 DEF Grown
      <4>4. Stores'
        <5>1. LocalFirst'
          BY <1>s, <4>1, <4>2 DEF Stores, LocalFirst, Policy
        <5> QED
          BY <1>s, <4>1, <4>2, <5>1 DEF Stores, AgentNeedsBootstrap, TokenUsable
      <4>5. Others(r) /\ Part(r)'
        BY <2>0, <3>1, <3>3, <4>2, <4>3, ReturnPasses, ItemFacts
      <4> QED
        BY <4>3, <4>4, <4>5, ActorSuffices
    <3> QED
      BY <2>4, <3>2, <3>3 DEF CreatePolicy
  <2>5. CASE GetPackage(r)
    <3>1. step[r] \in {3, 4} /\ UNCHANGED <<fleet, host>>
      BY <2>5, ItemFacts DEF GetPackage
    <3>2. Grown /\ Stores'
      BY <1>s, <3>1, LooksKeepStores
    <3>3. CASE Return(r) /\ Item(r) \in package
      <4>1. Others(r) /\ Part(r)'
        BY <2>0, <3>1, <3>2, <3>3, ReturnPasses, ItemFacts
      <4> QED
        BY <3>2, <4>1, ActorSuffices
    <3>4. CASE Goto(r, "add")
      <4>1. Others(r) /\ Part(r)'
        BY <2>0, <2>l, <3>2, <3>4, GotoPends
      <4> QED
        BY <3>2, <4>1, ActorSuffices
    <3> QED
      BY <2>5, <3>3, <3>4 DEF GetPackage
  <2>6. CASE PostPackage(r)
    <3>1. step[r] \in {3, 4}
      BY <2>6, <2>c DEF PostPackage, At, Place
    <3>2. CASE Exit(r) /\ UNCHANGED package
      BY <2>6, <2>x, <3>2 DEF PostPackage
    <3>3. CASE /\ policy["local"] = "ordinary"
               /\ package' = package \cup {Item(r)} /\ Return(r)
      <4>1. UNCHANGED <<policy, templates, keys, token, secret, started>>
        BY <2>6 DEF PostPackage
      <4>2. Grown
        BY <3>3, <4>1 DEF Grown
      <4>3. package' \subseteq Package
        BY DEF ControlInv, TypeOK
      <4>4. Stores'
        BY <1>s, <3>3, <4>1, <4>3 DEF Stores, LocalFirst, AgentNeedsBootstrap, TokenUsable
      <4>5. Others(r) /\ Part(r)'
        BY <2>0, <3>1, <3>3, <4>2, ReturnPasses, ItemFacts
      <4> QED
        BY <4>2, <4>4, <4>5, ActorSuffices
    <3> QED
      BY <2>6, <3>2, <3>3 DEF PostPackage, PackageRefused
  <2>7. CASE PutTemplate(r)
    <3>1. step[r] = 5
      BY <2>7, ItemFacts DEF PutTemplate
    <3>2. PICK d \in todo[r] :
            /\ templates' = templates \cup {d}
            /\ IF todo[r] = {d} THEN Return(r)
               ELSE todo' = [todo EXCEPT ![r] = @ \ {d}] /\ UNCHANGED <<pc, step, made>>
      BY <2>7 DEF PutTemplate
    <3>3. UNCHANGED <<policy, package, keys, token, secret, started>>
      BY <2>7 DEF PutTemplate
    <3>4. Dataset \ todo[r] \subseteq templates
      BY <2>0, <3>1 DEF Passed
    <3>5. Grown
      BY <3>2, <3>3 DEF Grown
    <3>6. Stores'
      BY <1>0, <1>s, <3>2, <3>3 DEF Stores, LocalFirst, AgentNeedsBootstrap, TokenUsable
    <3>7. CASE todo[r] = {d}
      <4>1. templates' = Dataset
        BY <1>0, <3>2, <3>4, <3>7
      <4>2. Others(r) /\ Part(r)'
        BY <2>0, <3>1, <3>2, <3>5, <3>7, <4>1, ReturnPasses
      <4> QED
        BY <3>5, <3>6, <4>2, ActorSuffices
    <3>8. CASE todo[r] # {d}
      <4>1. todo' = [todo EXCEPT ![r] = @ \ {d}] /\ UNCHANGED <<pc, step, made>>
        BY <3>2, <3>8
      <4>2. todo'[r] = todo[r] \ {d} /\ Others(r)
        BY <4>1 DEF ControlInv, TypeOK, Others
      <4>3. pc[r] = "next"
        BY <2>7 DEF PutTemplate, At
      <4>4. Part(r)'
        BY <2>0, <3>1, <3>2, <3>3, <3>4, <4>1, <4>2, <4>3 DEF Part, Passed, Pending
      <4> QED
        BY <3>5, <3>6, <4>2, <4>4, ActorSuffices
    <3> QED
      BY <3>7, <3>8
  <2>8. CASE RestartServer(r)
    <3>1. step[r] = 6 /\ Goto(r, "serving")
      BY <2>8, ItemFacts DEF RestartServer
    <3>2. UNCHANGED <<policy, package, templates, keys, token, secret>>
      BY <2>8 DEF RestartServer
    <3>3. started'["local"] = started["local"]
      BY <1>0, <2>8 DEF RestartServer, Policy
    <3>4. Grown /\ Stores'
      BY <1>s, <3>2, <3>3 DEF Grown, Stores, LocalFirst, TokenUsable, AgentNeedsBootstrap
    <3>5. Others(r) /\ Part(r)'
      BY <2>0, <2>l, <3>1, <3>4, GotoPends
    <3> QED
      BY <3>4, <3>5, ActorSuffices
  <2>9. CASE WaitServing(r) \/ WaitOnline(r)
    <3>1. step[r] \in {6, 9} /\ UNCHANGED <<fleet, host>> /\ (Return(r) \/ Exit(r))
      BY <2>9, <2>c DEF WaitServing, WaitOnline, At, Place
    <3>2. Grown /\ Stores'
      BY <1>s, <3>1, LooksKeepStores
    <3>3. Others(r) /\ Part(r)'
      BY <2>0, <3>1, <3>2, ReturnPasses, ExitFirst
    <3> QED
      BY <3>2, <3>3, ActorSuffices
  <2>10. CASE ReadToken(r)
    <3>1. step[r] = 7 /\ UNCHANGED <<fleet, host>> /\ (Return(r) \/ Goto(r, "post"))
      BY <2>10, ItemFacts DEF ReadToken
    <3>2. Grown /\ Stores'
      BY <1>s, <3>1, LooksKeepStores
    <3>3. Others(r) /\ Part(r)'
      BY <2>0, <2>l, <3>1, <3>2, ReturnPasses, GotoPends
    <3> QED
      BY <3>2, <3>3, ActorSuffices
  <2>11. CASE PostKey(r)
    <3>1. step[r] = 7
      BY <2>11, <2>c DEF PostKey, At, Place
    <3>2. CASE Exit(r) /\ UNCHANGED keys
      BY <2>11, <2>x, <3>2 DEF PostKey
    <3>3. ASSUME NEW k \in NewKey, keys' = (keys \cap Held) \cup {k}, Take(r, "open", k)
          PROVE  BootInv'
      <4>1. UNCHANGED <<policy, package, templates, token, secret, started>>
        BY <2>11 DEF PostKey
      <4>2. Grown
        BY <3>3, <4>1 DEF Grown
      <4>3. token \in Held /\ secret \in Held
        BY DEF Held
      <4>4. Stores'
        BY <1>s, <3>3, <4>1, <4>3 DEF Stores, LocalFirst, AgentNeedsBootstrap, TokenUsable
      <4>5. k \in Key /\ k \in keys'
        BY <3>3, KeyFacts
      <4>6. Others(r) /\ Part(r)'
        BY <2>0, <2>l, <3>3, <4>2, <4>5, TakePends
      <4> QED
        BY <4>2, <4>4, <4>6, ActorSuffices
    <3> QED
      BY <2>11, <3>2, <3>3 DEF PostKey, Take
  <2>12. CASE OpenToken(r)
    <3>1. pc[r] = "open" /\ made[r] \in keys
      BY <2>0, <2>12 DEF OpenToken, At, Pending
    <3>2. UNCHANGED <<policy, package, templates, keys, secret, started>> /\ token' = NONE
      BY <2>12 DEF OpenToken
    <3>3. Grown /\ Stores'
      BY <1>s, <3>2 DEF Grown, Stores, LocalFirst, TokenUsable, AgentNeedsBootstrap
    <3>4. Others(r) /\ Part(r)'
      BY <2>0, <2>l, <2>12, <3>1, <3>2, <3>3, GotoPends DEF OpenToken
    <3> QED
      BY <3>3, <3>4, ActorSuffices
  <2>13. CASE WriteToken(r)
    <3>1. step[r] = 7 /\ made[r] \in keys
      BY <2>0, <2>c, <2>13 DEF WriteToken, At, Pending, Place
    <3>2. UNCHANGED <<policy, package, templates, keys, secret, started>> /\ token' = made[r]
      BY <2>13 DEF WriteToken
    <3>3. policy["local"] = "ordinary"
      BY <2>0, <3>1 DEF Passed
    <3>4. Grown /\ Stores'
      BY <1>s, <3>1, <3>2, <3>3 DEF Grown, Stores, LocalFirst, TokenUsable, AgentNeedsBootstrap
    <3>5. Others(r) /\ Part(r)'
      BY <2>0, <2>13, <3>1, <3>4, ReturnPasses DEF WriteToken
    <3> QED
      BY <3>4, <3>5, ActorSuffices
  <2>14. CASE ReadDigest(r)
    <3>1. UNCHANGED <<fleet, host>>
      BY <2>14 DEF ReadDigest
    <3>2. PICK value \in Key \cup {NONE, EMPTY} : Take(r, "inspect", value)
      BY <1>0, <2>14 DEF ReadDigest, Take
    <3>3. Grown /\ Stores'
      BY <1>s, <3>1, LooksKeepStores
    <3>4. Others(r) /\ Part(r)'
      BY <2>0, <2>l, <3>2, <3>3, TakePends
    <3> QED
      BY <3>3, <3>4, ActorSuffices
  <2>15. CASE Inspect(r)
    <3>1. /\ step[r] = 8 /\ UNCHANGED <<fleet, host>>
          /\ Goto(r, "mount") \/ Return(r) \/ Exit(r)
      BY <2>15, <2>c DEF Inspect, At, Place
    <3>2. Grown /\ Stores'
      BY <1>s, <3>1, LooksKeepStores
    <3>3. Others(r) /\ Part(r)'
      BY <2>0, <2>l, <3>1, <3>2, ReturnPasses, ExitFirst, GotoPends
    <3> QED
      BY <3>2, <3>3, ActorSuffices
  <2>16. CASE CreateSecret(r)
    <3>1. step[r] = 8
      BY <2>16, <2>c DEF CreateSecret, At, Place
    <3>2. CASE Exit(r) /\ UNCHANGED secret
      BY <2>16, <2>x, <3>2 DEF CreateSecret
    <3>3. CASE token # NONE /\ secret' = token /\ Goto(r, "record")
      <4>1. UNCHANGED <<policy, package, templates, keys, token, started>>
        BY <2>16 DEF CreateSecret
      <4>2. /\ \A p \in Policy : policy[p] = "ordinary"
            /\ package = Package /\ templates = Dataset
        BY <2>0, <3>1, PassedComplete
      <4>3. Grown /\ Stores'
        BY <1>s, <3>3, <4>1, <4>2
           DEF Grown, Stores, LocalFirst, TokenUsable, AgentNeedsBootstrap, Policy
      <4>4. Others(r) /\ Part(r)'
        BY <2>0, <2>l, <3>3, <4>3, GotoPends
      <4> QED
        BY <4>3, <4>4, ActorSuffices
    <3> QED
      BY <2>16, <3>2, <3>3 DEF CreateSecret
  <2>17. CASE WriteRecord(r)
    <3>1. step[r] = 8
      BY <2>17, <2>c DEF WriteRecord, At, Place
    <3>2. UNCHANGED <<policy, package, templates, keys, token, secret, started>> /\ Return(r)
      BY <2>17 DEF WriteRecord
    <3>3. Grown /\ Stores'
      BY <1>s, <3>2, LooksKeepStores
    <3>4. Others(r) /\ Part(r)'
      BY <2>0, <3>1, <3>2, <3>3, ReturnPasses
    <3> QED
      BY <3>3, <3>4, ActorSuffices
  <2>18. CASE RestartAgent(r)
    <3>1. step[r] = 9 /\ Goto(r, "online")
      BY <2>18, ItemFacts DEF RestartAgent
    <3>2. UNCHANGED <<policy, package, templates, keys, token, secret>>
      BY <2>18 DEF RestartAgent
    <3>3. /\ \A p \in Policy : policy[p] = "ordinary"
          /\ package = Package /\ templates = Dataset
      BY <2>0, <3>1, PassedComplete
    <3>4. Grown /\ Stores'
      BY <1>s, <3>2, <3>3
         DEF Grown, Stores, LocalFirst, TokenUsable, AgentNeedsBootstrap, Policy
    <3>5. Others(r) /\ Part(r)'
      BY <2>0, <2>l, <3>1, <3>4, GotoPends
    <3> QED
      BY <3>4, <3>5, ActorSuffices
  <2> QED
    BY <1>4, <2>1, <2>2, <2>3, <2>4, <2>5, <2>6, <2>7, <2>8, <2>9, <2>10, <2>11, <2>12,
       <2>13, <2>14, <2>15, <2>16, <2>17, <2>18 DEF Proceed
<1> QED
  BY <1>2, <1>3, <1>4 DEF Next

-----------------------------------------------------------------------------
(* Deploys one at a time, or on a Fleet where nothing is hosted.           *)

Calm == OneRun \/ NoHosted

\* Nothing new has been made at the start.
LEMMA BootInit == Init => BootInv
<1> SUFFICES ASSUME Init PROVE BootInv
  OBVIOUS
<1>1. Stores
  BY KeyFacts DEF Init, Stores, LocalFirst, TokenUsable, AgentNeedsBootstrap, Policy
<1>2. ASSUME NEW r \in Run PROVE Part(r)
  <2>1. step[r] = 1 /\ pc[r] = "idle"
    BY DEF Init
  <2> QED
    BY <2>1 DEF Part, Passed, Pending
<1> QED
  BY <1>1, <1>2 DEF BootInv

\* What a step can do to a policy: the forced delete of a hosted one, or the POST.
LEMMA OnlyMigrationDeletes ==
  ASSUME ControlInv, \A r \in Run : Pending(r), [Next]_vars, NEW p \in Policy
  PROVE  \/ policy'[p] = policy[p]
         \/ policy[p] = "hosted" /\ policy'[p] = "absent"
         \/ policy[p] = "absent" /\ policy'[p] = "ordinary"
<1>0. policy \in [Policy -> {"absent", "hosted", "ordinary"}]
  BY DEF ControlInv, TypeOK
<1>1. CASE UNCHANGED policy
  BY <1>1
<1>2. ASSUME NEW r \in Run, DeletePolicy(r)
      PROVE  policy'[p] = policy[p] \/ (policy[p] = "hosted" /\ policy'[p] = "absent")
  <2>1. policy[Item(r)] = "hosted"
    BY <1>2 DEF DeletePolicy, At, Pending
  <2>2. UNCHANGED policy \/ policy' = [policy EXCEPT ![Item(r)] = "absent"]
    BY <1>2 DEF DeletePolicy, fleet
  <2> QED
    BY <1>0, <2>1, <2>2
<1>3. ASSUME NEW r \in Run, CreatePolicy(r)
      PROVE  policy'[p] = policy[p] \/ (policy[p] = "absent" /\ policy'[p] = "ordinary")
  BY <1>0, <1>3 DEF CreatePolicy
<1>4. CASE UNCHANGED vars \/ SystemdStartsAgent \/ \E q \in Policy : Enrolls(q)
  BY <1>1, <1>4 DEF vars, SystemdStartsAgent, Enrolls, fleet
<1>5. ASSUME NEW r \in Run, Start(r) \/ Proceed(r) \/ Interrupt(r),
             ~DeletePolicy(r), ~CreatePolicy(r)
      PROVE  UNCHANGED policy
  BY <1>5 DEF Proceed, Start, Finish, Interrupt, GetPolicy, GetPackage, PostPackage, PutTemplate,
              RestartServer, WaitServing, ReadToken, PostKey, OpenToken, WriteToken, ReadDigest,
              Inspect, CreateSecret, WriteRecord, RestartAgent, WaitOnline, fleet
<1> QED
  BY <1>1, <1>2, <1>3, <1>4, <1>5 DEF Next, Proceed

\* No step makes a policy hosted.
LEMMA NoHostedStep ==
  ASSUME ControlInv, BootInv, NoHosted, [Next]_vars
  PROVE  NoHosted'
<1>1. \A r \in Run : Pending(r)
  BY DEF BootInv, Part
<1> QED
  BY <1>1, OnlyMigrationDeletes DEF NoHosted

\* What the runs have passed is there in every reachable state.
LEMMA CalmAlways == Spec /\ Calm => [](ControlInv /\ BootInv /\ Calm)
<1>1. ControlInv /\ BootInv /\ Calm /\ [Next]_vars => (ControlInv /\ BootInv /\ Calm)'
  BY ControlStep, BootStep, NoHostedStep DEF Calm
<1> QED
  BY <1>1, ControlInit, BootInit, PTL DEF Spec

\* The token file and the Podman secret never hold a key that Fleet has revoked, but
\* for the one an earlier controller left: the only step that revokes keys, the forced
\* delete of the hosted local policy, comes before any key that deploy asks for.
THEOREM TokenIsUsable == Spec /\ Calm => []TokenUsable
<1>1. BootInv => TokenUsable
  BY DEF BootInv, Stores
<1> QED
  BY <1>1, CalmAlways, PTL

\* The Agent is started on a complete bootstrap only, by deploy or from the secret that
\* deploy has made, and no later run and no interruption takes it apart again.
THEOREM BootstrapBeforeAgent == Spec /\ Calm => []AgentNeedsBootstrap
<1>1. BootInv => AgentNeedsBootstrap
  BY DEF BootInv, Stores
<1> QED
  BY <1>1, CalmAlways, PTL

\* No run ever deletes a policy that the controller made.
THEOREM OrdinaryPoliciesStay == Spec /\ Calm => OrdinaryKept
<1>1. ControlInv /\ BootInv /\ Calm /\ [Next]_vars
        => [\A p \in Policy : policy[p] = "ordinary" => policy'[p] = "ordinary"]_vars
  <2> SUFFICES ASSUME ControlInv, BootInv, [Next]_vars, NEW p \in Policy,
                      policy[p] = "ordinary"
               PROVE  policy'[p] = "ordinary"
    OBVIOUS
  <2>1. \A r \in Run : Pending(r)
    BY DEF BootInv, Part
  <2> QED
    BY <2>1, OnlyMigrationDeletes
<1> QED
  BY <1>1, CalmAlways, PTL DEF Spec, OrdinaryKept

-----------------------------------------------------------------------------
(* Any number of runs where nothing is hosted.                             *)

\* The key of an earlier controller is nowhere.
NoOld == OldKey \notin {token, secret} /\ \A r \in Run : made[r] # OldKey

\* Nobody makes it again.
LEMMA NoOldStep ==
  ASSUME ControlInv, NoOld, [Next]_vars
  PROVE  NoOld'
<1> USE DEF fleet, host
<1>0. /\ OldKey \notin {token, secret} /\ \A q \in Run : made[q] # OldKey
      /\ made \in [Run -> Key \cup {NONE, EMPTY}]
      /\ NONE # OldKey /\ EMPTY # OldKey /\ OldKey \notin NewKey
  BY KeyFacts DEF NoOld, ControlInv, TypeOK
<1>1. ASSUME NEW r \in Run, Start(r) \/ Proceed(r) \/ Interrupt(r)
      PROVE  /\ token' \in {token, NONE, made[r]} /\ secret' \in {secret, token}
             /\ \/ UNCHANGED made
                \/ \E value \in NewKey \cup {NONE, EMPTY, token} :
                     made' = [made EXCEPT ![r] = value]
  <2>1. CASE PostKey(r) \/ OpenToken(r) \/ WriteToken(r) \/ ReadDigest(r) \/ CreateSecret(r)
             \/ Inspect(r) \/ WriteRecord(r)
    BY <2>1 DEF PostKey, OpenToken, WriteToken, ReadDigest, CreateSecret, Inspect, WriteRecord,
                Goto, Return, Exit, Leave
  <2>2. CASE Start(r) \/ Finish(r) \/ Interrupt(r) \/ GetPackage(r) \/ PostPackage(r)
             \/ PutTemplate(r) \/ RestartServer(r) \/ WaitServing(r) \/ ReadToken(r)
             \/ RestartAgent(r) \/ WaitOnline(r)
    BY <2>2 DEF Start, Finish, Interrupt, GetPackage, PostPackage, PutTemplate, RestartServer,
                WaitServing, ReadToken, RestartAgent, WaitOnline, Goto, Return, Exit, Leave
  <2>3. CASE DeletePolicy(r) \/ CreatePolicy(r)
    BY <2>3 DEF DeletePolicy, CreatePolicy, Goto, Return, Exit, Leave
  <2>4. CASE GetPolicy(r)
    <3>1. Item(r) \in Policy
      BY <2>4 DEF GetPolicy, Doing
    <3>2. policy[Item(r)] \in {"absent", "hosted", "ordinary"}
      BY <3>1 DEF ControlInv, TypeOK
    <3> QED
      BY <2>4, <3>2 DEF GetPolicy, Goto, Return, Exit, Leave
  <2> QED
    BY <1>1, <2>1, <2>2, <2>3, <2>4 DEF Proceed
<1>2. CASE \E r \in Run : Start(r) \/ Proceed(r) \/ Interrupt(r)
  BY <1>0, <1>1, <1>2 DEF NoOld
<1>3. CASE UNCHANGED vars \/ SystemdStartsAgent \/ \E p \in Policy : Enrolls(p)
  BY <1>0, <1>3 DEF vars, SystemdStartsAgent, Enrolls, control, NoOld
<1> QED
  BY <1>2, <1>3 DEF Next

\* Where no policy is hosted any number of deploys may run at once without revoking a
\* key that is in the file or the Podman secret, or starting the Agent too early.
THEOREM NoMigrationRevokesNothing == Spec => NoMigrationNoRevocation
<1>1. Init /\ (\A p \in Policy : policy[p] # "hosted") => NoOld /\ Calm
  BY KeyFacts DEF Init, NoOld, Calm, NoHosted, Policy
<1>2. ControlInv /\ NoOld /\ [Next]_vars => NoOld'
  BY NoOldStep
<1>3. BootInv /\ NoOld => {token, secret} \subseteq keys \cup {NONE} /\ AgentNeedsBootstrap
  BY DEF BootInv, Stores, TokenUsable, NoOld
<1> QED
  BY <1>1, <1>2, <1>3, ControlAlways, CalmAlways, PTL DEF Spec, NoMigrationNoRevocation

-----------------------------------------------------------------------------
(* What deploy has left when it returns, one run at a time.                *)

Arrived(r) ==
  /\ step[r] = 7 /\ pc[r] \in {"post", "open", "write"} => token = NONE
  /\ step[r] > 7 => token # NONE
  /\ pc[r] \in {"inspect", "mount", "record"} => made[r] = token
  /\ pc[r] = "record" => secret = token
  /\ step[r] > 8 => secret = token /\ record = token
  /\ pc[r] = "online" \/ step[r] > 9 => started["local"] = "deploy"
  /\ step[r] > 9 => enrolled["local"] # "none"

OnlineInv == (secret # NONE => secret = token) /\ \A r \in Run : Arrived(r)

\* The steps that neither write nor read a credential.
LEMMA ArrivedRests ==
  ASSUME ControlInv, OnlineInv, UNCHANGED <<token, secret, record, control>>,
         started' = started \/ started'["local"] = "deploy" \/ started["local"] # "deploy",
         enrolled["local"] # "none" => enrolled'["local"] # "none"
  PROVE  OnlineInv'
BY DEF OnlineInv, Arrived, control

\* A run that ends, or begins.
LEMMA LeaveArrives ==
  ASSUME ControlInv, OneRun, OnlineInv, NEW r \in Run, NEW label \in {"idle", "next"},
         Leave(r, label, 1), UNCHANGED <<token, secret>>
  PROVE  OnlineInv'
<1>1. label \in Label
  BY DEF Label
<1>2. pc'[r] = label /\ step'[r] = 1
  BY <1>1, LeaveMoves
<1> QED
  BY <1>2 DEF OneRun, OnlineInv, Arrived

\* With one run at a time nothing else writes what a run has passed.
LEMMA OnlineStep ==
  ASSUME ControlInv, OneRun, OnlineInv, [Next]_vars
  PROVE  OnlineInv'
<1> USE DEF host, fleet
<1>0. /\ enrolled \in [Policy -> {"none", "counted", "orphaned"}]
      /\ started \in [Policy -> {"no", "systemd", "deploy"}]
      /\ policy \in [Policy -> {"absent", "hosted", "ordinary"}]
      /\ NONE \notin Key /\ EMPTY \notin Key /\ token \in Key \cup {NONE}
      /\ secret \in Key \cup {NONE}
  BY KeyFacts DEF ControlInv, TypeOK
<1>1. CASE UNCHANGED vars
  <2>1. UNCHANGED <<token, secret, record, control, started, enrolled>>
    BY <1>1 DEF vars, control
  <2> QED
    BY <2>1, ArrivedRests
<1>2. CASE SystemdStartsAgent
  BY <1>2, ArrivedRests DEF SystemdStartsAgent
<1>3. ASSUME NEW p \in Policy, Enrolls(p) PROVE OnlineInv'
  <2>1. enrolled["local"] # "none" => enrolled'["local"] # "none"
    BY <1>0, <1>3 DEF Enrolls, Policy
  <2>2. UNCHANGED <<token, secret, record, control, started>>
    BY <1>3 DEF Enrolls
  <2> QED
    BY <2>1, <2>2, ArrivedRests
<1>4. ASSUME NEW r \in Run, Start(r) \/ Proceed(r) \/ Interrupt(r)
      PROVE  OnlineInv'
  <2>0. /\ Arrived(r) /\ step[r] \in 1..10 /\ Place(pc[r], step[r])
        /\ secret # NONE => secret = token
    BY ScriptFacts DEF OnlineInv, ControlInv, TypeOK, Control, ControlOf
  <2>l. {"idle", "next", "migrate", "create", "add", "serving", "post", "open", "write",
         "inspect", "mount", "record", "online"} \subseteq Label
    BY DEF Label
  <2>s. ASSUME Arrived(r)', (secret # NONE => secret = token)'
        PROVE  OnlineInv'
    BY <2>s DEF OneRun, OnlineInv
  <2>x. ASSUME Exit(r), UNCHANGED <<token, secret>>
        PROVE  OnlineInv'
    BY <2>x, LeaveArrives DEF Exit
  \* From one step to the next, and on to another request.
  <2>n. ASSUME Return(r), step[r] \in 1..9
        PROVE  pc'[r] = "next" /\ step'[r] = step[r] + 1
    <3>1. step[r] + 1 \in 1..10
      BY <2>n
    <3> QED
      BY <2>l, <2>n, <3>1, LeaveMoves DEF Return
  <2>g. ASSUME NEW label \in Label, Goto(r, label)
        PROVE  pc'[r] = label /\ step'[r] = step[r] /\ made'[r] = made[r]
    BY <2>g, GotoMoves
  <2>1. CASE Start(r) \/ Finish(r) \/ Interrupt(r)
    BY <2>1, LeaveArrives DEF Start, Finish, Interrupt, Exit
  <2>2. CASE GetPolicy(r) \/ DeletePolicy(r) \/ CreatePolicy(r)
    <3>1. step[r] \in {1, 2}
      BY <2>0, <2>2, ItemFacts DEF GetPolicy, DeletePolicy, CreatePolicy, At, Place
    <3>2. UNCHANGED host
      BY <2>2 DEF GetPolicy, DeletePolicy, CreatePolicy
    <3>3. Exit(r) \/ Return(r) \/ Goto(r, "create") \/ Goto(r, "migrate")
      <4>1. policy[Item(r)] \in {"absent", "hosted", "ordinary"}
        BY <1>0, <3>1, ItemIsPolicy
      <4> QED
        BY <2>2, <4>1 DEF GetPolicy, DeletePolicy, CreatePolicy
    <3>4. ASSUME ~Exit(r)
          PROVE  step'[r] \in {1, 2, 3} /\ pc'[r] \in {"next", "create", "migrate"}
      BY <2>g, <2>l, <2>n, <3>1, <3>3, <3>4
    <3>5. ASSUME ~Exit(r) PROVE Arrived(r)'
      BY <3>4, <3>5 DEF Arrived
    <3> QED
      BY <2>0, <2>s, <2>x, <3>2, <3>5
  <2>3. CASE GetPackage(r) \/ PostPackage(r)
    <3>1. step[r] \in {3, 4}
      BY <2>0, <2>3, ItemFacts DEF GetPackage, PostPackage, At, Place
    <3>2. UNCHANGED host /\ (Exit(r) \/ Return(r) \/ Goto(r, "add"))
      BY <2>3 DEF GetPackage, PostPackage
    <3>3. ASSUME ~Exit(r) PROVE step'[r] \in {3, 4, 5} /\ pc'[r] \in {"next", "add"}
      BY <2>g, <2>l, <2>n, <3>1, <3>2, <3>3
    <3>4. ASSUME ~Exit(r) PROVE Arrived(r)'
      BY <3>3, <3>4 DEF Arrived
    <3> QED
      BY <2>0, <2>s, <2>x, <3>2, <3>4
  <2>4. CASE PutTemplate(r)
    <3>1. step[r] = 5 /\ pc[r] = "next" /\ UNCHANGED host
      BY <2>4, ItemFacts DEF PutTemplate, At
    <3>2. Return(r) \/ UNCHANGED <<pc, step, made>>
      BY <2>4 DEF PutTemplate
    <3>3. step'[r] \in {5, 6} /\ pc'[r] = "next"
      BY <2>n, <3>1, <3>2
    <3>4. Arrived(r)'
      BY <3>3 DEF Arrived
    <3> QED
      BY <2>0, <2>s, <3>1, <3>4
  <2>5. CASE RestartServer(r)
    <3>1. step[r] = 6 /\ Goto(r, "serving") /\ UNCHANGED <<token, secret>>
      BY <2>5, ItemFacts DEF RestartServer
    <3>2. step'[r] = 6 /\ pc'[r] = "serving"
      BY <2>g, <2>l, <3>1
    <3>3. Arrived(r)'
      BY <3>2 DEF Arrived
    <3> QED
      BY <2>0, <2>s, <3>1, <3>3
  <2>6. CASE WaitServing(r)
    <3>1. step[r] = 6 /\ UNCHANGED <<token, secret>> /\ (Return(r) \/ Exit(r))
      BY <2>0, <2>6 DEF WaitServing, At, Place
    <3>2. ASSUME Return(r) PROVE Arrived(r)'
      <4>1. step'[r] = 7 /\ pc'[r] = "next"
        BY <2>n, <3>1, <3>2
      <4> QED
        BY <4>1 DEF Arrived
    <3> QED
      BY <2>0, <2>s, <2>x, <3>1, <3>2
  <2>7. CASE ReadToken(r)
    <3>1. step[r] = 7 /\ UNCHANGED <<token, secret>>
      BY <2>7, ItemFacts DEF ReadToken
    <3>2. CASE token = NONE /\ Goto(r, "post")
      <4>1. step'[r] = 7 /\ pc'[r] = "post"
        BY <2>g, <2>l, <3>1, <3>2
      <4>2. Arrived(r)'
        BY <3>1, <3>2, <4>1 DEF Arrived
      <4> QED
        BY <2>0, <2>s, <3>1, <4>2
    <3>3. CASE token # NONE /\ Return(r)
      <4>1. step'[r] = 8 /\ pc'[r] = "next"
        BY <2>n, <3>1, <3>3
      <4>2. Arrived(r)'
        BY <3>1, <3>3, <4>1 DEF Arrived
      <4> QED
        BY <2>0, <2>s, <3>1, <4>2
    <3> QED
      BY <2>7, <3>2, <3>3 DEF ReadToken
  <2>8. CASE PostKey(r)
    <3>1. step[r] = 7 /\ token = NONE /\ UNCHANGED <<token, secret>>
      BY <2>0, <2>8 DEF PostKey, At, Place, Arrived
    <3>2. ASSUME NEW k \in NewKey, Take(r, "open", k) PROVE Arrived(r)'
      <4>0. k \in Key \cup {NONE, EMPTY}
        BY KeyFacts
      <4>1. pc'[r] = "open" /\ step' = step
        BY <2>l, <3>2, <4>0, TakeMoves
      <4> QED
        BY <3>1, <4>1 DEF Arrived
    <3> QED
      BY <2>0, <2>8, <2>s, <2>x, <3>1, <3>2 DEF PostKey, Take
  <2>9. CASE OpenToken(r)
    <3>1. step[r] = 7 /\ token = NONE /\ token' = NONE /\ UNCHANGED secret /\ Goto(r, "write")
      BY <2>0, <2>9 DEF OpenToken, At, Place, Arrived
    <3>2. step'[r] = 7 /\ pc'[r] = "write"
      BY <2>g, <2>l, <3>1
    <3>3. Arrived(r)'
      BY <3>1, <3>2 DEF Arrived
    <3> QED
      BY <2>0, <2>s, <3>1, <3>3
  <2>10. CASE WriteToken(r)
    <3>1. /\ step[r] = 7 /\ token = NONE /\ token' = made[r] /\ UNCHANGED secret /\ Return(r)
          /\ made[r] \in Key
      BY <2>0, <2>10 DEF WriteToken, At, Place, Arrived, ControlInv, TypeOK
    <3>2. step'[r] = 8 /\ pc'[r] = "next"
      BY <2>n, <3>1
    <3>3. token' # NONE
      BY <1>0, <3>1
    <3>4. Arrived(r)'
      BY <3>2, <3>3 DEF Arrived
    <3> QED
      BY <2>0, <2>s, <3>1, <3>4
  <2>11. CASE ReadDigest(r)
    <3>1. step[r] = 8 /\ UNCHANGED <<token, secret>>
      BY <2>11, ItemFacts DEF ReadDigest
    <3>2. token # NONE
      BY <2>0, <3>1 DEF Arrived
    <3>3. Take(r, "inspect", token)
      BY <2>11, <3>2 DEF ReadDigest, Take
    <3>4. pc'[r] = "inspect" /\ step' = step /\ made'[r] = token
      BY <1>0, <2>l, <3>3, TakeMoves
    <3>5. Arrived(r)'
      BY <3>1, <3>2, <3>4 DEF Arrived
    <3> QED
      BY <2>0, <2>s, <3>1, <3>5
  <2>12. CASE Inspect(r)
    <3>1. /\ step[r] = 8 /\ made[r] = token /\ token # NONE
          /\ UNCHANGED <<token, secret, record>>
      BY <2>0, <2>12 DEF Inspect, At, Place, Arrived
    <3>2. ASSUME Goto(r, "mount") PROVE Arrived(r)'
      <4>1. pc'[r] = "mount" /\ step'[r] = 8 /\ made'[r] = token
        BY <2>g, <2>l, <3>1, <3>2
      <4> QED
        BY <3>1, <4>1 DEF Arrived
    <3>3. ASSUME Return(r), secret # NONE, record = made[r] PROVE Arrived(r)'
      <4>1. pc'[r] = "next" /\ step'[r] = 9
        BY <2>n, <3>1, <3>3
      <4> QED
        BY <2>0, <3>1, <3>3, <4>1 DEF Arrived
    <3> QED
      BY <2>0, <2>12, <2>s, <2>x, <3>1, <3>2, <3>3 DEF Inspect
  <2>13. CASE CreateSecret(r)
    <3>1. step[r] = 8 /\ made[r] = token /\ token # NONE /\ UNCHANGED token
      BY <2>0, <2>13 DEF CreateSecret, At, Place, Arrived
    <3>2. ASSUME secret' = token, Goto(r, "record") PROVE Arrived(r)'
      <4>1. pc'[r] = "record" /\ step'[r] = 8 /\ made'[r] = token
        BY <2>g, <2>l, <3>1, <3>2
      <4> QED
        BY <3>1, <3>2, <4>1 DEF Arrived
    <3> QED
      BY <2>13, <2>s, <2>x, <3>1, <3>2 DEF CreateSecret
  <2>14. CASE WriteRecord(r)
    <3>1. /\ step[r] = 8 /\ made[r] = token /\ token # NONE /\ secret = token
          /\ UNCHANGED <<token, secret>> /\ record' = made[r] /\ Return(r)
      BY <2>0, <2>14 DEF WriteRecord, At, Place, Arrived
    <3>2. pc'[r] = "next" /\ step'[r] = 9
      BY <2>n, <3>1
    <3>3. Arrived(r)'
      BY <3>1, <3>2 DEF Arrived
    <3> QED
      BY <2>0, <2>s, <3>1, <3>3
  <2>15. CASE RestartAgent(r)
    <3>1. step[r] = 9 /\ Goto(r, "online") /\ UNCHANGED <<token, secret, record>>
      BY <2>15, ItemFacts DEF RestartAgent
    <3>2. pc'[r] = "online" /\ step'[r] = 9
      BY <2>g, <2>l, <3>1
    <3>3. started'["local"] = "deploy"
      BY <1>0, <2>15 DEF RestartAgent, Policy
    <3>4. Arrived(r)'
      BY <2>0, <3>1, <3>2, <3>3 DEF Arrived
    <3> QED
      BY <2>0, <2>s, <3>1, <3>4
  <2>16. CASE WaitOnline(r)
    <3>1. /\ step[r] = 9 /\ pc[r] = "online"
          /\ UNCHANGED <<token, secret, record, started, enrolled>>
      BY <2>0, <2>16 DEF WaitOnline, At, Place
    <3>2. ASSUME Return(r), enrolled["local"] # "none" PROVE Arrived(r)'
      <4>1. pc'[r] = "next" /\ step'[r] = 10
        BY <2>n, <3>1, <3>2
      <4> QED
        BY <2>0, <3>1, <3>2, <4>1 DEF Arrived
    <3> QED
      BY <2>0, <2>16, <2>s, <2>x, <3>1, <3>2 DEF WaitOnline
  <2> QED
    BY <1>4, <2>1, <2>2, <2>3, <2>4, <2>5, <2>6, <2>7, <2>8, <2>9, <2>10, <2>11, <2>12,
       <2>13, <2>14, <2>15, <2>16 DEF Proceed
<1> QED
  BY <1>1, <1>2, <1>3, <1>4 DEF Next

\* One run at a time returns only when the Agent it has started is enrolled, and file,
\* Podman secret and record agree: through interruptions, migrations, and agents that
\* enroll or lose their policy meanwhile.
THEOREM DeployReturnsOnline == Spec /\ OneRun => ReturnsOnline
<1>1. Init => OnlineInv
  BY KeyFacts DEF Init, OnlineInv, Arrived
<1>2. ControlInv /\ OneRun /\ OnlineInv /\ [Next]_vars => OnlineInv'
  BY OnlineStep
<1>3. ControlInv /\ OnlineInv =>
        [\A r \in Run : Finish(r) =>
           /\ started["local"] = "deploy" /\ enrolled["local"] # "none"
           /\ token # NONE /\ secret = token /\ record = token]_vars
  <2> SUFFICES ASSUME OnlineInv, NEW r \in Run, Finish(r)
               PROVE  /\ started["local"] = "deploy" /\ enrolled["local"] # "none"
                      /\ token # NONE /\ secret = token /\ record = token
    OBVIOUS
  <2>1. step[r] = 10
    BY ScriptFacts DEF Finish
  <2> QED
    BY <2>1 DEF OnlineInv, Arrived
<1>4. OneRun /\ [][Next]_vars => []OneRun
  <2>1. OneRun => OneRun'
    BY DEF OneRun
  <2> QED
    BY <2>1, PTL
<1> QED
  BY <1>1, <1>2, <1>3, <1>4, ControlAlways, PTL DEF Spec, ReturnsOnline

-----------------------------------------------------------------------------
(* Any number of runs, also with migrations.                               *)

\* Whoever is about to write the record has made the Podman secret, alone.
RecordInv ==
  /\ record # NONE => secret # NONE
  /\ \A r \in Run : pc[r] = "record" => secret # NONE /\ record = NONE
  /\ \A q, r \in Run : pc[q] = "record" /\ pc[r] = "record" => q = r

\* What a step of a run does to file, secret, record and label.
LEMMA TokenMoves ==
  ASSUME ControlInv, NEW r \in Run, Start(r) \/ Proceed(r) \/ Interrupt(r)
  PROVE  /\ token' # token => pc[r] \in {"open", "write"}
         /\ secret' # secret => secret = NONE
         /\ record' # record => pc[r] = "record" /\ record' = made[r] /\ secret' = secret
         /\ \A q \in Run : q # r => pc'[q] = pc[q]
         /\ pc'[r] \in {"open", "write"} => pc[r] \in {"post", "open"}
         /\ pc'[r] = "post" => token = NONE
         /\ pc'[r] = "record" =>
              pc[r] = "mount" /\ secret = NONE /\ secret' # NONE /\ record' = record
         /\ keys' \subseteq keys \/ pc[r] = "post"
         /\ pc[r] = "record" => pc'[r] # "record"
<1> USE DEF fleet, host
<1>0. pc \in [Run -> Label] /\ policy \in [Policy -> {"absent", "hosted", "ordinary"}]
  BY DEF ControlInv, TypeOK
<1> USE <1>0
<1>1. CASE Start(r) \/ Finish(r) \/ Interrupt(r) \/ RestartServer(r) \/ WaitServing(r)
           \/ RestartAgent(r) \/ WaitOnline(r)
  BY <1>1 DEF Start, Finish, Interrupt, RestartServer, WaitServing, RestartAgent, WaitOnline,
              Goto, Return, Exit, Leave, At
<1>2. CASE GetPackage(r) \/ PostPackage(r) \/ PutTemplate(r)
  BY <1>2 DEF GetPackage, PostPackage, PutTemplate, Goto, Return, Exit, Leave, At
<1>3. CASE DeletePolicy(r) \/ CreatePolicy(r)
  BY <1>3 DEF DeletePolicy, CreatePolicy, Goto, Return, Exit, Leave, At
<1>4. CASE GetPolicy(r)
  <2>1. policy[Item(r)] \in {"absent", "hosted", "ordinary"}
    BY <1>4 DEF GetPolicy, Doing
  <2> QED
    BY <1>4, <2>1 DEF GetPolicy, Goto, Return, Exit, Leave, At
<1>5. CASE ReadToken(r) \/ PostKey(r) \/ OpenToken(r) \/ WriteToken(r)
  BY <1>5 DEF ReadToken, PostKey, OpenToken, WriteToken, Goto, Return, Exit, Leave, At
<1>6. CASE ReadDigest(r) \/ Inspect(r)
  BY <1>6 DEF ReadDigest, Inspect, Goto, Return, Exit, Leave, At
<1>7. CASE CreateSecret(r) \/ WriteRecord(r)
  BY <1>7 DEF CreateSecret, WriteRecord, Goto, Return, Exit, Leave, At
<1> QED
  BY <1>1, <1>2, <1>3, <1>4, <1>5, <1>6, <1>7 DEF Proceed

\* Containers and agents leave all that alone.
LEMMA TokenRests ==
  ASSUME UNCHANGED vars \/ SystemdStartsAgent \/ \E p \in Policy : Enrolls(p)
  PROVE  UNCHANGED <<token, secret, record, keys, pc>>
BY DEF vars, SystemdStartsAgent, Enrolls, fleet, host, control

\* A Podman secret is made once, so nobody else reaches its record.
LEMMA RecordStep ==
  ASSUME ControlInv, RecordInv, [Next]_vars
  PROVE  RecordInv'
<1>1. CASE UNCHANGED vars \/ SystemdStartsAgent \/ \E p \in Policy : Enrolls(p)
  BY <1>1, TokenRests DEF RecordInv
<1>2. ASSUME NEW r \in Run, Start(r) \/ Proceed(r) \/ Interrupt(r)
      PROVE  RecordInv'
  BY <1>2, TokenMoves DEF RecordInv
<1> QED
  BY <1>1, <1>2 DEF Next

\* A revoked token in the file stays there, and so does a Podman secret without a record
\* or with another one: a run asks for a new key only when the file is empty, and a
\* secret that exists is never replaced.
THEOREM StuckStays == Spec => StuckForever
<1>1. Init => RecordInv
  BY KeyFacts DEF Init, RecordInv
<1>2. ControlInv /\ RecordInv /\ [Next]_vars => RecordInv'
  BY RecordStep
<1>3. ControlInv /\ RecordInv /\ [Next]_vars => [Stuck => Stuck']_vars
  <2> SUFFICES ASSUME ControlInv, RecordInv, Next, Stuck
               PROVE  Stuck'
    BY DEF Stuck
  <2>1. CASE SystemdStartsAgent \/ \E p \in Policy : Enrolls(p)
    BY <2>1, TokenRests DEF Stuck, Unrecorded, Unusable
  <2>2. ASSUME NEW r \in Run, Start(r) \/ Proceed(r) \/ Interrupt(r)
        PROVE  Stuck'
    <3>1. CASE Unrecorded
      BY <2>2, <3>1, TokenMoves DEF Unrecorded, Stuck
    <3>2. CASE Unusable
      <4>1. token' = token /\ keys' \subseteq keys
        BY <2>2, <3>2, TokenMoves DEF Unusable
      <4>2. \A q \in Run : pc'[q] \notin {"post", "open", "write"}
        BY <2>2, <3>2, TokenMoves DEF Unusable
      <4>3. record # NONE => record' = record
        BY <2>2, TokenMoves DEF RecordInv
      <4> QED
        BY <3>2, <4>1, <4>2, <4>3 DEF Unusable, Stuck
    <3> QED
      BY <3>1, <3>2 DEF Stuck
  <2> QED
    BY <2>1, <2>2 DEF Next
<1> QED
  BY <1>1, <1>2, <1>3, ControlAlways, PTL DEF Spec, StuckForever

================================================================================
