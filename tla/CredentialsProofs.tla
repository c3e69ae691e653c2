--------------------------- MODULE CredentialsProofs ---------------------------
(* Theorems about Credentials, for every script, every number of runs and  *)
(* interruptions.  Those that need deploys to run one at a time say so     *)
(* with the assumption OneRun.                                             *)
EXTENDS Credentials, FiniteSetTheorems, TLAPS

Writing == {"open", "write", "chmod"}
Posting == {"post"}
Mounting == {"inspect", "create", "open_record", "write_record", "compare"}

-----------------------------------------------------------------------------
(* Where a run is within its step, and the types.                          *)

ControlOf(r) ==
  /\ pc[r] \in Writing \cup Posting \cup Mounting => step[r] \in DOMAIN Script
  /\ pc[r] \in Writing => Script[step[r]].op \in Origin
  /\ pc[r] \in Posting => Script[step[r]].op \in {"service", "enroll"}
  /\ pc[r] \in Mounting => Script[step[r]].op = "mount"
  /\ pc[r] \in {"open", "write"} => val[r] \in Value

Control == \A r \in Run : ControlOf(r)

ControlInv == TypeOK /\ Control

\* The credentials a script names, and the positions it has.
LEMMA ScriptFacts ==
  /\ Len(Script) \in Nat
  /\ DOMAIN Script = 1..Len(Script)
  /\ \A i \in DOMAIN Script : Script[i].op \in Op /\ Script[i].cred \in Cred
<1> DEFINE Steps == [op : Op, cred : Cred]
<1>1. Script \in Seq(Steps)
  BY ScriptAssumption
<1>2. \A s \in Steps : s.op \in Op /\ s.cred \in Cred
  OBVIOUS
<1> HIDE DEF Steps
<1>3. \A i \in 1..Len(Script) : Script[i] \in Steps
  BY <1>1
<1> QED
  BY <1>1, <1>2, <1>3

\* The sentinels are no values, and values are numbers.
LEMMA ValueFacts ==
  /\ Value \subseteq Nat
  /\ ABSENT \notin Value /\ EMPTY \notin Value
BY SentinelAssumption, BoundAssumption DEF Value

\* The steps of a run keep its control state in order.
LEMMA ControlStep ==
  ASSUME ControlInv, [Next]_vars
  PROVE  ControlInv'
<1> USE ScriptFacts, SentinelAssumption, BoundAssumption
          DEF ControlInv, Control, ControlOf, TypeOK, Content, Value, Label, Op,
              Origin, Other, Writing, Posting, Mounting, stores
<1>1. ASSUME NEW r \in Run, Start(r) PROVE ControlInv'
  BY <1>1 DEF Start, At, Goto
<1>2. ASSUME NEW r \in Run, Finish(r) PROVE ControlInv'
  BY <1>2 DEF Finish, At, Exit
<1>3. ASSUME NEW r \in Run, EnsureSecret(r) PROVE ControlInv'
  <2>1. ASSUME NEW v \in Value, Goto(r, "open", v), Doing(r, {"generate"}),
               UNCHANGED <<stores, issued, faults>>
        PROVE  ControlInv'
    BY <2>1 DEF Doing, Goto
  <2>2. CASE Goto(r, "chmod", ABSENT)
    BY <1>3, <2>2 DEF EnsureSecret, At, Doing, Goto
  <2>3. CASE Return(r)
    BY <1>3, <2>3 DEF EnsureSecret, At, Doing, Return
  <2> HIDE DEF Value
  <2> QED
    BY <1>3, <2>1, <2>2, <2>3 DEF EnsureSecret
<1>4. ASSUME NEW r \in Run, CreateToken(r) PROVE ControlInv'
  <2>1. CASE Goto(r, "post", ABSENT)
    BY <1>4, <2>1 DEF CreateToken, At, Doing, Goto
  <2>2. CASE Return(r)
    BY <1>4, <2>2 DEF CreateToken, At, Doing, Return
  <2> QED
    BY <1>4, <2>1, <2>2 DEF CreateToken
<1>5. ASSUME NEW r \in Run, PostToken(r) PROVE ControlInv'
  <2>1. CASE Exit(r) /\ UNCHANGED <<stores, issued, faults>>
    BY <2>1 DEF Exit
  <2>2. ASSUME NEW v \in Value, Goto(r, "open", v), At(r, "post"),
               issued' = [issued EXCEPT ![C(r)] = @ \cup {v}],
               UNCHANGED <<stores, faults>>
        PROVE  ControlInv'
    BY <2>2 DEF At, Goto, C
  <2> HIDE DEF Value
  <2> QED
    BY <1>5, <2>1, <2>2 DEF PostToken
<1>6. ASSUME NEW r \in Run, OpenFile(r) PROVE ControlInv'
  BY <1>6 DEF OpenFile, At, Goto, C
<1>7. ASSUME NEW r \in Run, WriteFile(r) PROVE ControlInv'
  BY <1>7 DEF WriteFile, At, Goto, C
<1>8. ASSUME NEW r \in Run, Chmod(r) PROVE ControlInv'
  BY <1>8 DEF Chmod, At, Return, C
<1>9. ASSUME NEW r \in Run, ReadSource(r) PROVE ControlInv'
  BY <1>9 DEF ReadSource, At, Doing, Goto, C, Digest
<1>10. ASSUME NEW r \in Run, Inspect(r) PROVE ControlInv'
  BY <1>10 DEF Inspect, At, Goto
<1>11. ASSUME NEW r \in Run, Create(r) PROVE ControlInv'
  <2>1. CASE Exit(r) /\ UNCHANGED <<stores, issued, faults>>
    BY <2>1 DEF Exit
  <2>2. CASE /\ At(r, "create") /\ ~Blank(C(r))
             /\ podman' = [podman EXCEPT ![C(r)] = file[C(r)]]
             /\ Goto(r, "open_record", val[r])
             /\ UNCHANGED <<file, private, record, issued, faults>>
    BY <2>2 DEF At, Goto, C, Blank
  <2> QED
    BY <1>11, <2>1, <2>2 DEF Create
<1>12. ASSUME NEW r \in Run, OpenRecord(r) PROVE ControlInv'
  BY <1>12 DEF OpenRecord, At, Goto, C
<1>13. ASSUME NEW r \in Run, WriteRecord(r) PROVE ControlInv'
  BY <1>13 DEF WriteRecord, At, Return, C
<1>14. ASSUME NEW r \in Run, Compare(r) PROVE ControlInv'
  <2>1. CASE Return(r)
    BY <1>14, <2>1 DEF Compare, At, Return
  <2>2. CASE Exit(r)
    BY <1>14, <2>2 DEF Compare, At, Exit
  <2> QED
    BY <1>14, <2>1, <2>2 DEF Compare
<1>15. ASSUME NEW r \in Run, Interrupt(r) PROVE ControlInv'
  BY <1>15 DEF Interrupt, At, Exit
<1>16. ASSUME NEW r \in Run, InspectFails(r) PROVE ControlInv'
  BY <1>16 DEF InspectFails, At, Goto
<1>17. CASE UNCHANGED vars
  BY <1>17 DEF vars
<1>18. ASSUME NEW r \in Run, OtherStep(r) PROVE ControlInv'
  <2>1. CASE Return(r)
    BY <1>18, <2>1 DEF OtherStep, At, Doing, Return
  <2>2. CASE Exit(r)
    BY <1>18, <2>2 DEF OtherStep, Exit
  <2> QED
    BY <1>18, <2>1, <2>2 DEF OtherStep
<1> QED
  BY <1>1, <1>2, <1>3, <1>4, <1>5, <1>6, <1>7, <1>8, <1>9, <1>10, <1>11,
     <1>12, <1>13, <1>14, <1>15, <1>16, <1>17, <1>18 DEF Next, Step

\* Types and control state are in order in every reachable state.
LEMMA ControlAlways == Spec => []ControlInv
<1>1. Init => ControlInv
  BY ScriptFacts, SentinelAssumption, BoundAssumption
     DEF Init, ControlInv, Control, ControlOf, TypeOK, Content, Label,
         Writing, Posting, Mounting
<1> QED
  BY <1>1, ControlStep, PTL DEF Spec

\* Every variable keeps its type, however many runs interleave.
THEOREM TypeCorrect == Spec => []TypeOK
<1>1. ControlInv => TypeOK
  BY DEF ControlInv
<1> QED
  BY <1>1, ControlAlways, PTL

-----------------------------------------------------------------------------
(* Modes: a file ensure_secret returned is protected, with any runs.       *)

ProtectedBy(r) ==
  /\ pc[r] = "chmod" => file[C(r)] # ABSENT
  /\ \A i \in 1..(step[r] - 1) : Script[i].op = "generate" =>
       private[Script[i].cred] /\ file[Script[i].cred] # ABSENT

ProtectInv == \A r \in Run : ProtectedBy(r)

\* A file that exists is never removed, so its mode never loosens again.
LEMMA ProtectStep ==
  ASSUME ControlInv, ProtectInv, [Next]_vars
  PROVE  ProtectInv'
<1> USE ScriptFacts, SentinelAssumption
          DEF ControlInv, Control, ControlOf, TypeOK, Content, Value,
              Origin, Writing, Posting, Mounting, ProtectInv, ProtectedBy, stores, C, At
<1>1. ASSUME NEW r \in Run, Start(r) PROVE ProtectInv'
  BY <1>1 DEF Start, Goto
<1>2. ASSUME NEW r \in Run, Finish(r) PROVE ProtectInv'
  BY <1>2 DEF Finish, Exit
<1>3. ASSUME NEW r \in Run, EnsureSecret(r) PROVE ProtectInv'
  <2>1. ASSUME NEW v \in Value, Goto(r, "open", v), UNCHANGED stores
        PROVE  ProtectInv'
    BY <2>1 DEF Goto
  <2>2. CASE ~Blank(C(r)) /\ Goto(r, "chmod", ABSENT)
    BY <1>3, <2>2 DEF EnsureSecret, Goto, Blank
  <2>3. CASE ~Blank(C(r)) /\ private[C(r)] /\ Return(r)
    BY <1>3, <2>3 DEF EnsureSecret, Return, Blank, Doing
  <2> HIDE DEF Value
  <2> QED
    BY <1>3, <2>1, <2>2, <2>3 DEF EnsureSecret
<1>4. ASSUME NEW r \in Run, CreateToken(r) PROVE ProtectInv'
  <2>1. CASE Goto(r, "post", ABSENT)
    BY <1>4, <2>1 DEF CreateToken, Goto
  <2>2. CASE Return(r)
    BY <1>4, <2>2 DEF CreateToken, Return, Doing
  <2> QED
    BY <1>4, <2>1, <2>2 DEF CreateToken
<1>5. ASSUME NEW r \in Run, PostToken(r) PROVE ProtectInv'
  <2>1. CASE Exit(r) /\ UNCHANGED stores
    BY <2>1 DEF Exit
  <2>2. ASSUME NEW v \in Value, Goto(r, "open", v), UNCHANGED stores
        PROVE  ProtectInv'
    BY <2>2 DEF Goto
  <2> HIDE DEF Value
  <2> QED
    BY <1>5, <2>1, <2>2 DEF PostToken
<1>6. ASSUME NEW r \in Run, OpenFile(r) PROVE ProtectInv'
  BY <1>6 DEF OpenFile, Goto
<1>7. ASSUME NEW r \in Run, WriteFile(r) PROVE ProtectInv'
  BY <1>7 DEF WriteFile, Goto
<1>8. ASSUME NEW r \in Run, Chmod(r) PROVE ProtectInv'
  BY <1>8 DEF Chmod, Return
<1>9. ASSUME NEW r \in Run, ReadSource(r) PROVE ProtectInv'
  BY <1>9 DEF ReadSource, Goto
<1>10. ASSUME NEW r \in Run, Inspect(r) PROVE ProtectInv'
  BY <1>10 DEF Inspect, Goto
<1>11. ASSUME NEW r \in Run, Create(r) PROVE ProtectInv'
  <2>1. CASE Exit(r) /\ UNCHANGED stores
    BY <2>1 DEF Exit
  <2>2. CASE Goto(r, "open_record", val[r]) /\ UNCHANGED <<file, private>>
    BY <2>2 DEF Goto
  <2> QED
    BY <1>11, <2>1, <2>2 DEF Create
<1>12. ASSUME NEW r \in Run, OpenRecord(r) PROVE ProtectInv'
  BY <1>12 DEF OpenRecord, Goto
<1>13. ASSUME NEW r \in Run, WriteRecord(r) PROVE ProtectInv'
  BY <1>13 DEF WriteRecord, Return
<1>14. ASSUME NEW r \in Run, Compare(r) PROVE ProtectInv'
  <2>1. CASE Return(r)
    BY <1>14, <2>1 DEF Compare, Return
  <2>2. CASE Exit(r)
    BY <1>14, <2>2 DEF Compare, Exit
  <2> QED
    BY <1>14, <2>1, <2>2 DEF Compare
<1>15. ASSUME NEW r \in Run, Interrupt(r) PROVE ProtectInv'
  BY <1>15 DEF Interrupt, Exit
<1>16. ASSUME NEW r \in Run, InspectFails(r) PROVE ProtectInv'
  BY <1>16 DEF InspectFails, Goto
<1>17. CASE UNCHANGED vars
  BY <1>17 DEF vars
<1>18. ASSUME NEW r \in Run, OtherStep(r) PROVE ProtectInv'
  <2>1. CASE Return(r)
    BY <1>18, <2>1 DEF OtherStep, Doing, Return, Other
  <2>2. CASE Exit(r)
    BY <1>18, <2>2 DEF OtherStep, Exit
  <2> QED
    BY <1>18, <2>1, <2>2 DEF OtherStep
<1> QED
  BY <1>1, <1>2, <1>3, <1>4, <1>5, <1>6, <1>7, <1>8, <1>9, <1>10, <1>11,
     <1>12, <1>13, <1>14, <1>15, <1>16, <1>17, <1>18 DEF Next, Step

\* ensure_secret returns a file of mode 0600, whatever was interrupted before
\* and however many runs interleave.
THEOREM ProtectedAlways == Spec => []ProtectedOnReturn
<1>1. Init => ProtectInv
  BY DEF Init, ProtectInv, ProtectedBy
<1>2. ProtectInv => ProtectedOnReturn
  BY DEF ProtectInv, ProtectedBy, ProtectedOnReturn, Passed
<1> QED
  BY <1>1, <1>2, ControlAlways, ProtectStep, PTL DEF Spec

-----------------------------------------------------------------------------
(* Tokens: what a token file holds was handed out by its service.          *)

Tokens == Of("service") \cup Of("enroll")

TokenInv ==
  /\ \A c \in Tokens : file[c] \in Value => file[c] \in issued[c]
  /\ \A r \in Run : (pc[r] \in {"open", "write"} /\ C(r) \in Tokens)
       => val[r] \in issued[C(r)]

\* A step that establishes a credential is of the credential's one kind.
LEMMA OneOrigin ==
  \A i \in DOMAIN Script :
    /\ Script[i].op = "generate" => Script[i].cred \notin Tokens
    /\ Script[i].op = "enroll" => Script[i].cred \notin Of("service")
BY ScriptFacts, ScriptAssumption DEF Tokens, Of, Op, Origin

\* The local value a run writes to a token file came with the service's answer.
LEMMA TokenStep ==
  ASSUME ControlInv, TokenInv, [Next]_vars
  PROVE  TokenInv'
<1> USE ScriptFacts, SentinelAssumption, OneOrigin
          DEF ControlInv, Control, ControlOf, TypeOK, Content,
              Origin, Writing, Posting, Mounting, TokenInv, stores, C, At
<1>1. ASSUME NEW r \in Run, Start(r) PROVE TokenInv'
  BY <1>1 DEF Start, Goto
<1>2. ASSUME NEW r \in Run, Finish(r) PROVE TokenInv'
  BY <1>2 DEF Finish, Exit
<1>3. ASSUME NEW r \in Run, EnsureSecret(r) PROVE TokenInv'
  <2>1. ASSUME NEW v \in Value, Blank(C(r)), Doing(r, {"generate"}),
               Goto(r, "open", v), UNCHANGED <<stores, issued>>
        PROVE  TokenInv'
    BY <2>1 DEF Goto, Doing, Blank
  <2>2. CASE ~Blank(C(r)) /\ Goto(r, "chmod", ABSENT)
    BY <1>3, <2>2 DEF EnsureSecret, Goto, Blank
  <2>3. CASE ~Blank(C(r)) /\ Return(r)
    BY <1>3, <2>3 DEF EnsureSecret, Return, Blank, Doing
  <2> HIDE DEF Value
  <2> QED
    BY <1>3, <2>1, <2>2, <2>3 DEF EnsureSecret
<1>4. ASSUME NEW r \in Run, CreateToken(r) PROVE TokenInv'
  <2>1. CASE Blank(C(r)) /\ Goto(r, "post", ABSENT)
    BY <1>4, <2>1 DEF CreateToken, Goto, Blank
  <2>2. CASE ~Blank(C(r)) /\ Return(r)
    BY <1>4, <2>2 DEF CreateToken, Return, Doing, Blank
  <2> QED
    BY <1>4, <2>1, <2>2 DEF CreateToken
<1>5. ASSUME NEW r \in Run, PostToken(r) PROVE TokenInv'
  <2>1. CASE Exit(r) /\ UNCHANGED <<stores, issued>>
    BY <2>1 DEF Exit
  <2>2. ASSUME NEW v \in Value, Goto(r, "open", v), At(r, "post"), ~NameTaken(r),
               issued' = [issued EXCEPT ![C(r)] = @ \cup {v}],
               UNCHANGED stores
        PROVE  TokenInv'
    BY <2>2 DEF Goto, NameTaken, Doing
  <2> HIDE DEF Value
  <2> QED
    BY <1>5, <2>1, <2>2 DEF PostToken
<1>6. ASSUME NEW r \in Run, OpenFile(r) PROVE TokenInv'
  BY <1>6, BoundAssumption DEF OpenFile, Goto, Value
<1>7. ASSUME NEW r \in Run, WriteFile(r) PROVE TokenInv'
  BY <1>7 DEF WriteFile, Goto
<1>8. ASSUME NEW r \in Run, Chmod(r) PROVE TokenInv'
  BY <1>8 DEF Chmod, Return
<1>9. ASSUME NEW r \in Run, ReadSource(r) PROVE TokenInv'
  BY <1>9 DEF ReadSource, Goto, Digest
<1>10. ASSUME NEW r \in Run, Inspect(r) PROVE TokenInv'
  BY <1>10 DEF Inspect, Goto
<1>11. ASSUME NEW r \in Run, Create(r) PROVE TokenInv'
  <2>1. CASE Exit(r) /\ UNCHANGED <<stores, issued>>
    BY <2>1 DEF Exit
  <2>2. CASE /\ At(r, "create") /\ podman[C(r)] = ABSENT /\ ~Blank(C(r))
             /\ podman' = [podman EXCEPT ![C(r)] = file[C(r)]]
             /\ Goto(r, "open_record", val[r])
             /\ UNCHANGED <<file, private, record, issued>>
    BY <2>2 DEF Goto, Blank
  <2> QED
    BY <1>11, <2>1, <2>2 DEF Create
<1>12. ASSUME NEW r \in Run, OpenRecord(r) PROVE TokenInv'
  BY <1>12 DEF OpenRecord, Goto
<1>13. ASSUME NEW r \in Run, WriteRecord(r) PROVE TokenInv'
  BY <1>13 DEF WriteRecord, Return
<1>14. ASSUME NEW r \in Run, Compare(r) PROVE TokenInv'
  <2>1. CASE record[C(r)] = val[r] /\ Return(r)
    BY <1>14, <2>1 DEF Compare, Return
  <2>2. CASE Exit(r)
    BY <1>14, <2>2 DEF Compare, Exit
  <2> QED
    BY <1>14, <2>1, <2>2 DEF Compare
<1>15. ASSUME NEW r \in Run, Interrupt(r) PROVE TokenInv'
  BY <1>15 DEF Interrupt, Exit
<1>16. ASSUME NEW r \in Run, InspectFails(r) PROVE TokenInv'
  BY <1>16 DEF InspectFails, Goto
<1>17. CASE UNCHANGED vars
  BY <1>17 DEF vars
<1>18. ASSUME NEW r \in Run, OtherStep(r) PROVE TokenInv'
  <2>1. CASE Return(r)
    BY <1>18, <2>1 DEF OtherStep, Return
  <2>2. CASE Exit(r)
    BY <1>18, <2>2 DEF OtherStep, Exit
  <2> QED
    BY <1>18, <2>1, <2>2 DEF OtherStep
<1> QED
  BY <1>1, <1>2, <1>3, <1>4, <1>5, <1>6, <1>7, <1>8, <1>9, <1>10, <1>11,
     <1>12, <1>13, <1>14, <1>15, <1>16, <1>17, <1>18 DEF Next, Step

\* No token file holds a value its service does not know, with any runs.
THEOREM TokensAlwaysIssued == Spec => []TokenIssued
<1>1. Init => TokenInv
  <2>1. Tokens \subseteq Cred
    BY ScriptFacts DEF Tokens, Of
  <2> QED
    BY <2>1, SentinelAssumption DEF Init, TokenInv, Value
<1>2. TokenInv => TokenIssued
  BY DEF TokenInv, Tokens, TokenIssued
<1> QED
  BY <1>1, <1>2, ControlAlways, TokenStep, PTL DEF Spec

-----------------------------------------------------------------------------
(* Service tokens: Elasticsearch lets one run through, so concurrent runs  *)
(* agree.                                                                  *)

WritesTo(r, c) == pc[r] \in {"open", "write"} /\ C(r) = c

ServiceInvOf(c) ==
  /\ issued[c] = {} => Blank(c) /\ podman[c] = ABSENT /\ \A r \in Run : ~WritesTo(r, c)
  /\ \A r, s \in Run : WritesTo(r, c) /\ WritesTo(s, c) => r = s
  /\ \A r \in Run : WritesTo(r, c) => Blank(c) /\ podman[c] = ABSENT
  /\ podman[c] # ABSENT => file[c] = podman[c]

ServiceInv == \A c \in Of("service") : ServiceInvOf(c)

\* At most one run ever writes a service token, and it does so before any run
\* can have made a Podman secret of it.
LEMMA ServiceStep ==
  ASSUME ControlInv, ServiceInv, [Next]_vars
  PROVE  ServiceInv'
\* A run that starts or ends writes nothing.
<1>1. ASSUME NEW r \in Run, Start(r) \/ Finish(r) PROVE ServiceInv'
  <2>1. UNCHANGED <<file, podman, issued>>
    BY <1>1 DEF Start, Finish, stores
  <2>2. ASSUME NEW s \in Run, pc'[s] \in {"open", "write"}
        PROVE  pc'[s] = pc[s] /\ step'[s] = step[s]
    BY <1>1, <2>2 DEF Start, Finish, Goto, Exit, ControlInv, TypeOK
  <2>3. \A s \in Run : \A c \in Of("service") : WritesTo(s, c)' => WritesTo(s, c)
    BY <2>2 DEF WritesTo, C
  <2>4. ASSUME NEW c \in Of("service") PROVE ServiceInvOf(c)'
    <3>1. ServiceInvOf(c) /\ \A s \in Run : WritesTo(s, c)' => WritesTo(s, c)
      BY <2>3 DEF ServiceInv
    <3>2. Blank(c)' <=> Blank(c)
      BY <2>1 DEF Blank
    <3> QED
      BY <2>1, <3>1, <3>2 DEF ServiceInvOf
  <2> QED
    BY <2>4 DEF ServiceInv
<1> USE ScriptFacts, SentinelAssumption, OneOrigin
          DEF ControlInv, Control, ControlOf, TypeOK, Content, Tokens,
              Origin, Writing, Posting, Mounting, ServiceInv, ServiceInvOf, WritesTo,
              Blank, stores, C, At
<1>3. ASSUME NEW r \in Run, EnsureSecret(r) PROVE ServiceInv'
  <2>1. ASSUME NEW v \in Value, Blank(C(r)), Doing(r, {"generate"}),
               Goto(r, "open", v), UNCHANGED <<stores, issued>>
        PROVE  ServiceInv'
    BY <2>1 DEF Goto, Doing, Blank
  <2>2. CASE ~Blank(C(r)) /\ Goto(r, "chmod", ABSENT)
    BY <1>3, <2>2 DEF EnsureSecret, Goto, Blank
  <2>3. CASE ~Blank(C(r)) /\ Return(r)
    BY <1>3, <2>3 DEF EnsureSecret, Return, Blank, Doing
  <2> HIDE DEF Value
  <2> QED
    BY <1>3, <2>1, <2>2, <2>3 DEF EnsureSecret
<1>4. ASSUME NEW r \in Run, CreateToken(r) PROVE ServiceInv'
  <2>1. CASE Blank(C(r)) /\ Goto(r, "post", ABSENT)
    BY <1>4, <2>1 DEF CreateToken, Goto, Blank
  <2>2. CASE ~Blank(C(r)) /\ Return(r)
    BY <1>4, <2>2 DEF CreateToken, Return, Doing, Blank
  <2> QED
    BY <1>4, <2>1, <2>2 DEF CreateToken
<1>5. ASSUME NEW r \in Run, PostToken(r) PROVE ServiceInv'
  <2>1. CASE Exit(r) /\ UNCHANGED <<stores, issued>>
    BY <2>1 DEF Exit
  <2>2. ASSUME NEW v \in Value, Goto(r, "open", v), At(r, "post"), ~NameTaken(r),
               issued' = [issued EXCEPT ![C(r)] = @ \cup {v}],
               UNCHANGED stores
        PROVE  ServiceInv'
    <3>1. ASSUME NEW c \in Of("service") PROVE ServiceInvOf(c)'
      <4>1. CASE c = C(r)
        <5>1. issued[c] = {}
          BY <2>2, <4>1 DEF NameTaken, Doing
        <5>2. /\ \A s \in Run : ~WritesTo(s, c)
              /\ Blank(c) /\ podman[c] = ABSENT
          BY <5>1
        <5>3. v \in issued'[c]
          BY <2>2, <4>1 DEF Of
        <5>4. \A s \in Run : WritesTo(s, c)' => s = r
          BY <2>2, <4>1, <5>2 DEF Goto
        <5> QED
          BY <2>2, <5>2, <5>3, <5>4
      <4>2. CASE c # C(r)
        <5>1. issued'[c] = issued[c] /\ \A s \in Run : WritesTo(s, c)' <=> WritesTo(s, c)
          BY <2>2, <4>2 DEF Goto, Of
        <5> QED
          BY <2>2, <5>1
      <4> QED
        BY <4>1, <4>2
    <3> QED
      BY <3>1
  <2> HIDE DEF Value
  <2> QED
    BY <1>5, <2>1, <2>2 DEF PostToken
<1>6. ASSUME NEW r \in Run, OpenFile(r) PROVE ServiceInv'
  BY <1>6 DEF OpenFile, Goto
<1>7. ASSUME NEW r \in Run, WriteFile(r) PROVE ServiceInv'
  BY <1>7 DEF WriteFile, Goto
<1>8. ASSUME NEW r \in Run, Chmod(r) PROVE ServiceInv'
  BY <1>8 DEF Chmod, Return
<1>9. ASSUME NEW r \in Run, ReadSource(r) PROVE ServiceInv'
  BY <1>9 DEF ReadSource, Goto, Digest
<1>10. ASSUME NEW r \in Run, Inspect(r) PROVE ServiceInv'
  BY <1>10 DEF Inspect, Goto
<1>11. ASSUME NEW r \in Run, Create(r) PROVE ServiceInv'
  <2>1. CASE Exit(r) /\ UNCHANGED <<stores, issued>>
    BY <2>1 DEF Exit
  <2>2. CASE /\ At(r, "create") /\ podman[C(r)] = ABSENT /\ ~Blank(C(r))
             /\ podman' = [podman EXCEPT ![C(r)] = file[C(r)]]
             /\ Goto(r, "open_record", val[r])
             /\ UNCHANGED <<file, private, record, issued>>
    BY <2>2 DEF Goto, Blank
  <2> QED
    BY <1>11, <2>1, <2>2 DEF Create
<1>12. ASSUME NEW r \in Run, OpenRecord(r) PROVE ServiceInv'
  BY <1>12 DEF OpenRecord, Goto
<1>13. ASSUME NEW r \in Run, WriteRecord(r) PROVE ServiceInv'
  BY <1>13 DEF WriteRecord, Return
<1>14. ASSUME NEW r \in Run, Compare(r) PROVE ServiceInv'
  <2>1. CASE record[C(r)] = val[r] /\ Return(r)
    BY <1>14, <2>1 DEF Compare, Return
  <2>2. CASE Exit(r)
    BY <1>14, <2>2 DEF Compare, Exit
  <2> QED
    BY <1>14, <2>1, <2>2 DEF Compare
<1>15. ASSUME NEW r \in Run, Interrupt(r) PROVE ServiceInv'
  BY <1>15 DEF Interrupt, Exit
<1>16. ASSUME NEW r \in Run, InspectFails(r) PROVE ServiceInv'
  BY <1>16 DEF InspectFails, Goto
<1>17. CASE UNCHANGED vars
  BY <1>17 DEF vars
<1>18. ASSUME NEW r \in Run, OtherStep(r) PROVE ServiceInv'
  <2>1. CASE Return(r)
    BY <1>18, <2>1 DEF OtherStep, Return
  <2>2. CASE Exit(r)
    BY <1>18, <2>2 DEF OtherStep, Exit
  <2> QED
    BY <1>18, <2>1, <2>2 DEF OtherStep
<1> QED
  BY <1>1, <1>3, <1>4, <1>5, <1>6, <1>7, <1>8, <1>9, <1>10, <1>11,
     <1>12, <1>13, <1>14, <1>15, <1>16, <1>17, <1>18 DEF Next, Step

\* Concurrent deploys never leave a service token's Podman secret apart from
\* its file, with no lock between them.
THEOREM ServiceTokensAgree == Spec => []ServiceTokenAgrees
<1>1. Init => ServiceInv
  BY ScriptFacts DEF Init, ServiceInv, ServiceInvOf, WritesTo, Blank, Of
<1>2. ServiceInv => ServiceTokenAgrees
  BY DEF ServiceInv, ServiceInvOf, ServiceTokenAgrees
<1> QED
  BY <1>1, <1>2, ControlAlways, ServiceStep, PTL DEF Spec

\* A service token that is there is never written again, with any runs.
LEMMA ServiceStays ==
  ASSUME ControlInv, ServiceInv, [Next]_vars, NEW c \in Of("service"), ~Blank(c)
  PROVE  file'[c] = file[c] /\ ~Blank(c)'
<1>0. c \in Cred
  BY ScriptFacts DEF Of
<1>1. ASSUME NEW r \in Run, OpenFile(r) \/ WriteFile(r) PROVE file'[c] = file[c]
  <2>1. pc[r] \in {"open", "write"}
    BY <1>1 DEF OpenFile, WriteFile, At
  <2>2. C(r) # c
    BY <2>1 DEF ServiceInv, ServiceInvOf, WritesTo
  <2> QED
    BY <1>0, <1>1, <2>2 DEF OpenFile, WriteFile, ControlInv, TypeOK
<1>2. ASSUME NEW r \in Run, Step(r) \/ Interrupt(r) \/ InspectFails(r),
             ~OpenFile(r), ~WriteFile(r)
      PROVE  file' = file
  BY <1>2 DEF Step, Start, Finish, EnsureSecret, CreateToken, PostToken, Chmod, ReadSource,
              Inspect, Create, OpenRecord, WriteRecord, Compare, OtherStep, Interrupt,
              InspectFails, stores
<1>3. file'[c] = file[c]
  BY <1>1, <1>2 DEF Next, vars
<1> QED
  BY <1>3 DEF Blank

\* A run that is past create_service_token, or at its chmod, finds the token there.
ServiceDoneBy(r) ==
  /\ pc[r] = "chmod" /\ C(r) \in Of("service") => ~Blank(C(r))
  /\ \A i \in 1..(step[r] - 1) : Script[i].op = "service" => ~Blank(Script[i].cred)

ServiceDone == \A r \in Run : ServiceDoneBy(r)

\* Nobody gets past create_service_token without the token, with any runs.
LEMMA ServiceDoneStep ==
  ASSUME ControlInv, ServiceInv, ServiceDone, [Next]_vars
  PROVE  ServiceDone'
<1> USE DEF At
<1>1. \A c \in Of("service") : ~Blank(c) => ~Blank(c)'
  BY ServiceStays
<1>2. /\ \A r \in Run : step[r] \in Nat /\ step[r] \in 1..(Len(Script) + 1)
      /\ pc \in [Run -> Label] /\ step \in [Run -> 1..(Len(Script) + 1)]
      /\ \A i \in 1..Len(Script) : Script[i].op = "service" => Script[i].cred \in Of("service")
  <2>1. \A i \in 1..Len(Script) : Script[i].op = "service" => Script[i].cred \in Of("service")
    BY ScriptFacts DEF Of
  <2>2. \A n \in 1..(Len(Script) + 1) : n \in Nat
    BY ScriptFacts
  <2> QED
    BY <2>1, <2>2 DEF ControlInv, TypeOK
<1>3. ASSUME NEW r \in Run, pc'[r] = pc[r], step'[r] = step[r] PROVE ServiceDoneBy(r)'
  <2>1. ServiceDoneBy(r)
    BY DEF ServiceDone
  <2>2. \A i \in 1..(step[r] - 1) : Script[i].op = "service" => Script[i].cred \in Of("service")
    BY <1>2, ScriptFacts
  <2> QED
    BY <1>1, <1>3, <2>1, <2>2 DEF ServiceDoneBy, C
\* Only the run that moves has to be looked at.
<1>4. ASSUME NEW r \in Run, NEW label, Goto(r, label, val'[r]),
             label = "chmod" /\ C(r) \in Of("service") => ~Blank(C(r))'
      PROVE  ServiceDone'
  <2>1. pc'[r] = label /\ step' = step /\ \A q \in Run : q # r => pc'[q] = pc[q]
    BY <1>2, <1>4 DEF Goto
  <2>2. \A i \in 1..(step[r] - 1) : Script[i].op = "service" => ~Blank(Script[i].cred)'
    <3>1. \A i \in 1..(step[r] - 1) : Script[i].op = "service" =>
             Script[i].cred \in Of("service") /\ ~Blank(Script[i].cred)
      BY <1>2, ScriptFacts DEF ServiceDone, ServiceDoneBy
    <3> QED
      BY <1>1, <3>1
  <2>3. ServiceDoneBy(r)'
    BY <1>4, <2>1, <2>2 DEF ServiceDoneBy, C
  <2> QED
    BY <1>3, <2>1, <2>3 DEF ServiceDone
<1>5. ASSUME NEW r \in Run, Exit(r) PROVE ServiceDone'
  <2>1. pc'[r] = "idle" /\ step'[r] = 1
        /\ \A q \in Run : q # r => pc'[q] = pc[q] /\ step'[q] = step[q]
    BY <1>2, <1>5 DEF Exit
  <2>2. ServiceDoneBy(r)'
    BY <2>1 DEF ServiceDoneBy
  <2> QED
    BY <1>3, <2>1, <2>2 DEF ServiceDone
<1>6. ASSUME NEW r \in Run, Return(r), step[r] \in DOMAIN Script,
             Script[step[r]].op = "service" => ~Blank(C(r))
      PROVE  ServiceDone'
  <2>1. pc'[r] = "next" /\ step'[r] = step[r] + 1
        /\ \A q \in Run : q # r => pc'[q] = pc[q] /\ step'[q] = step[q]
    BY <1>2, <1>6 DEF Return
  <2>2. ASSUME NEW i \in 1..step[r], Script[i].op = "service"
        PROVE  ~Blank(Script[i].cred)'
    <3>1. Script[i].cred \in Of("service")
      BY <1>2, <1>6, <2>2, ScriptFacts
    <3>2. i = step[r] \/ i \in 1..(step[r] - 1)
      BY <1>2
    <3>3. ~Blank(Script[i].cred)
      BY <1>6, <2>2, <3>2 DEF C, ServiceDone, ServiceDoneBy
    <3> QED
      BY <1>1, <3>1, <3>3
  <2>3. ServiceDoneBy(r)'
    BY <1>2, <2>1, <2>2 DEF ServiceDoneBy
  <2> QED
    BY <1>3, <2>1, <2>3 DEF ServiceDone
<1>7. ASSUME NEW r \in Run, NEW label, NEW v, Goto(r, label, v), label # "chmod"
      PROVE  ServiceDone'
  <2>1. Goto(r, label, val'[r])
    BY <1>7 DEF Goto, ControlInv, TypeOK
  <2> QED
    BY <1>4, <1>7, <2>1
<1>8. ASSUME NEW r \in Run, EnsureSecret(r) PROVE ServiceDone'
  <2>1. step[r] \in DOMAIN Script /\ Script[step[r]].op = "generate" /\ C(r) \notin Of("service")
    BY <1>8, OneOrigin DEF EnsureSecret, Doing, C, Tokens
  <2>2. CASE Return(r)
    BY <1>6, <2>1, <2>2
  <2>3. CASE Goto(r, "chmod", ABSENT)
    <3>1. Goto(r, "chmod", val'[r])
      BY <2>3 DEF Goto, ControlInv, TypeOK
    <3> QED
      BY <1>4, <2>1, <3>1
  <2> QED
    BY <1>7, <1>8, <2>2, <2>3 DEF EnsureSecret
<1>9. ASSUME NEW r \in Run, CreateToken(r) PROVE ServiceDone'
  <2>1. CASE Blank(C(r)) /\ Goto(r, "post", ABSENT)
    BY <1>7, <2>1
  <2>2. CASE ~Blank(C(r)) /\ Return(r)
    BY <1>6, <1>9, <2>2 DEF CreateToken, Doing
  <2> QED
    BY <1>9, <2>1, <2>2 DEF CreateToken
<1>10. ASSUME NEW r \in Run, WriteFile(r) PROVE ServiceDone'
  <2>1. val[r] \in Value /\ C(r) \in Cred
    BY <1>10, ScriptFacts DEF WriteFile, ControlInv, Control, ControlOf, Writing, C
  <2>2. ~Blank(C(r))'
    <3>1. file'[C(r)] = val[r]
      BY <1>10, <2>1 DEF WriteFile, ControlInv, TypeOK
    <3>2. C(r)' = C(r)
      BY <1>10 DEF WriteFile, Goto, C
    <3> QED
      BY <2>1, <3>1, <3>2, ValueFacts DEF Blank
  <2>3. Goto(r, "chmod", val'[r])
    BY <1>10 DEF WriteFile, Goto, ControlInv, TypeOK
  <2> QED
    BY <1>4, <2>2, <2>3
<1>11. ASSUME NEW r \in Run, Chmod(r) PROVE ServiceDone'
  <2>1. /\ step[r] \in DOMAIN Script /\ Return(r) /\ pc[r] = "chmod"
    BY <1>11 DEF Chmod, ControlInv, Control, ControlOf, Writing
  <2>2. Script[step[r]].op = "service" => ~Blank(C(r))
    BY <1>2, <2>1, ScriptFacts DEF ServiceDone, ServiceDoneBy, C
  <2> QED
    BY <1>6, <2>1, <2>2
<1>12. ASSUME NEW r \in Run, WriteRecord(r) \/ Compare(r) \/ OtherStep(r) PROVE ServiceDone'
  <2>1. step[r] \in DOMAIN Script /\ Script[step[r]].op # "service"
    BY <1>12 DEF WriteRecord, Compare, OtherStep, Doing, Other, ControlInv, Control, ControlOf,
                 Mounting
  <2>2. Return(r) \/ Exit(r)
    BY <1>12 DEF WriteRecord, Compare, OtherStep
  <2> QED
    BY <1>5, <1>6, <2>1, <2>2
<1>13. ASSUME NEW r \in Run,
              \/ Start(r) \/ Finish(r) \/ PostToken(r) \/ OpenFile(r) \/ ReadSource(r) \/ Inspect(r)
              \/ Create(r) \/ OpenRecord(r) \/ Interrupt(r) \/ InspectFails(r)
       PROVE  ServiceDone'
  <2>1. Exit(r) \/ \E label \in Label \ {"chmod"} : \E v : Goto(r, label, v)
    BY <1>13 DEF Start, Finish, PostToken, OpenFile, ReadSource, Inspect, Create, OpenRecord,
                 Interrupt, InspectFails, Label
  <2> QED
    BY <1>5, <1>7, <2>1
<1>14. CASE UNCHANGED vars
  BY <1>3, <1>14 DEF vars, ServiceDone
<1> QED
  BY <1>8, <1>9, <1>10, <1>11, <1>12, <1>13, <1>14 DEF Next, Step

\* The service tokens are in order in every reachable state, with any runs.
LEMMA ServiceAlways == Spec => []ServiceInv /\ []ServiceDone
<1>1. Init => ServiceInv /\ ServiceDone
  BY ScriptFacts
     DEF Init, ServiceInv, ServiceInvOf, WritesTo, Blank, Of, ServiceDone, ServiceDoneBy
<1> QED
  BY <1>1, ControlAlways, ServiceStep, ServiceDoneStep, PTL DEF Spec

-----------------------------------------------------------------------------
(* One run at a time: the file, the Podman secret and the record.          *)

StoreOK(c) ==
  /\ podman[c] # ABSENT => file[c] = podman[c]
  /\ record[c] # ABSENT => podman[c] # ABSENT
  /\ record[c] \in Nat => record[c] = podman[c]

MountedBy(c) == podman[c] # ABSENT /\ record[c] = podman[c]

LocalOK(r) ==
  /\ pc[r] \in {"post", "open", "write"} => Blank(C(r))
  /\ pc[r] = "chmod" => ~Blank(C(r))
  /\ pc[r] \in Mounting => ~Blank(C(r)) /\ val[r] = file[C(r)]
  /\ pc[r] \in {"open_record", "write_record"} =>
       /\ podman[C(r)] = val[r]
       /\ \A i \in 1..(step[r] - 1) : Script[i].op = "mount" => Script[i].cred # C(r)

StepDone(i) ==
  /\ Script[i].op = "mount" => MountedBy(Script[i].cred)
  /\ Script[i].op \in Origin => ~Blank(Script[i].cred)

PassedOK(r) == \A i \in 1..(step[r] - 1) : StepDone(i)

StoreInv ==
  /\ \A c \in Cred : StoreOK(c)
  /\ \A r \in Run : LocalOK(r) /\ PassedOK(r)

OneRun == \A p, q \in Run : p = q

\* While deploys run one at a time, a store that was written is never written
\* again with another value, and a step that returned left its stores agreeing.
LEMMA StoreStep ==
  ASSUME ControlInv, StoreInv, OneRun, [Next]_vars
  PROVE  StoreInv'
<1> USE ScriptFacts, ValueFacts, SentinelAssumption
          DEF ControlInv, Control, ControlOf, TypeOK, Content, Writing, Posting,
              Mounting, LocalOK, Blank, Origin, stores, C, At
<1>s. /\ \A c \in Cred : StoreOK(c)
      /\ \A r \in Run : LocalOK(r) /\ PassedOK(r)
  BY ONLY StoreInv DEF StoreInv
<1> USE <1>s
<1>a. ASSUME NEW r \in Run, \A c \in Cred : StoreOK(c)', LocalOK(r)', PassedOK(r)'
      PROVE  StoreInv'
  <2>1. \A q \in Run : q = r
    BY DEF OneRun
  <2> QED
    BY ONLY <1>a, <2>1 DEF StoreInv
<1>b. ASSUME NEW r \in Run, UNCHANGED <<file, podman, record>>, LocalOK(r)', PassedOK(r)'
      PROVE  StoreInv'
  <2>1. \A c \in Cred : StoreOK(c)'
    BY ONLY <1>b, StoreInv DEF StoreInv, StoreOK
  <2> QED
    BY ONLY <1>a, <1>b, <2>1
\* A step within an operation, an operation that returns, a process that ends.
<1>g. ASSUME NEW r \in Run, UNCHANGED <<file, podman, record, step>>, LocalOK(r)'
      PROVE  StoreInv'
  <2>1. PassedOK(r)'
    BY ONLY <1>g, StoreInv DEF StoreInv, PassedOK, StepDone, MountedBy, Blank
  <2> QED
    BY ONLY <1>b, <1>g, <2>1
<1>h. ASSUME NEW r \in Run, UNCHANGED <<file, podman, record>>, Return(r),
             step[r] \in DOMAIN Script, StepDone(step[r])
      PROVE  StoreInv'
  <2>1. \A i \in 1..(step'[r] - 1) : i \in 1..(step[r] - 1) \/ i = step[r]
    BY <1>h DEF Return
  <2>2. PassedOK(r)'
    BY ONLY <1>h, <2>1, StoreInv DEF StoreInv, PassedOK, StepDone, MountedBy, Blank
  <2>3. LocalOK(r)'
    BY <1>h DEF Return
  <2> QED
    BY ONLY <1>b, <1>h, <2>2, <2>3
<1>e. ASSUME NEW r \in Run, UNCHANGED <<file, podman, record>>, Exit(r)
      PROVE  StoreInv'
  <2>1. LocalOK(r)' /\ PassedOK(r)'
    BY <1>e DEF Exit, PassedOK
  <2> QED
    BY ONLY <1>b, <1>e, <2>1
<1>1. ASSUME NEW r \in Run, Start(r) PROVE StoreInv'
  <2>1. LocalOK(r)'
    BY <1>1 DEF Start, Goto
  <2> QED
    BY ONLY <1>1, <1>g, <2>1 DEF Start, Goto, stores
<1>2. ASSUME NEW r \in Run, Finish(r) PROVE StoreInv'
  BY ONLY <1>2, <1>e DEF Finish, stores
<1>3. ASSUME NEW r \in Run, EnsureSecret(r) PROVE StoreInv'
  <2>1. ASSUME NEW v \in Value, Blank(C(r)), Goto(r, "open", v), UNCHANGED stores
        PROVE  StoreInv'
    <3>1. LocalOK(r)'
      BY <2>1 DEF Goto
    <3> QED
      BY ONLY <1>g, <2>1, <3>1 DEF Goto, stores
  <2>2. CASE ~Blank(C(r)) /\ Goto(r, "chmod", ABSENT) /\ UNCHANGED stores
    <3>1. LocalOK(r)'
      BY <2>2 DEF Goto
    <3> QED
      BY ONLY <1>g, <2>2, <3>1 DEF Goto, stores
  <2>3. CASE ~Blank(C(r)) /\ Return(r) /\ UNCHANGED stores
    BY <1>3, <1>h, <2>3 DEF EnsureSecret, Doing, StepDone
  <2> QED
    BY ONLY <1>3, <2>1, <2>2, <2>3 DEF EnsureSecret
<1>4. ASSUME NEW r \in Run, CreateToken(r) PROVE StoreInv'
  <2>1. CASE Blank(C(r)) /\ Goto(r, "post", ABSENT) /\ UNCHANGED stores
    <3>1. LocalOK(r)'
      BY <2>1 DEF Goto
    <3> QED
      BY ONLY <1>g, <2>1, <3>1 DEF Goto, stores
  <2>2. CASE ~Blank(C(r)) /\ Return(r) /\ UNCHANGED stores
    BY <1>4, <1>h, <2>2 DEF CreateToken, Doing, StepDone
  <2> QED
    BY ONLY <1>4, <2>1, <2>2 DEF CreateToken
<1>5. ASSUME NEW r \in Run, PostToken(r) PROVE StoreInv'
  <2>1. CASE Exit(r) /\ UNCHANGED stores
    BY <1>e, <2>1
  <2>2. ASSUME NEW v \in Value, At(r, "post"), Goto(r, "open", v), UNCHANGED stores
        PROVE  StoreInv'
    <3>1. LocalOK(r)'
      BY <2>2 DEF Goto
    <3> QED
      BY ONLY <1>g, <2>2, <3>1 DEF Goto, stores
  <2> QED
    BY ONLY <1>5, <2>1, <2>2 DEF PostToken
<1>6. ASSUME NEW r \in Run, OpenFile(r) PROVE StoreInv'
  <2>1. \A c \in Cred : StoreOK(c)'
    BY <1>6 DEF OpenFile, StoreOK
  <2>2. LocalOK(r)'
    BY <1>6 DEF OpenFile, Goto
  <2>3. PassedOK(r)'
    BY <1>6 DEF OpenFile, Goto, PassedOK, StepDone, MountedBy
  <2> QED
    BY ONLY <1>a, <2>1, <2>2, <2>3
<1>7. ASSUME NEW r \in Run, WriteFile(r) PROVE StoreInv'
  <2>1. val[r] \notin {ABSENT, EMPTY}
    BY <1>7 DEF WriteFile
  <2>2. \A c \in Cred : StoreOK(c)'
    BY <1>7 DEF WriteFile, StoreOK
  <2>3. LocalOK(r)'
    BY <1>7, <2>1 DEF WriteFile, Goto
  <2>4. PassedOK(r)'
    BY <1>7, <2>1 DEF WriteFile, Goto, PassedOK, StepDone, MountedBy
  <2> QED
    BY ONLY <1>a, <2>2, <2>3, <2>4
<1>8. ASSUME NEW r \in Run, Chmod(r) PROVE StoreInv'
  BY <1>8, <1>h DEF Chmod, StepDone
<1>9. ASSUME NEW r \in Run, ReadSource(r) PROVE StoreInv'
  <2>1. PICK j \in 1..(step[r] - 1) :
          Script[j].op \in Origin /\ Script[j].cred = C(r)
    BY <1>9, ScriptAssumption DEF ReadSource, Doing
  <2>2. ~Blank(C(r)) /\ Digest(file[C(r)]) = file[C(r)]
    BY <2>1 DEF Digest, PassedOK, StepDone
  <2>3. LocalOK(r)'
    BY <1>9, <2>2 DEF ReadSource, Goto
  <2> QED
    BY ONLY <1>9, <1>g, <2>3 DEF ReadSource, Goto, stores
<1>10. ASSUME NEW r \in Run, Inspect(r) PROVE StoreInv'
  <2>1. LocalOK(r)'
    BY <1>10 DEF Inspect, Goto
  <2> QED
    BY ONLY <1>10, <1>g, <2>1 DEF Inspect, Goto, stores
<1>11. ASSUME NEW r \in Run, Create(r) PROVE StoreInv'
  <2>1. CASE Exit(r) /\ UNCHANGED <<file, private, record, issued, podman>>
    BY ONLY <1>e, <2>1
  <2>2. CASE /\ At(r, "create") /\ podman[C(r)] = ABSENT /\ ~Blank(C(r))
             /\ podman' = [podman EXCEPT ![C(r)] = file[C(r)]]
             /\ Goto(r, "open_record", val[r])
             /\ UNCHANGED <<file, private, record, issued>>
    <3>1. \A c \in Cred : StoreOK(c)'
      BY <2>2 DEF StoreOK
    <3>2. \A i \in 1..(step[r] - 1) : Script[i].op = "mount" => Script[i].cred # C(r)
      BY <2>2 DEF PassedOK, StepDone, MountedBy
    <3>3. LocalOK(r)'
      BY <2>2, <3>2 DEF Goto
    <3>4. PassedOK(r)'
      BY <2>2, <3>2 DEF Goto, PassedOK, StepDone, MountedBy
    <3> QED
      BY ONLY <1>a, <3>1, <3>3, <3>4
  <2> QED
    BY ONLY <1>11, <2>1, <2>2 DEF Create
<1>12. ASSUME NEW r \in Run, OpenRecord(r) PROVE StoreInv'
  <2>1. \A c \in Cred : StoreOK(c)'
    BY <1>12 DEF OpenRecord, StoreOK
  <2>2. LocalOK(r)'
    BY <1>12 DEF OpenRecord, Goto
  <2>3. PassedOK(r)'
    BY <1>12 DEF OpenRecord, Goto, PassedOK, StepDone, MountedBy
  <2> QED
    BY ONLY <1>a, <2>1, <2>2, <2>3
<1>13. ASSUME NEW r \in Run, WriteRecord(r) PROVE StoreInv'
  <2>1. \A c \in Cred : StoreOK(c)'
    BY <1>13 DEF WriteRecord, StoreOK
  <2>2. LocalOK(r)'
    BY <1>13 DEF WriteRecord, Return
  <2>3. \A i \in DOMAIN Script : i = step[r] => StepDone(i)'
    BY <1>13 DEF WriteRecord, StepDone, MountedBy
  <2>4. \A i \in 1..(step[r] - 1) : StepDone(i)'
    BY <1>13 DEF WriteRecord, PassedOK, StepDone, MountedBy
  <2>5. \A i \in 1..(step'[r] - 1) :
          i \in 1..(step[r] - 1) \/ (i = step[r] /\ i \in DOMAIN Script)
    BY <1>13 DEF WriteRecord, Return
  <2>6. PassedOK(r)'
    BY ONLY <2>3, <2>4, <2>5 DEF PassedOK
  <2> QED
    BY ONLY <1>a, <2>1, <2>2, <2>6
<1>14. ASSUME NEW r \in Run, Compare(r) PROVE StoreInv'
  <2>1. CASE record[C(r)] = val[r] /\ Return(r) /\ UNCHANGED stores
    <3>1. StepDone(step[r])
      BY <1>14, <2>1 DEF Compare, StoreOK, StepDone, MountedBy
    <3> QED
      BY <1>14, <1>h, <2>1, <3>1 DEF Compare
  <2>2. CASE Exit(r) /\ UNCHANGED stores
    BY <1>e, <2>2
  <2> QED
    BY ONLY <1>14, <2>1, <2>2 DEF Compare
<1>15. ASSUME NEW r \in Run, Interrupt(r) PROVE StoreInv'
  BY <1>15, <1>e DEF Interrupt
<1>16. ASSUME NEW r \in Run, InspectFails(r) PROVE StoreInv'
  <2>1. LocalOK(r)'
    BY <1>16 DEF InspectFails, Goto
  <2> QED
    BY ONLY <1>16, <1>g, <2>1 DEF InspectFails, Goto, stores
<1>17. CASE UNCHANGED vars
  BY <1>17 DEF vars, StoreInv, StoreOK, PassedOK, StepDone, MountedBy
<1>18. ASSUME NEW r \in Run, OtherStep(r) PROVE StoreInv'
  <2>1. CASE Return(r)
    <3>1. StepDone(step[r])
      BY <1>18 DEF OtherStep, Doing, StepDone, Origin, Other
    <3> QED
      BY <1>18, <1>h, <2>1, <3>1 DEF OtherStep, Doing
  <2>2. CASE Exit(r)
    BY <1>18, <1>e, <2>2 DEF OtherStep
  <2> QED
    BY ONLY <1>18, <2>1, <2>2 DEF OtherStep
<1> QED
  BY ONLY <1>1, <1>2, <1>3, <1>4, <1>5, <1>6, <1>7, <1>8, <1>9, <1>10, <1>11,
     <1>12, <1>13, <1>14, <1>15, <1>16, <1>17, <1>18, [Next]_vars DEF Next, Step

\* With one run at a time the stores agree in every reachable state.
LEMMA StoreAlways ==
  ASSUME OneRun
  PROVE  Spec => []StoreInv
<1>1. Init => StoreInv
  BY SentinelAssumption DEF Init, StoreInv, StoreOK, LocalOK, PassedOK, Mounting
<1>2. ControlInv /\ StoreInv /\ [Next]_vars => StoreInv'
  BY StoreStep
<1> QED
  BY <1>1, <1>2, ControlAlways, PTL DEF Spec

\* A container is given what the controller reads from the protected file.
THEOREM SecretsAgree ==
  ASSUME OneRun
  PROVE  Spec => []SecretAgrees
<1>1. StoreInv => SecretAgrees
  BY DEF StoreInv, StoreOK, SecretAgrees
<1> QED
  BY <1>1, StoreAlways, PTL

\* ensure_podman_secret returns only when file, Podman secret and record agree.
THEOREM MountsConsistent ==
  ASSUME OneRun
  PROVE  Spec => []MountMeansConsistent
<1>1. ControlInv /\ StoreInv => MountMeansConsistent
  BY ScriptFacts, SentinelAssumption
     DEF ControlInv, TypeOK, StoreInv, StoreOK, PassedOK, StepDone, MountedBy,
         MountMeansConsistent, Passed
<1> QED
  BY <1>1, ControlAlways, StoreAlways, PTL

-----------------------------------------------------------------------------
(* Enrollment keys, with one run at a time.                                *)

\* A key counts against an interruption once nothing holds it or will: the file
\* is blank and no run is about to write it.
KeysOf(c) ==
  /\ Cardinality(issued[c]) <= faults + 1
  /\ Blank(c) /\ (\A r \in Run : ~WritesTo(r, c)) => Cardinality(issued[c]) <= faults

KeysInv == \A c \in Of("enroll") : KeysOf(c)

\* The keys a service has issued can be counted.
LEMMA IssuedFinite ==
  ASSUME TypeOK, NEW c \in Cred
  PROVE  IsFiniteSet(issued[c]) /\ Cardinality(issued[c]) \in Nat
<1>1. IsFiniteSet(Value)
  BY BoundAssumption, FS_Interval DEF Value
<1>2. issued[c] \subseteq Value
  BY DEF TypeOK
<1>3. IsFiniteSet(issued[c])
  BY <1>1, <1>2, FS_Subset
<1> QED
  BY <1>3, FS_CardinalityType

\* A run asks for another key only when an interruption left the last one
\* unwritten.
LEMMA KeysStep ==
  ASSUME ControlInv, StoreInv, KeysInv, OneRun, [Next]_vars
  PROVE  KeysInv'
<1> SUFFICES ASSUME NEW c \in Of("enroll")
             PROVE  KeysOf(c)'
  BY DEF KeysInv, Of
<1> USE DEF At
<1>1. c \in Cred
  BY ScriptFacts DEF Of
<1>2. /\ IsFiniteSet(issued[c]) /\ Cardinality(issued[c]) \in Nat /\ faults \in Nat
      /\ KeysOf(c)
  BY <1>1, IssuedFinite, BoundAssumption DEF ControlInv, TypeOK, KeysInv
<1> DEFINE Idle == \A r \in Run : ~WritesTo(r, c)
<1>3. ASSUME issued'[c] = issued[c], faults' = faults, Blank(c)' /\ Idle' => Blank(c) /\ Idle
      PROVE  KeysOf(c)'
  BY <1>2, <1>3 DEF KeysOf
<1>4. ASSUME issued' = issued, faults' = faults + 1
      PROVE  KeysOf(c)'
  <2>1. Cardinality(issued[c]) <= faults + 1
    BY <1>2 DEF KeysOf
  <2>2. Cardinality(issued'[c]) <= faults'
    BY <1>4, <2>1
  <2>3. faults' <= faults' + 1 /\ faults' \in Nat /\ Cardinality(issued'[c]) \in Nat
    BY <1>2, <1>4
  <2> QED
    BY <2>2, <2>3 DEF KeysOf
<1>5. ASSUME NEW r \in Run, Interrupt(r) \/ InspectFails(r) PROVE KeysOf(c)'
  BY <1>4, <1>5 DEF Interrupt, InspectFails
<1>6. ASSUME UNCHANGED <<file, issued, faults>>, NEW r \in Run, pc[r] \notin {"open", "write"}
      PROVE  KeysOf(c)'
  <2>1. \A s \in Run : s = r
    BY DEF OneRun
  <2>2. Idle
    BY <1>6, <2>1 DEF WritesTo
  <2>3. Blank(c)' <=> Blank(c)
    BY <1>6 DEF Blank
  <2> QED
    BY <1>3, <1>6, <2>2, <2>3
<1>7. ASSUME NEW r \in Run,
             \/ Start(r) \/ Finish(r) \/ EnsureSecret(r) \/ CreateToken(r) \/ Chmod(r)
             \/ ReadSource(r) \/ Inspect(r) \/ Create(r) \/ OpenRecord(r) \/ WriteRecord(r)
             \/ Compare(r) \/ OtherStep(r)
      PROVE  KeysOf(c)'
  <2>1. UNCHANGED <<file, issued, faults>>
    BY <1>7 DEF Start, Finish, EnsureSecret, CreateToken, Chmod, ReadSource, Inspect, Create,
                OpenRecord, WriteRecord, Compare, OtherStep, stores
  <2>2. pc[r] \notin {"open", "write"}
    BY <1>7 DEF Start, Finish, EnsureSecret, CreateToken, Chmod, ReadSource, Inspect, Create,
                OpenRecord, WriteRecord, Compare, OtherStep
  <2> QED
    BY <1>6, <2>1, <2>2
<1>8. ASSUME NEW r \in Run, PostToken(r) PROVE KeysOf(c)'
  <2>1. CASE issued' = issued
    BY <1>6, <1>8, <2>1 DEF PostToken, stores
  <2>2. ASSUME NEW v \in Value, Goto(r, "open", v),
               issued' = [issued EXCEPT ![C(r)] = @ \cup {v}]
        PROVE  KeysOf(c)'
    <3>1. pc[r] = "post" /\ UNCHANGED <<stores, faults>>
      BY <1>8 DEF PostToken
    <3>2. CASE C(r) # c
      <4>1. issued'[c] = issued[c]
        BY <1>1, <2>2, <3>2 DEF ControlInv, TypeOK
      <4>2. Idle
        BY <3>1 DEF OneRun, WritesTo
      <4>3. Blank(c)' <=> Blank(c)
        BY <3>1 DEF Blank, stores
      <4> QED
        BY <1>3, <3>1, <4>1, <4>2, <4>3
    <3>3. CASE C(r) = c
      <4>1. Blank(c) /\ Idle
        BY <3>1, <3>3 DEF StoreInv, LocalOK, OneRun, WritesTo
      <4>2. Cardinality(issued[c]) <= faults
        BY <1>2, <4>1 DEF KeysOf
      <4>3. issued'[c] = issued[c] \cup {v}
        BY <1>1, <2>2, <3>3 DEF ControlInv, TypeOK
      <4>4. Cardinality(issued'[c]) <= faults' + 1
        <5>1. Cardinality(issued[c] \cup {v}) \in {Cardinality(issued[c]), Cardinality(issued[c]) + 1}
          BY <1>2, FS_AddElement
        <5> QED
          BY <1>2, <3>1, <4>2, <4>3, <5>1
      <4>5. WritesTo(r, c)'
        BY <2>2, <3>1, <3>3 DEF ControlInv, TypeOK, Goto, WritesTo, C
      <4> QED
        BY <4>4, <4>5 DEF KeysOf
    <3> QED
      BY <3>2, <3>3
  <2> QED
    BY <1>8, <2>1, <2>2 DEF PostToken
<1>9. ASSUME NEW r \in Run, OpenFile(r) \/ WriteFile(r) PROVE KeysOf(c)'
  <2>1. UNCHANGED <<issued, faults>>
    BY <1>9 DEF OpenFile, WriteFile
  <2>2. CASE C(r) # c
    <3>1. file'[c] = file[c]
      BY <1>1, <1>9, <2>2 DEF OpenFile, WriteFile, ControlInv, TypeOK
    <3>2. Idle
      BY <2>2 DEF OneRun, WritesTo
    <3> QED
      BY <1>3, <2>1, <3>1, <3>2 DEF Blank
  <2>3. CASE C(r) = c
    <3>1. ~(Blank(c)' /\ Idle')
      <4>1. CASE OpenFile(r)
        <5>1. pc'[r] = "write" /\ step' = step
          BY <4>1 DEF OpenFile, Goto, ControlInv, TypeOK
        <5> QED
          BY <2>3, <5>1 DEF WritesTo, C
      <4>2. CASE WriteFile(r)
        <5>1. val[r] \in Value /\ file'[c] = val[r]
          BY <1>1, <2>3, <4>2 DEF WriteFile, ControlInv, Control, ControlOf, TypeOK
        <5> QED
          BY <5>1, ValueFacts DEF Blank
      <4> QED
        BY <1>9, <4>1, <4>2
    <3> QED
      BY <1>3, <2>1, <3>1
  <2> QED
    BY <2>2, <2>3
<1>10. CASE UNCHANGED vars
  BY <1>3, <1>10 DEF vars, WritesTo, C, Blank
<1> QED
  BY <1>5, <1>7, <1>8, <1>9, <1>10 DEF Next, Step

\* While deploys run one at a time, create_enrollment_token leaves at most one
\* key behind for each interruption, however many there are.
THEOREM KeysStayBounded ==
  ASSUME OneRun
  PROVE  Spec => []EnrollmentKeysBounded
<1>1. ASSUME Init PROVE KeysInv
  <2>1. \A c \in Of("enroll") : issued[c] = {} /\ faults = 0
    BY <1>1, ScriptFacts DEF Init, Of
  <2> QED
    BY <2>1, FS_EmptySet DEF KeysInv, KeysOf
<1>2. ControlInv /\ StoreInv /\ KeysInv /\ [Next]_vars => KeysInv'
  BY KeysStep
<1>3. KeysInv => EnrollmentKeysBounded
  BY DEF KeysInv, KeysOf, EnrollmentKeysBounded
<1> QED
  BY <1>1, <1>2, <1>3, ControlAlways, StoreAlways, PTL DEF Spec

-----------------------------------------------------------------------------
(* What the stores promise, and what an interruption takes away for good.  *)

\* The controller's stores implement CredentialRegister: a step establishes or
\* mounts one credential, or changes nothing in the register.
THEOREM ImplementsRegister ==
  ASSUME OneRun
  PROVE  Spec => EstablishedOnce
<1> DEFINE value == [c \in Cred |-> IF file[c] \in Value THEN file[c] ELSE ABSENT]
<1>1. Init => Register!Init
  BY SentinelAssumption DEF Init, Register!Init, Value
<1>2. ASSUME ControlInv, StoreInv, [Next]_vars
      PROVE  [Register!Next]_<<value, podman>>
  <2> USE ScriptFacts, SentinelAssumption, <1>2
  <2>1. ASSUME NEW r \in Run, WriteFile(r) PROVE Register!Next
    <3>1. PICK c \in Cred : c = C(r)
      BY <2>1 DEF WriteFile, ControlInv, Control, ControlOf, Writing, At, C
    <3>2. val[r] \in Value /\ Blank(c)
      BY <2>1, <3>1 DEF WriteFile, ControlInv, Control, ControlOf, StoreInv, LocalOK,
                        Writing, Posting, Mounting, At
    <3>3. file' = [file EXCEPT ![c] = val[r]] /\ podman' = podman /\ file \in [Cred -> Content]
      BY <2>1, <3>1 DEF WriteFile, ControlInv, TypeOK
    <3>4. value[c] = ABSENT
      BY <3>2, BoundAssumption DEF Blank, Value
    <3>5. value'[c] = val[r] /\ value' = [value EXCEPT ![c] = val[r]]
      BY <3>2, <3>3
    <3> HIDE DEF value
    <3>6. /\ value[c] = ABSENT
          /\ value'[c] \in Value
          /\ value' = [value EXCEPT ![c] = value'[c]]
          /\ UNCHANGED podman
      BY <3>2, <3>3, <3>4, <3>5
    <3> USE DEF value
    <3>7. Register!Establish(c)
      BY <3>6 DEF Register!Establish
    <3> QED
      BY <3>7 DEF Register!Next
  <2>2. ASSUME NEW r \in Run, Create(r), podman' # podman PROVE Register!Next
    <3>1. PICK c \in Cred : c = C(r)
      BY <2>2 DEF Create, ControlInv, Control, ControlOf, Mounting, At, C
    <3>2. Register!Mount(c)
      BY <2>2, <3>1 DEF Create, ControlInv, TypeOK, Blank, Content, Register!Mount
    <3> QED
      BY <3>2 DEF Register!Next
  <2>3. ASSUME NEW r \in Run, OpenFile(r) PROVE UNCHANGED <<value, podman>>
    BY <2>3, BoundAssumption
       DEF OpenFile, ControlInv, TypeOK, Control, ControlOf, StoreInv, LocalOK,
           Writing, Posting, Mounting, Blank, At, C, Value, Content
  <2>4. ASSUME NEW r \in Run, Create(r), podman' = podman PROVE UNCHANGED <<value, podman>>
    BY <2>4 DEF Create
  <2>5. ASSUME UNCHANGED <<file, podman>> PROVE UNCHANGED <<value, podman>>
    BY <2>5
  <2>6. ASSUME NEW r \in Run,
               Start(r) \/ Finish(r) \/ EnsureSecret(r) \/ CreateToken(r) \/ PostToken(r)
                 \/ Chmod(r) \/ ReadSource(r) \/ Inspect(r) \/ OpenRecord(r)
                 \/ WriteRecord(r) \/ Compare(r) \/ OtherStep(r) \/ Interrupt(r) \/ InspectFails(r)
        PROVE  UNCHANGED <<file, podman>>
    BY <2>6 DEF Start, Finish, EnsureSecret, CreateToken, PostToken, Chmod, ReadSource,
                Inspect, OpenRecord, WriteRecord, Compare, OtherStep, Interrupt, InspectFails,
                stores
  <2>7. CASE UNCHANGED vars
    BY <2>5, <2>7 DEF vars
  <2> HIDE DEF value
  <2>8. CASE \E r \in Run : WriteFile(r) \/ Create(r)
    BY <2>1, <2>2, <2>4, <2>8
  <2>9. CASE ~\E r \in Run : WriteFile(r) \/ Create(r)
    <3>1. ASSUME NEW r \in Run, Step(r) \/ Interrupt(r) \/ InspectFails(r)
          PROVE  UNCHANGED <<value, podman>>
      <4>1. CASE OpenFile(r)
        BY <2>3, <4>1
      <4>2. CASE ~OpenFile(r)
        <5>1. UNCHANGED <<file, podman>>
          BY <2>6, <2>9, <3>1, <4>2 DEF Step
        <5> QED
          BY <2>5, <5>1
      <4> QED
        BY <4>1, <4>2
    <3> QED
      BY <2>7, <3>1 DEF Next
  <2> QED
    BY <2>8, <2>9
<1> QED
  BY <1>1, <1>2, ControlAlways, StoreAlways, PTL DEF Spec, EstablishedOnce, Register!Spec

-----------------------------------------------------------------------------
(* What no rerun repairs.                                                  *)

\* A Podman secret whose record is missing is never given one, with any runs.
LEMMA OrphanedSecretStays ==
  ASSUME ControlInv, NEW c \in Cred, OrphanedSecret(c), [Next]_vars
  PROVE  OrphanedSecret(c)'
<1> USE ScriptFacts DEF ControlInv, Control, ControlOf, TypeOK, Writing, Posting, Mounting,
                        OrphanedSecret, stores, C, At
<1>1. ASSUME NEW r \in Run, Start(r) PROVE OrphanedSecret(c)'
  BY <1>1 DEF Start, Goto
<1>2. ASSUME NEW r \in Run, Finish(r) PROVE OrphanedSecret(c)'
  BY <1>2 DEF Finish, Exit
<1>3. ASSUME NEW r \in Run, EnsureSecret(r) PROVE OrphanedSecret(c)'
  <2>1. ASSUME NEW v \in Value, Blank(C(r)), Doing(r, {"generate"}),
               Goto(r, "open", v), UNCHANGED <<stores, issued>>
        PROVE  OrphanedSecret(c)'
    BY <2>1 DEF Goto, Doing, Blank
  <2>2. CASE ~Blank(C(r)) /\ Goto(r, "chmod", ABSENT)
    BY <1>3, <2>2 DEF EnsureSecret, Goto, Blank
  <2>3. CASE ~Blank(C(r)) /\ Return(r)
    BY <1>3, <2>3 DEF EnsureSecret, Return, Blank, Doing
  <2> HIDE DEF Value
  <2> QED
    BY <1>3, <2>1, <2>2, <2>3 DEF EnsureSecret
<1>4. ASSUME NEW r \in Run, CreateToken(r) PROVE OrphanedSecret(c)'
  <2>1. CASE Blank(C(r)) /\ Goto(r, "post", ABSENT)
    BY <1>4, <2>1 DEF CreateToken, Goto, Blank
  <2>2. CASE ~Blank(C(r)) /\ Return(r)
    BY <1>4, <2>2 DEF CreateToken, Return, Doing, Blank
  <2> QED
    BY <1>4, <2>1, <2>2 DEF CreateToken
<1>5. ASSUME NEW r \in Run, PostToken(r) PROVE OrphanedSecret(c)'
  <2>1. CASE Exit(r) /\ UNCHANGED <<stores, issued>>
    BY <2>1 DEF Exit
  <2>2. ASSUME NEW v \in Value, Goto(r, "open", v), At(r, "post"), ~NameTaken(r),
               issued' = [issued EXCEPT ![C(r)] = @ \cup {v}],
               UNCHANGED stores
        PROVE  OrphanedSecret(c)'
    BY <2>2 DEF Goto, NameTaken, Doing
  <2> HIDE DEF Value
  <2> QED
    BY <1>5, <2>1, <2>2 DEF PostToken
<1>6. ASSUME NEW r \in Run, OpenFile(r) PROVE OrphanedSecret(c)'
  BY <1>6 DEF OpenFile, Goto
<1>7. ASSUME NEW r \in Run, WriteFile(r) PROVE OrphanedSecret(c)'
  BY <1>7 DEF WriteFile, Goto
<1>8. ASSUME NEW r \in Run, Chmod(r) PROVE OrphanedSecret(c)'
  BY <1>8 DEF Chmod, Return
<1>9. ASSUME NEW r \in Run, ReadSource(r) PROVE OrphanedSecret(c)'
  BY <1>9 DEF ReadSource, Goto, Digest
<1>10. ASSUME NEW r \in Run, Inspect(r) PROVE OrphanedSecret(c)'
  BY <1>10 DEF Inspect, Goto
<1>11. ASSUME NEW r \in Run, Create(r) PROVE OrphanedSecret(c)'
  <2>1. CASE Exit(r) /\ UNCHANGED <<stores, issued>>
    BY <2>1 DEF Exit
  <2>2. CASE /\ At(r, "create") /\ podman[C(r)] = ABSENT /\ ~Blank(C(r))
             /\ podman' = [podman EXCEPT ![C(r)] = file[C(r)]]
             /\ Goto(r, "open_record", val[r])
             /\ UNCHANGED <<file, private, record, issued>>
    BY <2>2 DEF Goto, Blank
  <2> QED
    BY <1>11, <2>1, <2>2 DEF Create
<1>12. ASSUME NEW r \in Run, OpenRecord(r) PROVE OrphanedSecret(c)'
  BY <1>12 DEF OpenRecord, Goto
<1>13. ASSUME NEW r \in Run, WriteRecord(r) PROVE OrphanedSecret(c)'
  BY <1>13 DEF WriteRecord, Return
<1>14. ASSUME NEW r \in Run, Compare(r) PROVE OrphanedSecret(c)'
  <2>1. CASE record[C(r)] = val[r] /\ Return(r)
    BY <1>14, <2>1 DEF Compare, Return
  <2>2. CASE Exit(r)
    BY <1>14, <2>2 DEF Compare, Exit
  <2> QED
    BY <1>14, <2>1, <2>2 DEF Compare
<1>15. ASSUME NEW r \in Run, Interrupt(r) PROVE OrphanedSecret(c)'
  BY <1>15 DEF Interrupt, Exit
<1>16. ASSUME NEW r \in Run, InspectFails(r) PROVE OrphanedSecret(c)'
  BY <1>16 DEF InspectFails, Goto
<1>17. CASE UNCHANGED vars
  BY <1>17 DEF vars
<1>18. ASSUME NEW r \in Run, OtherStep(r) PROVE OrphanedSecret(c)'
  <2>1. CASE Return(r)
    BY <1>18, <2>1 DEF OtherStep, Return
  <2>2. CASE Exit(r)
    BY <1>18, <2>2 DEF OtherStep, Exit
  <2> QED
    BY <1>18, <2>1, <2>2 DEF OtherStep
<1> QED
  BY <1>1, <1>2, <1>3, <1>4, <1>5, <1>6, <1>7, <1>8, <1>9, <1>10, <1>11,
     <1>12, <1>13, <1>14, <1>15, <1>16, <1>17, <1>18 DEF Next, Step

\* A service token that was issued and not stored is never issued again.
LEMMA OrphanedTokenStays ==
  ASSUME ControlInv, NEW c \in Cred, OrphanedToken(c), [Next]_vars
  PROVE  OrphanedToken(c)'
<1> USE ScriptFacts, OneOrigin
          DEF ControlInv, Control, ControlOf, TypeOK, Writing, Posting, Mounting, Tokens,
              OrphanedToken, Blank, stores, C, At
<1>1. ASSUME NEW r \in Run, Start(r) PROVE OrphanedToken(c)'
  BY <1>1 DEF Start, Goto
<1>2. ASSUME NEW r \in Run, Finish(r) PROVE OrphanedToken(c)'
  BY <1>2 DEF Finish, Exit
<1>3. ASSUME NEW r \in Run, EnsureSecret(r) PROVE OrphanedToken(c)'
  <2>1. ASSUME NEW v \in Value, Blank(C(r)), Doing(r, {"generate"}),
               Goto(r, "open", v), UNCHANGED <<stores, issued>>
        PROVE  OrphanedToken(c)'
    BY <2>1 DEF Goto, Doing, Blank
  <2>2. CASE ~Blank(C(r)) /\ Goto(r, "chmod", ABSENT)
    BY <1>3, <2>2 DEF EnsureSecret, Goto, Blank
  <2>3. CASE ~Blank(C(r)) /\ Return(r)
    BY <1>3, <2>3 DEF EnsureSecret, Return, Blank, Doing
  <2> HIDE DEF Value
  <2> QED
    BY <1>3, <2>1, <2>2, <2>3 DEF EnsureSecret
<1>4. ASSUME NEW r \in Run, CreateToken(r) PROVE OrphanedToken(c)'
  <2>1. CASE Blank(C(r)) /\ Goto(r, "post", ABSENT)
    BY <1>4, <2>1 DEF CreateToken, Goto, Blank
  <2>2. CASE ~Blank(C(r)) /\ Return(r)
    BY <1>4, <2>2 DEF CreateToken, Return, Doing, Blank
  <2> QED
    BY <1>4, <2>1, <2>2 DEF CreateToken
<1>5. ASSUME NEW r \in Run, PostToken(r) PROVE OrphanedToken(c)'
  <2>1. CASE Exit(r) /\ UNCHANGED <<stores, issued>>
    BY <2>1 DEF Exit
  <2>2. ASSUME NEW v \in Value, Goto(r, "open", v), At(r, "post"), ~NameTaken(r),
               issued' = [issued EXCEPT ![C(r)] = @ \cup {v}],
               UNCHANGED stores
        PROVE  OrphanedToken(c)'
    BY <2>2 DEF Goto, NameTaken, Doing
  <2> HIDE DEF Value
  <2> QED
    BY <1>5, <2>1, <2>2 DEF PostToken
<1>6. ASSUME NEW r \in Run, OpenFile(r) PROVE OrphanedToken(c)'
  BY <1>6 DEF OpenFile, Goto
<1>7. ASSUME NEW r \in Run, WriteFile(r) PROVE OrphanedToken(c)'
  BY <1>7 DEF WriteFile, Goto
<1>8. ASSUME NEW r \in Run, Chmod(r) PROVE OrphanedToken(c)'
  BY <1>8 DEF Chmod, Return
<1>9. ASSUME NEW r \in Run, ReadSource(r) PROVE OrphanedToken(c)'
  BY <1>9 DEF ReadSource, Goto, Digest
<1>10. ASSUME NEW r \in Run, Inspect(r) PROVE OrphanedToken(c)'
  BY <1>10 DEF Inspect, Goto
<1>11. ASSUME NEW r \in Run, Create(r) PROVE OrphanedToken(c)'
  <2>1. CASE Exit(r) /\ UNCHANGED <<stores, issued>>
    BY <2>1 DEF Exit
  <2>2. CASE /\ At(r, "create") /\ podman[C(r)] = ABSENT /\ ~Blank(C(r))
             /\ podman' = [podman EXCEPT ![C(r)] = file[C(r)]]
             /\ Goto(r, "open_record", val[r])
             /\ UNCHANGED <<file, private, record, issued>>
    BY <2>2 DEF Goto, Blank
  <2> QED
    BY <1>11, <2>1, <2>2 DEF Create
<1>12. ASSUME NEW r \in Run, OpenRecord(r) PROVE OrphanedToken(c)'
  BY <1>12 DEF OpenRecord, Goto
<1>13. ASSUME NEW r \in Run, WriteRecord(r) PROVE OrphanedToken(c)'
  BY <1>13 DEF WriteRecord, Return
<1>14. ASSUME NEW r \in Run, Compare(r) PROVE OrphanedToken(c)'
  <2>1. CASE record[C(r)] = val[r] /\ Return(r)
    BY <1>14, <2>1 DEF Compare, Return
  <2>2. CASE Exit(r)
    BY <1>14, <2>2 DEF Compare, Exit
  <2> QED
    BY <1>14, <2>1, <2>2 DEF Compare
<1>15. ASSUME NEW r \in Run, Interrupt(r) PROVE OrphanedToken(c)'
  BY <1>15 DEF Interrupt, Exit
<1>16. ASSUME NEW r \in Run, InspectFails(r) PROVE OrphanedToken(c)'
  BY <1>16 DEF InspectFails, Goto
<1>17. CASE UNCHANGED vars
  BY <1>17 DEF vars
<1>18. ASSUME NEW r \in Run, OtherStep(r) PROVE OrphanedToken(c)'
  <2>1. CASE Return(r)
    BY <1>18, <2>1 DEF OtherStep, Return
  <2>2. CASE Exit(r)
    BY <1>18, <2>2 DEF OtherStep, Exit
  <2> QED
    BY <1>18, <2>1, <2>2 DEF OtherStep
<1> QED
  BY <1>1, <1>2, <1>3, <1>4, <1>5, <1>6, <1>7, <1>8, <1>9, <1>10, <1>11,
     <1>12, <1>13, <1>14, <1>15, <1>16, <1>17, <1>18 DEF Next, Step

\* No later step of any run repairs an orphan.
THEOREM OrphansStay == Spec => OrphanedForever
<1>1. ASSUME ControlInv, [Next]_vars
      PROVE  \A c \in Cred : Orphaned(c) => Orphaned(c)'
  BY <1>1, OrphanedSecretStays, OrphanedTokenStays DEF Orphaned
<1> QED
  BY <1>1, ControlAlways, PTL DEF Spec, OrphanedForever
================================================================================
