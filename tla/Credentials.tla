------------------------------ MODULE Credentials ------------------------------
(***************************************************************************)
(* How elkctl's deploy establishes the credentials of the stack: the       *)
(* protected files under the secrets root, the Podman secrets made from    *)
(* them, and the hash records that tell a later run that a Podman secret   *)
(* is still the one it made.  The other steps of deploy are module         *)
(* Deploy's; here they succeed or fail.                                    *)
(*                                                                         *)
(* A run of deploy takes the steps of Script in order and can die between  *)
(* any two of them: a signal, an OSError, an HTTP error, a failed or       *)
(* timed-out command all end the process where it stands.  The operator    *)
(* then runs deploy again, from the start.  Nothing locks one run out      *)
(* while another is active, so Run may have several members.               *)
(*                                                                         *)
(* Values are numbers: a draw takes the first one that nothing holds, and  *)
(* nothing else about a value matters here.                                *)
(***************************************************************************)
EXTENDS Naturals, Sequences, FiniteSets

CONSTANTS
  Run,       \* the elkctl processes that may be active together
  Cred,      \* the credentials
  Script,    \* deploy's steps: a sequence of [op, cred]
  ABSENT,    \* no such file, Podman secret or record
  EMPTY,     \* a file that was opened for writing and not written yet
  MaxValue,  \* bound: how many values there are; enough for one in each place
  MaxFaults  \* bound: how many interruptions a behaviour has

Origin == {"generate", "service", "enroll"}

\* The steps that establish no credential; module Deploy says what they do.
Other == {"host", "install", "elasticsearch", "keystore", "entry", "kibana"}

Op == Origin \cup {"mount"} \cup Other

ASSUME SentinelAssumption == ABSENT # EMPTY /\ ABSENT \notin Nat /\ EMPTY \notin Nat

ASSUME BoundAssumption == MaxFaults \in Nat /\ MaxValue \in Nat

\* deploy reads a file only after the step that makes it, and a credential has
\* one origin: the random generator, Elasticsearch, or Kibana.
ASSUME ScriptAssumption ==
  /\ Script \in Seq([op : Op, cred : Cred])
  /\ \A i \in DOMAIN Script : Script[i].op = "mount" =>
       \E j \in 1..(i - 1) : Script[j].op \in Origin /\ Script[j].cred = Script[i].cred
  /\ \A i, j \in DOMAIN Script :
       (Script[i].cred = Script[j].cred /\ {Script[i].op, Script[j].op} \subseteq Origin)
         => Script[i].op = Script[j].op

VARIABLES
  file,     \* file[c]: content of the protected file
  private,  \* private[c]: the file has mode 0600
  podman,   \* podman[c]: content of the Podman secret
  record,   \* record[c]: the digest in the hash record
  issued,   \* issued[c]: the tokens the service has handed out under c's name
  pc,       \* pc[r]: where r stands within its step
  step,     \* step[r]: the step of Script r is at
  val,      \* val[r]: what r holds in a local: the secret, the token, the digest
  faults    \* interruptions so far

stores == <<file, private, podman, record>>
vars == <<file, private, podman, record, issued, pc, step, val, faults>>

Value == 1..MaxValue
Content == Value \cup {ABSENT, EMPTY}
Label == {"idle", "next", "open", "write", "chmod", "post",
          "inspect", "create", "open_record", "write_record", "compare"}

\* The digest of an empty file is a digest like any other: it is number 0.
Digest(content) == IF content = EMPTY THEN 0 ELSE content

Init ==
  /\ file = [c \in Cred |-> ABSENT]
  /\ private = [c \in Cred |-> FALSE]
  /\ podman = [c \in Cred |-> ABSENT]
  /\ record = [c \in Cred |-> ABSENT]
  /\ issued = [c \in Cred |-> {}]
  /\ pc = [r \in Run |-> "idle"]
  /\ step = [r \in Run |-> 1]
  /\ val = [r \in Run |-> ABSENT]
  /\ faults = 0

-----------------------------------------------------------------------------
(* The control of one run.                                                 *)

At(r, label) == pc[r] = label
Doing(r, ops) == step[r] \in DOMAIN Script /\ Script[step[r]].op \in ops
C(r) == Script[step[r]].cred

Goto(r, label, local) ==
  /\ pc' = [pc EXCEPT ![r] = label]
  /\ val' = [val EXCEPT ![r] = local]
  /\ UNCHANGED step

Return(r) ==
  /\ pc' = [pc EXCEPT ![r] = "next"]
  /\ step' = [step EXCEPT ![r] = @ + 1]
  /\ val' = [val EXCEPT ![r] = ABSENT]

Exit(r) ==
  /\ pc' = [pc EXCEPT ![r] = "idle"]
  /\ step' = [step EXCEPT ![r] = 1]
  /\ val' = [val EXCEPT ![r] = ABSENT]

Start(r) ==
  /\ At(r, "idle")
  /\ Goto(r, "next", ABSENT)
  /\ UNCHANGED <<stores, issued, faults>>

Finish(r) ==
  /\ At(r, "next")
  /\ step[r] = Len(Script) + 1
  /\ Exit(r)
  /\ UNCHANGED <<stores, issued, faults>>

\* The process dies, whatever it was doing; what it wrote stays.
Interrupt(r) ==
  /\ ~At(r, "idle")
  /\ faults < MaxFaults
  /\ faults' = faults + 1
  /\ Exit(r)
  /\ UNCHANGED <<stores, issued>>

-----------------------------------------------------------------------------
(* ensure_secret, create_service_token, create_enrollment_token.           *)

\* Mutant: an empty file passes for a written one.
BlankIgnoringSize(c) == file[c] = ABSENT

Blank(c) == file[c] \in {ABSENT, EMPTY}

InUse ==
  UNION {{file[c], podman[c], record[c]} \cup issued[c] : c \in Cred}
    \cup {val[r] : r \in Run}

Fresh(v) == LET free == Value \ InUse IN v \in free /\ \A w \in free : v <= w

\* Mutants of EnsureSecret: a secret is drawn on every run; an empty file is
\* kept; the mode of an existing file is not looked at.
EnsureSecretAnew(r) ==
  /\ At(r, "next") /\ Doing(r, {"generate"})
  /\ \E v \in Value : Fresh(v) /\ Goto(r, "open", v)
  /\ UNCHANGED <<stores, issued, faults>>

EnsureSecretKeepingEmpty(r) ==
  /\ At(r, "next") /\ Doing(r, {"generate"})
  /\ IF file[C(r)] = ABSENT
       THEN \E v \in Value : Fresh(v) /\ Goto(r, "open", v)
       ELSE Goto(r, "chmod", ABSENT)
  /\ UNCHANGED <<stores, issued, faults>>

EnsureSecretIgnoringMode(r) ==
  /\ At(r, "next") /\ Doing(r, {"generate"})
  /\ IF Blank(C(r)) THEN \E v \in Value : Fresh(v) /\ Goto(r, "open", v) ELSE Return(r)
  /\ UNCHANGED <<stores, issued, faults>>

EnsureSecret(r) ==
  /\ At(r, "next") /\ Doing(r, {"generate"})
  /\ \/ Blank(C(r)) /\ \E v \in Value : Fresh(v) /\ Goto(r, "open", v)
     \/ ~Blank(C(r)) /\ ~private[C(r)] /\ Goto(r, "chmod", ABSENT)
     \/ ~Blank(C(r)) /\ private[C(r)] /\ Return(r)
  /\ UNCHANGED <<stores, issued, faults>>

\* Mutant: an enrollment key is asked for on every run.
CreateTokenAnew(r) ==
  /\ At(r, "next") /\ Doing(r, {"service", "enroll"})
  /\ IF Blank(C(r)) \/ Doing(r, {"enroll"}) THEN Goto(r, "post", ABSENT) ELSE Return(r)
  /\ UNCHANGED <<stores, issued, faults>>

CreateToken(r) ==
  /\ At(r, "next") /\ Doing(r, {"service", "enroll"})
  /\ IF Blank(C(r)) THEN Goto(r, "post", ABSENT) ELSE Return(r)
  /\ UNCHANGED <<stores, issued, faults>>

\* Mutant: the token name is not the same on every run.
NameNeverTaken(r) == FALSE

\* Elasticsearch refuses a second service token of the same name; Kibana
\* makes a new enrollment key each time.
NameTaken(r) == Doing(r, {"service"}) /\ issued[C(r)] # {}

PostToken(r) ==
  /\ At(r, "post")
  /\ \/ NameTaken(r) /\ Exit(r) /\ UNCHANGED issued
     \/ /\ ~NameTaken(r)
        /\ \E v \in Value :
             /\ Fresh(v)
             /\ issued' = [issued EXCEPT ![C(r)] = @ \cup {v}]
             /\ Goto(r, "open", v)
  /\ UNCHANGED <<stores, faults>>

\* write_text truncates the file or creates it, with the mode of the umask.
OpenFile(r) ==
  /\ At(r, "open")
  /\ private' = [private EXCEPT ![C(r)] = @ /\ file[C(r)] # ABSENT]
  /\ file' = [file EXCEPT ![C(r)] = EMPTY]
  /\ Goto(r, "write", val[r])
  /\ UNCHANGED <<podman, record, issued, faults>>

WriteFile(r) ==
  /\ At(r, "write")
  /\ file' = [file EXCEPT ![C(r)] = val[r]]
  /\ Goto(r, "chmod", ABSENT)
  /\ UNCHANGED <<private, podman, record, issued, faults>>

Chmod(r) ==
  /\ At(r, "chmod")
  /\ private' = [private EXCEPT ![C(r)] = TRUE]
  /\ Return(r)
  /\ UNCHANGED <<file, podman, record, issued, faults>>

-----------------------------------------------------------------------------
(* ensure_podman_secret.                                                   *)

ReadSource(r) ==
  /\ At(r, "next") /\ Doing(r, {"mount"})
  /\ Goto(r, "inspect", Digest(file[C(r)]))
  /\ UNCHANGED <<stores, issued, faults>>

Inspect(r) ==
  /\ At(r, "inspect")
  /\ Goto(r, IF podman[C(r)] = ABSENT THEN "create" ELSE "compare", val[r])
  /\ UNCHANGED <<stores, issued, faults>>

\* Every nonzero exit of the inspection is read as "no such secret".
InspectFails(r) ==
  /\ At(r, "inspect")
  /\ faults < MaxFaults
  /\ faults' = faults + 1
  /\ Goto(r, "create", val[r])
  /\ UNCHANGED <<stores, issued>>

\* Podman reads the file itself, now; it refuses an empty one and a name in use.
Create(r) ==
  /\ At(r, "create")
  /\ \/ (podman[C(r)] # ABSENT \/ Blank(C(r))) /\ Exit(r) /\ UNCHANGED podman
     \/ /\ podman[C(r)] = ABSENT /\ ~Blank(C(r))
        /\ podman' = [podman EXCEPT ![C(r)] = file[C(r)]]
        /\ Goto(r, "open_record", val[r])
  /\ UNCHANGED <<file, private, record, issued, faults>>

OpenRecord(r) ==
  /\ At(r, "open_record")
  /\ record' = [record EXCEPT ![C(r)] = EMPTY]
  /\ Goto(r, "write_record", val[r])
  /\ UNCHANGED <<file, private, podman, issued, faults>>

WriteRecord(r) ==
  /\ At(r, "write_record")
  /\ record' = [record EXCEPT ![C(r)] = val[r]]
  /\ Return(r)
  /\ UNCHANGED <<file, private, podman, issued, faults>>

\* Mutants of Compare: any record will do; a missing record is written anew.
CompareExistence(r) ==
  /\ At(r, "compare")
  /\ IF record[C(r)] # ABSENT THEN Return(r) ELSE Exit(r)
  /\ UNCHANGED <<stores, issued, faults>>

CompareOrRecord(r) ==
  /\ At(r, "compare")
  /\ CASE record[C(r)] = val[r] -> Return(r)
       [] record[C(r)] = ABSENT -> Goto(r, "open_record", val[r])
       [] OTHER -> Exit(r)
  /\ UNCHANGED <<stores, issued, faults>>

Compare(r) ==
  /\ At(r, "compare")
  /\ IF record[C(r)] = val[r] THEN Return(r) ELSE Exit(r)
  /\ UNCHANGED <<stores, issued, faults>>

-----------------------------------------------------------------------------
OtherStep(r) ==
  /\ At(r, "next") /\ Doing(r, Other)
  /\ Return(r) \/ Exit(r)
  /\ UNCHANGED <<stores, issued, faults>>

Step(r) ==
  \/ Start(r) \/ Finish(r)
  \/ EnsureSecret(r) \/ CreateToken(r) \/ PostToken(r)
  \/ OpenFile(r) \/ WriteFile(r) \/ Chmod(r)
  \/ ReadSource(r) \/ Inspect(r) \/ Create(r)
  \/ OpenRecord(r) \/ WriteRecord(r) \/ Compare(r)
  \/ OtherStep(r)

Next == \E r \in Run : Step(r) \/ Interrupt(r) \/ InspectFails(r)

Spec == Init /\ [][Next]_vars

\* A process that is alive takes its next step, and the operator runs deploy
\* again after it ended.  Interruptions are never forced.
FairSpec == Spec /\ \A r \in Run : WF_vars(Step(r))

-----------------------------------------------------------------------------
(* Types, and what a run may rely on.                                      *)

\* Every variable holds what the code can store there.
TypeOK ==
  /\ file \in [Cred -> Content]
  /\ private \in [Cred -> BOOLEAN]
  /\ podman \in [Cred -> Value \cup {ABSENT}]
  /\ record \in [Cred -> Nat \cup {ABSENT, EMPTY}]
  /\ issued \in [Cred -> SUBSET Value]
  /\ pc \in [Run -> Label]
  /\ step \in [Run -> 1..(Len(Script) + 1)]
  /\ val \in [Run -> Nat \cup {ABSENT}]
  /\ faults \in 0..MaxFaults

Of(op) == {Script[i].cred : i \in {j \in DOMAIN Script : Script[j].op = op}}
Passed(r, op) == {Script[i].cred : i \in {j \in 1..(step[r] - 1) : Script[j].op = op}}

\* A container that mounts a Podman secret is given what the controller reads
\* from the protected file: ensure_podman_secret never leaves the two apart.
SecretAgrees == \A c \in Cred : podman[c] # ABSENT => file[c] = podman[c]

\* The same for the service tokens alone.  Elasticsearch's unique token names
\* serialise concurrent deploys there, so this does not need a lock.
ServiceTokenAgrees ==
  \A c \in Of("service") : podman[c] # ABSENT => file[c] = podman[c]

\* When ensure_podman_secret has returned, the file, the Podman secret and the
\* record agree, whatever interruptions and earlier runs came before.
MountMeansConsistent ==
  \A r \in Run : \A c \in Passed(r, "mount") :
    podman[c] \in Value /\ record[c] = podman[c] /\ file[c] = podman[c]

\* A token file never holds a token its service did not hand out, so a
\* service that reads it is authenticated.
TokenIssued ==
  \A c \in Of("service") \cup Of("enroll") : file[c] \in Value => file[c] \in issued[c]

\* When ensure_secret has returned the file has mode 0600, also when the run
\* that wrote it died before its chmod.
ProtectedOnReturn == \A r \in Run : \A c \in Passed(r, "generate") : private[c]

\* create_enrollment_token leaves at most one unused key behind for each
\* interruption: a run that finds the file filled asks for no other key.
EnrollmentKeysBounded ==
  \A c \in Of("enroll") : Cardinality(issued[c]) <= faults + 1

-----------------------------------------------------------------------------
(* The promise this implements.                                            *)

Register == INSTANCE CredentialRegister WITH
  NONE <- ABSENT,
  value <- [c \in Cred |-> IF file[c] \in Value THEN file[c] ELSE ABSENT],
  mounted <- podman

\* Whatever is interrupted, an established credential is reused and never
\* replaced, and a container is only ever given the established value.
EstablishedOnce == Register!Spec

-----------------------------------------------------------------------------
(* Reruns: what an interruption can leave behind for good.                 *)

\* A Podman secret without its record: the run died between the two writes.
OrphanedSecret(c) ==
  /\ podman[c] # ABSENT
  /\ record[c] # podman[c]
  /\ ~\E r \in Run : pc[r] \in {"open_record", "write_record"} /\ C(r) = c

\* A service token whose answer was lost: its name is taken, its file blank.
OrphanedToken(c) ==
  /\ c \in Of("service")
  /\ issued[c] # {}
  /\ Blank(c)
  /\ ~\E r \in Run : pc[r] \in {"open", "write"} /\ C(r) = c

Orphaned(c) == OrphanedSecret(c) \/ OrphanedToken(c)

Ready(c) ==
  /\ file[c] \in Value
  /\ c \in Of("mount") => podman[c] = file[c] /\ record[c] = file[c]

\* No step of deploy repairs an orphan: the documented way out is an operator
\* who removes the Podman secret or the token by hand.
OrphanedForever == [][\A c \in Cred : Orphaned(c) => Orphaned(c)']_vars

\* "The command is rerunnable after an interruption"
\* (docs/getting-started/first-deployment.md): every credential becomes ready.
Rerunnable == \A c \in Cred : <>[]Ready(c)
================================================================================
