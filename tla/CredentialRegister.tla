-------------------------- MODULE CredentialRegister --------------------------
(***************************************************************************)
(* What the credential handling of elkctl promises, without its mechanism: *)
(* every credential is established at most once, is never replaced, and    *)
(* the copy a container mounts is the established value.  The docs call    *)
(* this "existing protected secrets are reused".  Module Credentials       *)
(* implements it as long as one deploy runs at a time.                     *)
(***************************************************************************)
CONSTANTS
  Cred,    \* the credentials of the deployment
  Value,   \* the values a credential can take
  NONE     \* not established yet, or not mounted yet

VARIABLES
  value,   \* value[c]: what the controller and the services agreed on
  mounted  \* mounted[c]: what a container that mounts c is given

Init ==
  /\ value = [c \in Cred |-> NONE]
  /\ mounted = [c \in Cred |-> NONE]

Establish(c) ==
  /\ value[c] = NONE
  /\ value'[c] \in Value
  /\ value' = [value EXCEPT ![c] = value'[c]]
  /\ UNCHANGED mounted

Mount(c) ==
  /\ mounted[c] = NONE
  /\ value[c] # NONE
  /\ mounted' = [mounted EXCEPT ![c] = value[c]]
  /\ UNCHANGED value

Next == \E c \in Cred : Mount(c) \/ Establish(c)

Spec == Init /\ [][Next]_<<value, mounted>>
================================================================================
