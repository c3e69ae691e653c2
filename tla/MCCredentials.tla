----------------------------- MODULE MCCredentials -----------------------------
(* A script for model checking Credentials on its own.                     *)
EXTENDS Credentials

CONSTANT ElasticPassword

Do(op, c) == [op |-> op, cred |-> c]

PasswordScript == <<Do("generate", ElasticPassword), Do("mount", ElasticPassword)>>
PasswordCred == {ElasticPassword}
================================================================================
