------------------------------ MODULE MCReadiness ------------------------------
(* Small budgets for model checking Readiness; the checks keep the code's  *)
(* order of sizes (Kibana and the Fleet Server wait longer).               *)
EXTENDS Readiness

SmallAttempts ==
  [c \in Check |-> IF c \in {"Kibana", "Fleet Server"} THEN 3 ELSE 2]
================================================================================
