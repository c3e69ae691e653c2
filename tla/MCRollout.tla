------------------------------- MODULE MCRollout -------------------------------
(* Two services for model checking Rollout: Kibana, which has a certificate *)
(* and a configuration, and the Agent, which has neither but an entrypoint  *)
(* of its own, and needs Kibana (by way of the Fleet Server).               *)
EXTENDS Rollout

TwoOrder == <<"kibana", "agent">>
TwoRequires == [s \in Service |-> IF s = "agent" THEN {"kibana"} ELSE {}]
TwoHas ==
  [s \in Service |->
     IF s = "kibana" THEN Slot \ {"script"} ELSE {"ca", "proxy", "script", "unit"}]
================================================================================
