------------------------------ MODULE MCPreflight ------------------------------
(* Two services for model checking Preflight: the one whose certificate    *)
(* must be good for clients, and one whose need not.                       *)
EXTENDS Preflight

\* Every single thing that can be wrong, and pairs that one of the early returns
\* could let hide each other.
OneOrTwo ==
  {{}} \cup {{c} : c \in {d \in Check : ~IsPort(d)}}
    \cup {{<<"elasticsearch", "chain">>, d} :
            d \in {<<"elasticsearch", "mode">>, <<"elasticsearch", "pair">>,
                   <<"kibana", "files">>, <<"supply", "proxy_ca">>}}
    \cup {{<<"network", "resolves">>, <<"network", "ipv4">>},
          {<<"run", "commands">>, <<"host", "podman">>}}
================================================================================
