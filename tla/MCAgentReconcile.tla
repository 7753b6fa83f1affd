-------------------------- MODULE MCAgentReconcile --------------------------
(* An instance of AgentReconcile for TLC: two containers that share a      *)
(* hostname, one enabled service and one static hostname.                  *)
EXTENDS AgentReconcile

CONSTANTS h1, h2, c1, c2, s1

TwoHosts == {h1, h2}
TwoContainers == <<c1, c2>>
OneService == <<s1>>
OverlappingLabels == [c \in {c1, c2} |-> IF c = c1 THEN {h1, h2} ELSE {h1}]
StaticOne == {h2}

=============================================================================
