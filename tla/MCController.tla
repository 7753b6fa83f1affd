---------------------------- MODULE MCController ----------------------------
(***************************************************************************)
(* Small instances of Controller for TLC.                                  *)
(***************************************************************************)
EXTENDS Controller, TLC

CONSTANTS a1, a2, x1, x2, h1, q1, q2

OneAgent == {a1}
TwoAgents == {a1, a2}
OneAddrEach == {x1, x2}
AgentOneAddrs == {x1}
OneHost == {h1}
TwoReqs == {q1, q2}

\* x1 is an address of agent a1, x2 of agent a2.
NodeOfBoth == (x1 :> a1) @@ (x2 :> a2)
NodeOfOne == (x1 :> a1)

\* Sound for the invariants and action properties: requests are
\* interchangeable.
Symmetry == Permutations(Reqs)

=============================================================================
