------------------------------ MODULE MCFleet -------------------------------
(* An instance of Fleet for TLC: one rival that wants the same hostname,   *)
(* and a hostname outside the policy.                                      *)
EXTENDS Fleet

CONSTANTS h1, x1, r1

BothHosts == {h1, x1}
PolicyHosts == {h1}
OneRival == {r1}

=============================================================================
