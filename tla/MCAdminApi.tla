----------------------------- MODULE MCAdminApi -----------------------------
(* An instance of AdminApi for TLC.  The identities of containers are      *)
(* interchangeable, and so are the tokens.                                 *)
EXTENDS AdminApi, TLC

CONSTANTS k1, k2, t1, t2

BothKeys == {k1, k2}
BothTokens == {t1, t2}
Symmetry ==
  {p @@ q : p \in Permutations(BothKeys), q \in Permutations(BothTokens)}

=============================================================================
