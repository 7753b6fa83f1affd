---------------------------- MODULE MCEnrollment ----------------------------
(***************************************************************************)
(* A small instance of Enrollment for TLC: one token pasted into the       *)
(* configuration of two nodes.                                             *)
(***************************************************************************)
EXTENDS Enrollment

CONSTANTS n1, n2, t1

TwoNodes == {n1, n2}
OneToken == {t1}
SharedToken == [n \in Nodes |-> t1]

=============================================================================
