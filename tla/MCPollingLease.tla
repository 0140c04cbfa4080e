---------------------------- MODULE MCPollingLease ----------------------------
(* Instances of PollingLease for TLC: pollers of two accounts with one token. *)
EXTENDS PollingLease

CONSTANTS p1, p2, p3

ThreePollers == {p1, p2, p3}
TwoAccounts == [p \in ThreePollers |-> IF p = p1 THEN "first" ELSE "second"]
=============================================================================
