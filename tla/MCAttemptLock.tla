----------------------------- MODULE MCAttemptLock -----------------------------
(* Instances of AttemptLock for TLC. *)
EXTENDS AttemptLock

CONSTANTS a1, a2, w1, w2

First == [a \in Attempts |-> IF a = a1 THEN 1 ELSE 0]
Of1 == [w \in Writers |-> a1]
=============================================================================
