----------------------------- MODULE MCActiveRuns -----------------------------
(* Instances of ActiveRuns for TLC. *)
EXTENDS ActiveRuns, TLC

CONSTANTS r1, r2, r3, s1, s2, k1, f1, f2

\* The session of the key was reset after two runs: a new id under the same key.
ResetSession == (r1 :> s1) @@ (r2 :> s1) @@ (r3 :> s2)
OneKey == [h \in Runs |-> k1]
TwoFiles == (r1 :> f1) @@ (r2 :> f1) @@ (r3 :> f2)

\* Two runs of the same session, key and transcript.
RunsAlike == Permutations({r1, r2})
=============================================================================
