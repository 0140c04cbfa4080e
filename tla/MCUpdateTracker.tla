--------------------------- MODULE MCUpdateTracker ---------------------------
(* Instances of UpdateTracker for TLC. *)
EXTENDS UpdateTracker

Ids == 1..4
FromScratchOrTwo == {NoId, 2}
=============================================================================
