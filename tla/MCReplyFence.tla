----------------------------- MODULE MCReplyFence -----------------------------
(* Instances of ReplyFence for TLC. *)
EXTENDS ReplyFence

CONSTANTS d1, d2, d3, lane1, lane2, chat1

ThreeDispatches == {d1, d2, d3}
SomeLanes == {lane1, lane2}
=============================================================================
