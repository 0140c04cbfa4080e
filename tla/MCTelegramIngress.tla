-------------------------- MODULE MCTelegramIngress --------------------------
(* Instances of TelegramIngress for TLC. *)
EXTENDS TelegramIngress

TwoIds == 1..2
ThreeIds == 1..3
TwoTogether == [u \in TwoIds |-> "chat"]
TwoApart == [u \in TwoIds |-> IF u = 1 THEN "other chat" ELSE "chat"]
TwoLanes == [u \in ThreeIds |-> IF u = 1 THEN "other chat" ELSE "chat"]
=============================================================================
