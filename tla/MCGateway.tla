------------------------------ MODULE MCGateway ------------------------------
(* Two messages of one conversation, one of a chat whose id is a prefix of its id, and *)
(* one of a chat of that id in another channel.                                        *)
EXTENDS Gateway, TLC

CONSTANTS m1, m2, m3, m4

MCMsgs == {m1, m2, m3, m4}
MCParts == {"agent", "main", "whatsapp", "telegram", "7", "2@lid"}
MCChannel == [m \in MCMsgs |-> IF m = m4 THEN <<"telegram">> ELSE <<"whatsapp">>]
MCChatId == [m \in MCMsgs |-> IF m = m3 THEN <<"7">> ELSE <<"7", "2@lid">>]
=============================================================================
