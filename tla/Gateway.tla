------------------------------- MODULE Gateway -------------------------------
(***************************************************************************)
(* The gateway pipeline (gateway.service.ts): commands, inbound, routing,   *)
(* session load, media, agent turn, then per reply media and delivery, then *)
(* session save, with an await at every step and nothing that keeps two     *)
(* messages of one conversation apart.  Sessions live in the in-memory      *)
(* state store, whose Map is read and written when the call is made, before *)
(* its promise settles.                                                    *)
(*                                                                         *)
(* The other ports are their contracts (common/types/ports.ts): any answer  *)
(* of the type, or a rejection, which handleInbound does not catch.        *)
(***************************************************************************)
EXTENDS Naturals, Sequences

CONSTANTS
    Msgs,       \* messages the connectors hand to handleInbound
    Part,       \* what stands between the colons of an id; it has none itself
    Channel,    \* the channel id of each message, as the sequence of its parts
    ChatId,     \* its chat id, likewise: a WhatsApp JID may name a device, "7:2@lid"
    MaxReplies, \* bound: replies of one turn
    NoSession

\* A channel id is the name of its extension's folder (nestify-extension.ts): one part.
ASSUME GatewayAssumption ==
    /\ Channel \in [Msgs -> Seq(Part)] /\ \A m \in Msgs : Len(Channel[m]) = 1
    /\ ChatId \in [Msgs -> Seq(Part)]
    /\ {"agent", "main"} \subseteq Part
    /\ MaxReplies \in Nat
    /\ NoSession \notin Msgs

VARIABLES
    stage,   \* what the call for each message awaits
    seen,    \* the session its turn is given
    replies, \* the number of replies of its turn
    sent,    \* how many of them were handed to delivery, in their order
    store,   \* the saved session of each key, named by the message whose turn saved it
    known    \* history: had the conversation a session when the message came?

vars == <<stage, seen, replies, sent, store, known>>

Ended == {"done", "handled", "ignored", "failed"}
Stages == {"new", "commands", "inbound", "routing", "load", "media", "turn",
           "prepare", "deliver", "save"} \cup Ended

\* Mutant: the session key leaves out the channel.
SessionKeyOfChatId(m) == <<"agent", "main">> \o ChatId[m]

\* The session key: agent, its name, channel and chat id joined by colons, which does
\* not tell where one id ends and the next begins.
SessionKey(m) == <<"agent", "main">> \o Channel[m] \o ChatId[m]

Keys == {SessionKey(m) : m \in Msgs}

Init ==
    /\ stage = [m \in Msgs |-> "new"]
    /\ seen = [m \in Msgs |-> NoSession]
    /\ replies = [m \in Msgs |-> 0]
    /\ sent = [m \in Msgs |-> 0]
    /\ store = [k \in Keys |-> NoSession]
    /\ known = [m \in Msgs |-> FALSE]

Receive(m) ==
    /\ stage[m] = "new"
    /\ stage' = [stage EXCEPT ![m] = "commands"]
    /\ known' = [known EXCEPT ![m] = store[SessionKey(m)] # NoSession]
    /\ UNCHANGED <<seen, replies, sent, store>>

CommandsAnswered(m) ==
    /\ stage[m] = "commands"
    /\ \E next \in {"handled", "inbound"} : stage' = [stage EXCEPT ![m] = next]
    /\ UNCHANGED <<seen, replies, sent, store, known>>

\* "command" and "respond" are taken the same way.
Classified(m) ==
    /\ stage[m] = "inbound"
    /\ \E next \in {"ignored", "routing"} : stage' = [stage EXCEPT ![m] = next]
    /\ UNCHANGED <<seen, replies, sent, store, known>>

\* The route is known: the session is read at once.
Routed(m) ==
    /\ stage[m] = "routing"
    /\ stage' = [stage EXCEPT ![m] = "load"]
    /\ seen' = [seen EXCEPT ![m] = store[SessionKey(m)]]
    /\ UNCHANGED <<replies, sent, store, known>>

Loaded(m) ==
    /\ stage[m] = "load"
    /\ stage' = [stage EXCEPT ![m] = "media"]
    /\ UNCHANGED <<seen, replies, sent, store, known>>

MediaResolved(m) ==
    /\ stage[m] = "media"
    /\ stage' = [stage EXCEPT ![m] = "turn"]
    /\ UNCHANGED <<seen, replies, sent, store, known>>

\* Saving: the data that was read, or none, replaces the stored session.
Save(m) ==
    /\ stage' = [stage EXCEPT ![m] = "save"]
    /\ store' = [store EXCEPT ![SessionKey(m)] = m]

\* The turn ends: its first reply is prepared or, without one, the session is saved.
TurnEnded(m) ==
    /\ stage[m] = "turn"
    /\ \E n \in 0..MaxReplies :
          /\ replies' = [replies EXCEPT ![m] = n]
          /\ IF n > 0
             THEN stage' = [stage EXCEPT ![m] = "prepare"] /\ UNCHANGED store
             ELSE Save(m)
    /\ UNCHANGED <<seen, sent, known>>

Prepared(m) ==
    /\ stage[m] = "prepare"
    /\ stage' = [stage EXCEPT ![m] = "deliver"]
    /\ sent' = [sent EXCEPT ![m] = @ + 1]
    /\ UNCHANGED <<seen, replies, store, known>>

\* Mutant: the session is saved after the first delivery.
SaveAfterFirst(m) ==
    /\ stage[m] = "deliver"
    /\ Save(m)
    /\ UNCHANGED <<seen, replies, sent, known>>

\* A reply is delivered: the next one is prepared, or the session is saved.
Delivered(m) ==
    /\ stage[m] = "deliver"
    /\ IF sent[m] < replies[m]
       THEN stage' = [stage EXCEPT ![m] = "prepare"] /\ UNCHANGED store
       ELSE Save(m)
    /\ UNCHANGED <<seen, replies, sent, known>>

Saved(m) ==
    /\ stage[m] = "save"
    /\ stage' = [stage EXCEPT ![m] = "done"]
    /\ UNCHANGED <<seen, replies, sent, store, known>>

\* Mutant: a turn that fails takes its session along.
RejectsResets(m) ==
    /\ stage[m] \notin Ended \cup {"new"}
    /\ stage' = [stage EXCEPT ![m] = "failed"]
    /\ store' = [store EXCEPT ![SessionKey(m)] = NoSession]
    /\ UNCHANGED <<seen, replies, sent, known>>

\* A port rejects, and with it handleInbound.
Rejects(m) ==
    /\ stage[m] \notin Ended \cup {"new"}
    /\ stage' = [stage EXCEPT ![m] = "failed"]
    /\ UNCHANGED <<seen, replies, sent, store, known>>

Next ==
    \E m \in Msgs :
        \/ Receive(m) \/ CommandsAnswered(m) \/ Classified(m)
        \/ Routed(m) \/ Loaded(m) \/ MediaResolved(m) \/ TurnEnded(m)
        \/ Prepared(m) \/ Delivered(m) \/ Saved(m) \/ Rejects(m)

Spec == Init /\ [][Next]_vars

-----------------------------------------------------------------------------
(* Properties *)

TypeOK ==
    /\ stage \in [Msgs -> Stages]
    /\ seen \in [Msgs -> Msgs \cup {NoSession}]
    /\ replies \in [Msgs -> 0..MaxReplies]
    /\ sent \in [Msgs -> 0..MaxReplies]
    /\ \A m \in Msgs : sent[m] <= replies[m]
    /\ store \in [Keys -> Msgs \cup {NoSession}]
    /\ known \in [Msgs -> BOOLEAN]

\* A session names a message as its last only when every reply of that message was
\* handed to delivery: a turn that failed halfway is never taken for an answered one.
SavedMeansAnswered ==
    \A k \in Keys : store[k] # NoSession =>
        LET m == store[k] IN sent[m] = replies[m] /\ stage[m] \in {"save", "done", "failed"}

SameChat(m, n) == Channel[m] = Channel[n] /\ ChatId[m] = ChatId[n]

\* A turn is given the session that an earlier turn of its own conversation saved, and
\* that conversation has one still: conversations of two channels or of two chats do not
\* mix, though the ids that the key joins by colons have colons themselves.
SessionOfOwnChat ==
    \A m \in Msgs : seen[m] # NoSession =>
        /\ seen[m] # m
        /\ SameChat(seen[m], m)
        /\ store[SessionKey(m)] # NoSession

\* A conversation that had a session when a message came is never new to its turn.
ConversationIsRemembered ==
    \A m \in Msgs : known[m] /\ stage[m] \in {"turn", "prepare", "deliver", "save"} => seen[m] # NoSession
=============================================================================
