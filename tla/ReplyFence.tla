------------------------------ MODULE ReplyFence ------------------------------
(***************************************************************************)
(* The Telegram reply fence (telegram-reply-fence.ts) and the dispatches    *)
(* that use it (bot-message-dispatch.ts): a newer accepted turn, or a lane  *)
(* whose handler timed out, supersedes reply work under way in the session; *)
(* side questions get a fence of their own below the session's and          *)
(* interrupt nothing.                                                       *)
(*                                                                         *)
(* A fence is kept by the dispatches running under its key and by the abort *)
(* controllers of queued follow-ups; without either it is dropped, and its  *)
(* generation starts again from 0.  Every operation of the fence runs       *)
(* without an await.                                                        *)
(***************************************************************************)
EXTENDS Naturals, FiniteSets

CONSTANTS
    Dispatches,  \* message dispatches
    ChatKeys,    \* session keys
    FenceLanes,  \* sequential lanes, with their account
    NoLane,      \* the lane of a key that interrupts
    MaxTimeouts  \* bound: handler timeouts

ASSUME FenceAssumption ==
    /\ IsFiniteSet(Dispatches)
    /\ NoLane \notin FenceLanes
    /\ MaxTimeouts \in Nat

\* A session's fence, that of its room events, and below each of them one fence for
\* the non-interrupting dispatches of each lane.
FenceKeys == [chat : ChatKeys, room : BOOLEAN, lane : FenceLanes \cup {NoLane}]
RootKey(chat, room) == [chat |-> chat, room |-> room, lane |-> NoLane]
IsRoot(k) == k.lane = NoLane
Family(k) == {k} \cup {c \in FenceKeys : IsRoot(k) /\ ~IsRoot(c) /\ c.chat = k.chat /\ c.room = k.room}

NoFence == [generation |-> 0, active |-> 0, controllers |-> {}, lanes |-> {}]

VARIABLES
    byKey,    \* telegramReplyFenceByKey: the fence of each key, NoFence if absent
    byLane,   \* telegramReplyFenceKeysByLane
    aborted,  \* dispatches whose abort controller has fired
    dispatch, \* each dispatch: its stage, key, lane, generation and follow-up
    timeouts  \* what is left of MaxTimeouts

vars == <<byKey, byLane, aborted, dispatch, timeouts>>

Idle == [stage |-> "idle", key |-> RootKey(CHOOSE c \in ChatKeys : TRUE, FALSE),
         lane |-> NoLane, generation |-> 0, followup |-> "none"]

Init ==
    /\ byKey = [k \in FenceKeys |-> NoFence]
    /\ byLane = [l \in FenceLanes |-> {}]
    /\ aborted = {}
    /\ dispatch = [d \in Dispatches |-> Idle]
    /\ timeouts = MaxTimeouts

Present(k) == byKey[k] # NoFence

-----------------------------------------------------------------------------
(* Operations on the fences, as functions of the fences *)

\* Mutant: a fence without running dispatches is dropped though a follow-up is queued.
UnlessUnusedByDispatch(f) == IF f.active = 0 THEN NoFence ELSE f

\* A fence nobody uses any more is dropped.
UnlessUnused(f) == IF f.active = 0 /\ f.controllers = {} THEN NoFence ELSE f

\* A new generation; the controllers are aborted (see Controllers) and forgotten.
Bumped(f) == [f EXCEPT !.generation = @ + 1, !.controllers = {}]

\* The fences after every present one of keys is superseded; a fence that a lane names
\* twice moves on by one generation here and by two in the code.
Superseded(fences, keys) ==
    [k \in FenceKeys |->
        IF k \in keys /\ fences[k] # NoFence THEN UnlessUnused(Bumped(fences[k])) ELSE fences[k]]

\* Mutant: only the controllers of interrupting turns are aborted.
ControllersOfRoots(keys) == UNION {byKey[k].controllers : k \in {j \in keys : IsRoot(j)}}

Controllers(keys) == UNION {byKey[k].controllers : k \in keys}

\* The lane index follows the fences that are dropped.
Indexed(index, fences) == [l \in FenceLanes |-> {k \in index[l] : fences[k] # NoFence}]

-----------------------------------------------------------------------------
(* Dispatches *)

\* Mutant: a new fence replaces the one there is.
BegunAfresh(f, d, lane) ==
    [generation |-> f.generation, active |-> 1, controllers |-> {d}, lanes |-> {lane}]

\* beginTelegramReplyFence, past the supersession.
Begun(f, d, lane) ==
    [f EXCEPT !.active = @ + 1, !.controllers = @ \cup {d}, !.lanes = @ \cup {lane}]

\* Mutant: room events under way are left alone by a new turn.
InterruptsItsFamily(key) == IF IsRoot(key) THEN Family(key) ELSE {}

\* Whom a dispatch under a key supersedes: nobody unless it interrupts, and a turn
\* that is no room event supersedes those as well.
Interrupts(key) ==
    IF IsRoot(key)
    THEN Family(key) \cup (IF key.room THEN {} ELSE Family(RootKey(key.chat, TRUE)))
    ELSE {}

\* A dispatch takes its fence.  The key's own fence, if present, lives on with its
\* new generation even if it was only kept by controllers; an absent one starts.
Start(d, key, lane) ==
    LET interrupted == Interrupts(key)
        superseded == Superseded(byKey, interrupted \ {key})
        own == IF key \in interrupted THEN Bumped(byKey[key]) ELSE byKey[key]
    IN  /\ dispatch[d].stage = "idle"
        /\ IsRoot(key) \/ key.lane = lane
        /\ aborted' = aborted \cup Controllers(interrupted)
        /\ byKey' = [superseded EXCEPT ![key] = Begun(own, d, lane)]
        /\ byLane' = [Indexed(byLane, byKey') EXCEPT ![lane] = @ \cup {key}]
        /\ dispatch' = [dispatch EXCEPT ![d] =
                           [stage |-> "running", key |-> key, lane |-> lane,
                            generation |-> byKey'[key].generation, followup |-> "none"]]
        /\ UNCHANGED timeouts

\* A room event's reply is queued as a follow-up of the running turn.
QueueFollowup(d) ==
    /\ dispatch[d].stage = "running" /\ dispatch[d].key.room
    /\ dispatch[d].followup = "none"
    /\ dispatch' = [dispatch EXCEPT ![d].followup = "queued"]
    /\ UNCHANGED <<byKey, byLane, aborted, timeouts>>

\* A queued follow-up keeps the controller of its dispatch registered.
TakesController(d) == IF dispatch[d].followup = "queued" THEN {} ELSE {d}

\* The dispatch's finally block gives its fence back.
End(d) ==
    LET key == dispatch[d].key
        kept == [byKey[key] EXCEPT !.active = @ - 1, !.controllers = @ \ TakesController(d)]
    IN  /\ dispatch[d].stage = "running"
        /\ byKey' = [byKey EXCEPT ![key] = UnlessUnused(kept)]
        /\ byLane' = Indexed(byLane, byKey')
        /\ dispatch' = [dispatch EXCEPT ![d].stage = "ended"]
        /\ UNCHANGED <<aborted, timeouts>>

\* The queued follow-up is over: its controller is released, whoever has the fence now.
CompleteFollowup(d) ==
    LET key == dispatch[d].key
        kept == [byKey[key] EXCEPT !.controllers = @ \ {d}]
    IN  /\ dispatch[d].followup = "queued"
        /\ byKey' = [byKey EXCEPT ![key] = IF Present(key) THEN UnlessUnused(kept) ELSE @]
        /\ byLane' = Indexed(byLane, byKey')
        /\ dispatch' = [dispatch EXCEPT ![d].followup = "complete"]
        /\ UNCHANGED <<aborted, timeouts>>

\* A handler of the lane timed out: polling-session.ts supersedes what the lane indexes.
TimeOutLane(l) ==
    LET keys == UNION {Family(k) : k \in byLane[l]}
    IN  /\ timeouts > 0 /\ byLane[l] # {}
        /\ timeouts' = timeouts - 1
        /\ aborted' = aborted \cup Controllers(keys)
        /\ byKey' = Superseded(byKey, keys)
        /\ byLane' = Indexed(byLane, byKey')
        /\ UNCHANGED dispatch

Next ==
    \/ \E d \in Dispatches :
          \/ \E key \in FenceKeys, lane \in FenceLanes : Start(d, key, lane)
          \/ QueueFollowup(d) \/ End(d) \/ CompleteFollowup(d)
    \/ \E l \in FenceLanes : TimeOutLane(l)

Spec == Init /\ [][Next]_vars

-----------------------------------------------------------------------------
(* Properties *)

Running(d) == dispatch[d].stage = "running"

\* isDispatchSuperseded: what every later step of a dispatch asks.
IsSuperseded(d) == byKey[dispatch[d].key].generation # dispatch[d].generation

\* The count of a fence is that of the dispatches running under it, so it is dropped
\* neither too early, which would let its generation start again, nor too late; no fence
\* outlives its dispatches and their queued follow-ups.
CountedExactly ==
    \A k \in FenceKeys :
        LET users == {d \in Dispatches : dispatch[d].key = k}
        IN  /\ byKey[k].active = Cardinality({d \in users : Running(d)})
            /\ Present(k) => \E d \in users : Running(d) \/ dispatch[d].followup = "queued"

\* The generation that draft updates ask and the abort signal that the agent run hears
\* agree, while the follow-up has not released the controller.
SupersededMeansAborted ==
    \A d \in Dispatches :
        Running(d) /\ dispatch[d].followup # "complete" => (IsSuperseded(d) <=> d \in aborted)

\* All reply work of a lane can still be aborted: the lane index reaches every dispatch that
\* runs, so that a handler timeout on the lane cannot miss one, and a follow-up queued past the
\* end of its dispatch keeps its controller in the fence, unless it was aborted.
LaneReachesWork ==
    \A d \in Dispatches :
        /\ Running(d) => dispatch[d].key \in byLane[dispatch[d].lane]
        /\ dispatch[d].followup = "queued" /\ d \notin aborted
              => d \in byKey[dispatch[d].key].controllers

\* A superseded dispatch stays superseded until it ends: no reuse of its fence brings
\* its generation back.
SupersededForGood ==
    [][\A d \in Dispatches : Running(d) /\ IsSuperseded(d) /\ Running(d)' => IsSuperseded(d)']_vars

\* "Newer accepted turns ... can arrive ahead of older same-session reply work": a turn of
\* a session leaves no earlier reply under its fence current, and one that is no room event
\* none of the session: neither side questions' nor room events'.
NewTurnInterrupts ==
    [][\A d, e \in Dispatches :
          LET key == dispatch'[d].key IN
          (/\ ~Running(d) /\ Running(d)' /\ IsRoot(key) /\ Running(e)
           /\ dispatch[e].key = key \/ (~key.room /\ dispatch[e].key.chat = key.chat))
              => IsSuperseded(e)']_vars
=============================================================================
