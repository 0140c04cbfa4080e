-------------------------- MODULE UpdateTrackerOps --------------------------
(***************************************************************************)
(* The update tracker of one Telegram bot instance, as operators on one    *)
(* record: bot-update-tracker.ts closes over the same fields.  A tracker    *)
(* decides which update ids a bot accepts, and which id may be persisted    *)
(* as "everything up to here is finished".                                 *)
(*                                                                         *)
(* Every Telegram update carries an id, so the semantic key of an update    *)
(* is "update:<id>": pendingUpdateKeys and pendingUpdateIds always hold the *)
(* same updates and are one field here.  null is NoId, which compares with  *)
(* ids the way the code's null checks do.                                   *)
(***************************************************************************)
EXTENDS Integers, FiniteSets

CONSTANT UpdateIds      \* the update ids Telegram may hand to the bot

ASSUME UpdateIdsAssumption == UpdateIds \subseteq Nat \ {0}

NoId == -1

\* An id as the tracker computes it: an update id, the predecessor of one, or null.
MaybeId == Nat \cup {NoId}

TrackerType ==
    [initial : MaybeId, floor : MaybeId, accepted : MaybeId, completed : MaybeId,
     requested : MaybeId, target : MaybeId, writing : MaybeId, persisted : MaybeId,
     pending : SUBSET UpdateIds, failed : SUBSET UpdateIds,
     replayed : SUBSET UpdateIds, recent : SUBSET UpdateIds,
     dispatched : SUBSET UpdateIds]

NewTracker(initial, floor) ==
    [initial |-> initial, floor |-> floor, accepted |-> initial, completed |-> floor,
     requested |-> floor, target |-> NoId, writing |-> NoId, persisted |-> floor,
     pending |-> {}, failed |-> {}, replayed |-> {}, recent |-> {}, dispatched |-> {}]

Later(a, b) == IF a > b THEN a ELSE b

-----------------------------------------------------------------------------
(* Accepting and finishing updates *)

\* An update at or below the offset the bot started from, replayed by the spool:
\* only bots that start without a watermark see these.
IsFloorReplay(t, u) == t.initial = NoId /\ t.floor # NoId /\ u <= t.floor

\* Mutant: the newest accepted id is not covered by the watermark.
WatermarkRejectsBelow(t, u) == u < t.accepted /\ u \notin t.failed

WatermarkRejects(t, u) ==
    /\ u <= t.accepted
    /\ IF IsFloorReplay(t, u) THEN u \in t.replayed ELSE u \notin t.failed

SemanticRejects(t, u) == u \in t.pending \cup t.recent

\* Mutant: only an update being processed is a duplicate.
RejectsRunningOnly(t, u) == u \in t.pending

Rejects(t, u) == WatermarkRejects(t, u) \/ SemanticRejects(t, u)

\* beginUpdate past its two rejections.
Begin(t, u) ==
    [t EXCEPT !.failed = IF u > t.accepted THEN @ \ {u} ELSE @,
              !.pending = @ \cup {u},
              !.dispatched = @ \ {u},
              !.accepted = Later(u, @)]

Complete(t, u) ==
    [t EXCEPT !.pending = @ \ {u},
              !.dispatched = @ \ {u},
              !.recent = @ \cup {u},
              !.failed = @ \ {u},
              !.replayed = IF IsFloorReplay(t, u) THEN @ \cup {u} ELSE @,
              !.completed = Later(u, @)]

\* Mutant: a failed update is not kept for a retry.
FailForgets(t, u) ==
    [t EXCEPT !.pending = @ \ {u}, !.dispatched = @ \ {u}]

Fail(t, u) ==
    [t EXCEPT !.pending = @ \ {u}, !.dispatched = @ \ {u}, !.failed = @ \cup {u}]

\* A registered handler asks whether an update being processed is already taken;
\* the first handler to ask takes it.
SkipsDispatch(t, u) == u <= t.initial \/ u \in t.dispatched
TakeDispatch(t, u) == [t EXCEPT !.dispatched = @ \cup {u}]

-----------------------------------------------------------------------------
(* What may be persisted, and the queue that persists it *)

\* Unfinished updates that hold the safe id back.
Holding(t) == {u \in t.pending \cup t.failed : u > t.floor}

SafeCompleted(t) ==
    LET held == {u \in Holding(t) : u <= t.completed}
    IN  IF held = {} THEN t.completed
        ELSE (CHOOSE u \in held : \A v \in held : u <= v) - 1

\* Mutant: writes do not wait for each other, and the older one settles last.
StartWriteAtOnce(t) ==
    IF t.target # NoId THEN [t EXCEPT !.writing = t.target, !.target = t.writing] ELSE t

\* One turn of drainPersistQueue: the next target, unless a write is under way.
StartWrite(t) ==
    IF t.writing = NoId /\ t.target # NoId
    THEN [t EXCEPT !.writing = t.target, !.target = NoId]
    ELSE t

\* Mutant: a request made while a write is in flight is dropped.
RequestUnlessWriting(t, id) ==
    IF id = NoId \/ id <= t.requested \/ t.writing # NoId THEN t
    ELSE StartWrite([t EXCEPT !.requested = id, !.target = id])

RequestPersist(t, id) ==
    IF id = NoId \/ id <= t.requested THEN t
    ELSE StartWrite([t EXCEPT !.requested = id, !.target = id])

\* persistUpdateIdAfterAck, for the policy bot-core.ts gives every tracker.
PersistAfterAck(t) == RequestPersist(t, SafeCompleted(t))

\* Mutant: the loop stops after one write.
WriteSettledAlone(t, ok) ==
    [t EXCEPT !.persisted = IF ok THEN Later(t.writing, @) ELSE @, !.writing = NoId]

\* The write under way has settled; the loop goes on with the next target.
WriteSettled(t, ok) ==
    StartWrite([t EXCEPT !.persisted = IF ok THEN Later(t.writing, @) ELSE @,
                         !.writing = NoId])
=============================================================================
