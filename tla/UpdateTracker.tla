---------------------------- MODULE UpdateTracker ----------------------------
(***************************************************************************)
(* One bot's tracker under an environment that delivers updates, runs      *)
(* handlers concurrently, fails some of them, and writes the watermark      *)
(* asynchronously (bot-core.ts middleware, monitor.ts persistUpdateId).     *)
(***************************************************************************)
EXTENDS UpdateTrackerOps

CONSTANTS
    Isolated,          \* TRUE: updates come from the spool, in any order
                       \* FALSE: from the in-process runner, in getUpdates order
    InitialOffsets,    \* the offsets the update offset store may hold at start
    MaxWriteFailures   \* bound: offset writes the store refuses

ASSUME EnvironmentAssumption ==
    /\ Isolated \in BOOLEAN
    /\ InitialOffsets \subseteq MaybeId
    /\ MaxWriteFailures \in Nat

VARIABLES
    t,            \* the tracker
    acks,         \* completed updates whose receive context has not acked yet
    lastUpdateId, \* monitor.ts: the offset the process believes persisted
    durable,      \* the offset in the update offset store
    writeFailures,
    seen,         \* history: updates accepted so far
    done,         \* history: updates some handler run completed
    skipped       \* history: updates rejected behind the watermark while unseen

vars == <<t, acks, lastUpdateId, durable, writeFailures, seen, done, skipped>>

Init ==
    \E offset \in InitialOffsets :
        /\ t = NewTracker(IF Isolated THEN NoId ELSE offset, offset)
        /\ acks = {}
        /\ lastUpdateId = offset
        /\ durable = offset
        /\ writeFailures = 0
        /\ seen = {}
        /\ done = {}
        /\ skipped = {}

-----------------------------------------------------------------------------
\* The runner delivers fresh updates in the order of their ids and may deliver
\* again what it delivered before; the spool delivers in any order.
MayArrive(u) ==
    Isolated \/ u \in seen \/ u <= t.initial
             \/ \A v \in UpdateIds : (v < u /\ v > t.initial) => v \in seen

\* monitor.ts persistUpdateId runs synchronously when a write starts.
NoteWriteStart ==
    lastUpdateId' = Later(t'.writing, lastUpdateId)

BeginUpdate(u) ==
    /\ MayArrive(u)
    /\ ~Rejects(t, u)
    /\ t' = Begin(t, u)
    /\ seen' = seen \cup {u}
    /\ UNCHANGED <<acks, lastUpdateId, durable, writeFailures, done, skipped>>

RejectUpdate(u) ==
    /\ MayArrive(u)
    /\ Rejects(t, u)
    /\ skipped' = IF WatermarkRejects(t, u) /\ u \notin seen /\ u > t.initial
                  THEN skipped \cup {u} ELSE skipped
    /\ t' = [t EXCEPT !.failed = IF u > t.accepted THEN @ \ {u} ELSE @]
    /\ UNCHANGED <<acks, lastUpdateId, durable, writeFailures, seen, done>>

\* A handler registered on the bot takes the update unless another one has.
TakeUpdate(u) ==
    /\ u \in t.pending
    /\ ~SkipsDispatch(t, u)
    /\ t' = TakeDispatch(t, u)
    /\ UNCHANGED <<acks, lastUpdateId, durable, writeFailures, seen, done, skipped>>

\* next() resolved.
CompleteUpdate(u) ==
    /\ u \in t.pending
    /\ t' = Complete(t, u)
    /\ acks' = acks \cup {u}
    /\ done' = done \cup {u}
    /\ UNCHANGED <<lastUpdateId, durable, writeFailures, seen, skipped>>

\* next() threw; the nack changes nothing the tracker keeps.
FailUpdate(u) ==
    /\ u \in t.pending
    /\ t' = Fail(t, u)
    /\ UNCHANGED <<acks, lastUpdateId, durable, writeFailures, seen, done, skipped>>

AckUpdate(u) ==
    /\ u \in acks
    /\ acks' = acks \ {u}
    /\ t' = PersistAfterAck(t)
    /\ NoteWriteStart
    /\ UNCHANGED <<durable, writeFailures, seen, done, skipped>>

\* persistUpdateId swallows a refused write, so the tracker counts it as persisted.
WriteOffset ==
    /\ t.writing # NoId
    /\ \/ durable' = t.writing /\ UNCHANGED writeFailures
       \/ /\ writeFailures < MaxWriteFailures
          /\ writeFailures' = writeFailures + 1
          /\ UNCHANGED durable
    /\ t' = WriteSettled(t, TRUE)
    /\ NoteWriteStart
    /\ UNCHANGED <<acks, seen, done, skipped>>

\* The recent-updates cache drops an entry by age or by size.
ForgetRecent(u) ==
    /\ u \in t.recent
    /\ t' = [t EXCEPT !.recent = @ \ {u}]
    /\ UNCHANGED <<acks, lastUpdateId, durable, writeFailures, seen, done, skipped>>

Next ==
    \/ \E u \in UpdateIds :
          \/ BeginUpdate(u)
          \/ RejectUpdate(u)
          \/ TakeUpdate(u)
          \/ CompleteUpdate(u)
          \/ FailUpdate(u)
          \/ AckUpdate(u)
          \/ ForgetRecent(u)
    \/ WriteOffset

Spec == Init /\ [][Next]_vars

\* Promise callbacks run: an ack is delivered and a store write settles.
Fairness ==
    /\ \A u \in UpdateIds : WF_vars(AckUpdate(u))
    /\ WF_vars(WriteOffset)

FairSpec == Spec /\ Fairness

-----------------------------------------------------------------------------
(* Properties *)

\* The tracker, its persistence queue and the histories keep their types; only
\* updates being processed have an entry in activeHandledUpdateKeys.
TypeOK ==
    /\ t \in TrackerType
    /\ t.dispatched \subseteq t.pending
    /\ acks \subseteq UpdateIds
    /\ lastUpdateId \in MaybeId
    /\ durable \in MaybeId
    /\ writeFailures \in 0..MaxWriteFailures
    /\ seen \subseteq UpdateIds
    /\ done \subseteq UpdateIds
    /\ skipped \subseteq UpdateIds

\* Neither the requested watermark nor the stored offset ever reaches an update
\* that is still running or that failed, whatever order updates finish in
\* (resolveSafeCompletedUpdateId, requestPersistAcceptedUpdateId).
OffsetBehindUnfinished ==
    \A u \in Holding(t) : t.requested < u /\ durable < u

\* Every accepted update the stored offset covers, beyond the offset the bot
\* started from, was completed by a handler: a restart from that offset loses none.
StoredOffsetCoversOnlyDone ==
    \A u \in seen : (u > t.floor /\ u <= durable) => u \in done

\* With no ack outstanding the tracker has asked to persist all it safely may: an
\* update completed late, or after a retry, still moves the watermark over those
\* that were waiting behind it.
NothingFinishedForgotten ==
    (acks = {}) => t.requested >= SafeCompleted(t)

\* Fed in getUpdates order, the watermark never rejects an update that was not accepted
\* before (beginUpdate, "accepted-watermark"); and a completed update is never accepted
\* again, also after the recent-updates cache has dropped it and also when the spool
\* replays it below the persisted floor.
AcceptsJustTheUndone ==
    [][/\ skipped' = {}
       /\ \A u \in done : u \notin t.pending => u \notin t'.pending]_vars

\* The stored offset never moves back, though writes are queued behind each other
\* and targets replaced while one is in flight (drainPersistQueue).
OffsetOnlyGrows == [][durable' >= durable /\ lastUpdateId' >= durable']_vars

\* An update that finished, with all those before it, reaches the stored offset
\* once its ack is delivered, unless the store has refused a write.
FinishedGetsStored ==
    \A u \in UpdateIds :
        (u \in done /\ u <= SafeCompleted(t)) ~> (durable >= u \/ writeFailures > 0)
=============================================================================
