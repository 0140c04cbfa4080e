------------------------ MODULE UpdateTrackerProofs ------------------------
(***************************************************************************)
(* The update tracker is right for every set of update ids, in both modes  *)
(* and from every starting offset.                                         *)
(***************************************************************************)
EXTENDS UpdateTracker, TLAPS, WellFoundedInduction

\* What the properties rest on.  The watermark is held back by every unfinished
\* update (Behind), because what it may rise to never exceeds what was accepted
\* (Ordered); queued writes are in the order of the watermark (QueueOrdered).
Ordered ==
    /\ t.requested <= t.completed
    /\ t.completed <= Later(t.accepted, t.floor)
    /\ \A u \in t.pending \cup t.failed : u <= t.accepted

Behind == \A u \in Holding(t) : t.requested < u

QueueOrdered ==
    /\ durable <= t.requested
    /\ durable <= lastUpdateId
    /\ t.writing # NoId =>
          durable <= t.writing /\ t.writing <= t.requested /\ t.writing <= lastUpdateId
    /\ t.target # NoId =>
          t.writing # NoId /\ t.writing <= t.target /\ t.target <= t.requested

Accounted == seen \ done \subseteq t.pending \cup t.failed

IInv ==
    /\ TypeOK
    /\ Ordered
    /\ Behind
    /\ QueueOrdered
    /\ Accounted

USE UpdateIdsAssumption, EnvironmentAssumption

-----------------------------------------------------------------------------
(* The operators on a tracker *)

\* The operators that accept and finish updates keep the tracker's type.
LEMMA StepTypes ==
    ASSUME NEW r \in TrackerType, NEW u \in UpdateIds
    PROVE  /\ Begin(r, u) \in TrackerType
           /\ TakeDispatch(r, u) \in TrackerType
           /\ Complete(r, u) \in TrackerType
           /\ Fail(r, u) \in TrackerType
  <1>1. u \in MaybeId
    BY DEF MaybeId
  <1>2. Later(u, r.accepted) \in MaybeId /\ Later(u, r.completed) \in MaybeId
    BY <1>1 DEF Later, TrackerType
  <1>3. Begin(r, u) \in TrackerType
    BY <1>2 DEF Begin, TrackerType
  <1>4. Complete(r, u) \in TrackerType
    BY <1>2 DEF Complete, TrackerType
  <1>5. TakeDispatch(r, u) \in TrackerType /\ Fail(r, u) \in TrackerType
    BY DEF TakeDispatch, Fail, TrackerType
  <1> QED
    BY <1>3, <1>4, <1>5

\* A non-empty set of update ids has a least element.
LEMMA LeastId ==
    ASSUME NEW S \in SUBSET UpdateIds, S # {}
    PROVE  \E u \in S : \A v \in S : u <= v
  <1>1. IsWellFoundedOn(OpToRel(<, Nat), Nat)
    BY NatLessThanWellFounded
  <1>2. S \subseteq Nat
    OBVIOUS
  <1>3. PICK u \in S : \A v \in S : ~(<<v, u>> \in OpToRel(<, Nat))
    BY <1>1, <1>2, WFMin
  <1>4. \A v \in S : u <= v
    <2> TAKE v \in S
    <2>1. ~(v < u)
      BY <1>2, <1>3 DEF OpToRel
    <2> QED
      BY <2>1, <1>2
  <1> QED
    BY <1>4

\* The safe id is the largest id not above the highest completed one that lies
\* before every unfinished update.
LEMMA SafeCompletedIsGreatest ==
    ASSUME NEW r \in TrackerType
    PROVE  /\ SafeCompleted(r) \in MaybeId
           /\ SafeCompleted(r) <= r.completed
           /\ \A u \in Holding(r) : SafeCompleted(r) < u \/ r.completed < u
           /\ \A x \in MaybeId :
                 (x <= r.completed /\ \A u \in Holding(r) : x < u) => x <= SafeCompleted(r)
  <1> DEFINE held == {u \in Holding(r) : u <= r.completed}
             least == CHOOSE u \in held : \A v \in held : u <= v
  <1>1. Holding(r) \in SUBSET UpdateIds
    BY DEF Holding, TrackerType
  <1>2. r.completed \in MaybeId
    BY DEF TrackerType
  <1>3. \A u \in Holding(r) : u \in Nat \ {0}
    BY <1>1
  <1>4. held \in SUBSET UpdateIds
    BY <1>1
  <1>5. CASE held = {}
    <2>1. SafeCompleted(r) = r.completed
      BY <1>5 DEF SafeCompleted
    <2>2. ASSUME NEW u \in Holding(r) PROVE ~(u <= r.completed)
      BY <1>5
    <2> HIDE DEF held, least
    <2>3. ASSUME NEW u \in Holding(r) PROVE r.completed < u
      BY <1>2, <1>3, <2>2 DEF MaybeId, NoId
    <2> QED
      BY <2>1, <2>3, <1>2 DEF MaybeId, NoId
  <1>6. CASE held # {}
    <2>1. \E u \in held : \A v \in held : u <= v
      <3> HIDE DEF held
      <3> QED
        BY <1>4, <1>6, LeastId
    <2>2. least \in held /\ \A v \in held : least <= v
      BY <2>1
    <2>3. SafeCompleted(r) = least - 1
      BY <1>6 DEF SafeCompleted
    <2>4. least \in Holding(r) /\ least <= r.completed
      BY <2>2
    <2>5. ASSUME NEW u \in Holding(r) PROVE least <= u \/ ~(u <= r.completed)
      BY <2>2
    <2> HIDE DEF held, least
    <2> QED
      BY <2>3, <2>4, <2>5, <1>2, <1>3 DEF MaybeId, NoId
  <1> QED
    BY <1>5, <1>6

\* Starting a queued write keeps the tracker's type.
LEMMA StartWriteType ==
    ASSUME NEW r \in TrackerType
    PROVE  StartWrite(r) \in TrackerType
  <1>1. CASE r.writing = NoId /\ r.target # NoId
    <2>1. StartWrite(r) = [r EXCEPT !.writing = r.target, !.target = NoId]
      BY <1>1 DEF StartWrite
    <2>2. r.target \in MaybeId /\ NoId \in MaybeId
      BY DEF TrackerType, MaybeId
    <2> QED
      BY <2>1, <2>2 DEF TrackerType
  <1>2. CASE ~(r.writing = NoId /\ r.target # NoId)
    BY <1>2 DEF StartWrite
  <1> QED
    BY <1>1, <1>2

\* Asking to persist an id changes only the persistence queue.
LEMMA RequestFields ==
    ASSUME NEW r \in TrackerType, NEW id \in MaybeId
    PROVE  /\ RequestPersist(r, id) \in TrackerType
           /\ RequestPersist(r, id).accepted = r.accepted
           /\ RequestPersist(r, id).completed = r.completed
           /\ RequestPersist(r, id).floor = r.floor
           /\ RequestPersist(r, id).pending = r.pending
           /\ RequestPersist(r, id).failed = r.failed
           /\ RequestPersist(r, id).dispatched = r.dispatched
           /\ RequestPersist(r, id).requested = Later(id, r.requested)
  <1>1. RequestPersist(r, id) \in TrackerType
    <2>1. [r EXCEPT !.requested = id, !.target = id] \in TrackerType
      BY DEF TrackerType
    <2> QED
      BY <2>1, StartWriteType DEF RequestPersist
  <1>2. RequestPersist(r, id).requested = Later(id, r.requested)
    BY DEF TrackerType, MaybeId, NoId, RequestPersist, StartWrite, Later
  <1> QED
    BY <1>1, <1>2 DEF TrackerType, RequestPersist, StartWrite

\* The same for a settled write, which starts the next one.
LEMMA SettledFields ==
    ASSUME NEW r \in TrackerType, r.writing # NoId
    PROVE  /\ WriteSettled(r, TRUE) \in TrackerType
           /\ WriteSettled(r, TRUE).accepted = r.accepted
           /\ WriteSettled(r, TRUE).completed = r.completed
           /\ WriteSettled(r, TRUE).floor = r.floor
           /\ WriteSettled(r, TRUE).pending = r.pending
           /\ WriteSettled(r, TRUE).failed = r.failed
           /\ WriteSettled(r, TRUE).dispatched = r.dispatched
           /\ WriteSettled(r, TRUE).requested = r.requested
           /\ WriteSettled(r, TRUE).writing = r.target
           /\ WriteSettled(r, TRUE).target = NoId
  <1> DEFINE settled == [r EXCEPT !.persisted = Later(r.writing, @), !.writing = NoId]
  <1>1. settled \in TrackerType
    <2>1. Later(r.writing, r.persisted) \in MaybeId
      BY DEF Later, TrackerType
    <2> QED
      BY <2>1 DEF TrackerType, MaybeId, NoId
  <1>2. WriteSettled(r, TRUE) = StartWrite(settled)
    BY <1>1 DEF WriteSettled, TrackerType
  <1>3. WriteSettled(r, TRUE) \in TrackerType
    BY <1>1, <1>2, StartWriteType
  <1> QED
    BY <1>3 DEF TrackerType, WriteSettled, StartWrite

-----------------------------------------------------------------------------
(* The inductive invariant *)

LEMMA InitIInv == Init => IInv
  <1> SUFFICES ASSUME Init PROVE IInv
    OBVIOUS
  <1>1. PICK offset \in InitialOffsets :
           t = NewTracker(IF Isolated THEN NoId ELSE offset, offset)
           /\ lastUpdateId = offset /\ durable = offset
    BY DEF Init
  <1>2. offset \in MaybeId
    BY EnvironmentAssumption
  <1>3. TypeOK
    BY <1>1, <1>2, EnvironmentAssumption DEF Init, TypeOK, TrackerType, NewTracker, MaybeId
  <1>4. Ordered /\ Behind /\ QueueOrdered /\ Accounted
    BY <1>1, <1>2 DEF Init, Ordered, Behind, QueueOrdered, Accounted, NewTracker, Holding,
                      Later, MaybeId, NoId
  <1> QED
    BY <1>3, <1>4 DEF IInv

LEMMA BeginIInv ==
    ASSUME IInv, NEW u \in UpdateIds, BeginUpdate(u)
    PROVE  IInv'
  <1> USE DEF BeginUpdate
  <1>1. t \in TrackerType /\ t' \in TrackerType /\ u \in Nat \ {0}
    BY StepTypes, UpdateIdsAssumption DEF IInv, TypeOK
  <1>2. /\ t'.pending = t.pending \cup {u}
        /\ t'.failed \subseteq t.failed /\ t.failed \subseteq t'.failed \cup {u}
        /\ t'.accepted = Later(u, t.accepted)
        /\ t'.completed = t.completed /\ t'.requested = t.requested /\ t'.floor = t.floor
        /\ t'.target = t.target /\ t'.writing = t.writing
        /\ t'.dispatched = t.dispatched \ {u}
    BY <1>1 DEF Begin, TrackerType
  <1>3. TypeOK'
    BY <1>1, <1>2 DEF IInv, TypeOK
  <1>4. Ordered'
    BY <1>1, <1>2, UpdateIdsAssumption DEF IInv, Ordered, TrackerType, MaybeId, NoId, Later
  \* A new update is above everything accepted; an old one either failed, and
  \* held the watermark back already, or lies below the floor.
  <1>5. u > t.floor => t.requested < u
    <2>1. CASE u > t.accepted
      BY <1>1, <2>1 DEF IInv, Ordered, TrackerType, MaybeId, NoId, Later
    <2>2. CASE u <= t.accepted
      <3>1. IsFloorReplay(t, u) \/ u \in t.failed
        BY <2>2 DEF Rejects, WatermarkRejects
      <3> QED
        BY <1>1, <3>1 DEF IInv, Behind, Holding, IsFloorReplay, TrackerType, MaybeId, NoId
    <2> QED
      BY <1>1, <2>1, <2>2 DEF TrackerType, MaybeId, NoId
  <1>6. Behind'
    BY <1>1, <1>2, <1>5 DEF IInv, Behind, Holding
  <1>7. QueueOrdered' /\ Accounted'
    BY <1>2 DEF IInv, QueueOrdered, Accounted
  <1> QED
    BY <1>3, <1>4, <1>6, <1>7 DEF IInv

LEMMA RejectIInv ==
    ASSUME IInv, NEW u \in UpdateIds, RejectUpdate(u)
    PROVE  IInv' /\ t' = t
  <1>1. t \in TrackerType /\ u \in Nat \ {0}
    BY UpdateIdsAssumption DEF IInv, TypeOK
  <1>2. u > t.accepted => u \notin t.failed
    BY <1>1 DEF IInv, Ordered, TrackerType, MaybeId, NoId
  <1>3. t' = t
    BY <1>1, <1>2 DEF RejectUpdate, TrackerType
  <1>4. UNCHANGED <<acks, lastUpdateId, durable, writeFailures, seen, done>>
        /\ skipped' \subseteq UpdateIds
    BY DEF RejectUpdate, IInv, TypeOK
  <1> QED
    BY <1>3, <1>4 DEF IInv, TypeOK, Ordered, Behind, QueueOrdered, Accounted

LEMMA TakeIInv ==
    ASSUME IInv, NEW u \in UpdateIds, TakeUpdate(u)
    PROVE  IInv'
  <1> USE DEF TakeUpdate
  <1>1. t \in TrackerType /\ t' \in TrackerType
    BY StepTypes DEF IInv, TypeOK
  <1>2. /\ t'.pending = t.pending /\ t'.failed = t.failed /\ t'.accepted = t.accepted
        /\ t'.completed = t.completed /\ t'.requested = t.requested /\ t'.floor = t.floor
        /\ t'.target = t.target /\ t'.writing = t.writing
        /\ t'.dispatched = t.dispatched \cup {u}
    BY <1>1 DEF TakeDispatch, TrackerType
  <1>3. TypeOK'
    BY <1>1, <1>2 DEF IInv, TypeOK
  <1> QED
    BY <1>2, <1>3 DEF IInv, Ordered, Behind, Holding, QueueOrdered, Accounted

LEMMA CompleteIInv ==
    ASSUME IInv, NEW u \in UpdateIds, CompleteUpdate(u)
    PROVE  IInv'
  <1> USE DEF CompleteUpdate
  <1>1. t \in TrackerType /\ t' \in TrackerType /\ u \in Nat \ {0} /\ u \in t.pending
    BY StepTypes, UpdateIdsAssumption DEF IInv, TypeOK
  <1>2. /\ t'.pending = t.pending \ {u} /\ t'.failed = t.failed \ {u}
        /\ t'.completed = Later(u, t.completed)
        /\ t'.accepted = t.accepted /\ t'.requested = t.requested /\ t'.floor = t.floor
        /\ t'.target = t.target /\ t'.writing = t.writing
        /\ t'.dispatched = t.dispatched \ {u}
    BY <1>1 DEF Complete, TrackerType
  <1>3. TypeOK'
    BY <1>1, <1>2 DEF IInv, TypeOK
  <1>4. Ordered'
    BY <1>1, <1>2 DEF IInv, Ordered, TrackerType, MaybeId, NoId, Later
  <1>5. Behind' /\ QueueOrdered' /\ Accounted'
    BY <1>2 DEF IInv, Behind, Holding, QueueOrdered, Accounted
  <1> QED
    BY <1>3, <1>4, <1>5 DEF IInv

LEMMA FailIInv ==
    ASSUME IInv, NEW u \in UpdateIds, FailUpdate(u)
    PROVE  IInv'
  <1> USE DEF FailUpdate
  <1>1. t \in TrackerType /\ t' \in TrackerType /\ u \in t.pending
    BY StepTypes DEF IInv, TypeOK
  <1>2. /\ t'.pending = t.pending \ {u} /\ t'.failed = t.failed \cup {u}
        /\ t'.completed = t.completed
        /\ t'.accepted = t.accepted /\ t'.requested = t.requested /\ t'.floor = t.floor
        /\ t'.target = t.target /\ t'.writing = t.writing
        /\ t'.dispatched = t.dispatched \ {u}
    BY <1>1 DEF Fail, TrackerType
  <1>3. TypeOK'
    BY <1>1, <1>2 DEF IInv, TypeOK
  <1> QED
    BY <1>1, <1>2, <1>3 DEF IInv, Ordered, Behind, Holding, QueueOrdered, Accounted

LEMMA ForgetIInv ==
    ASSUME IInv, NEW u \in UpdateIds, ForgetRecent(u)
    PROVE  IInv'
  <1> USE DEF ForgetRecent
  <1>1. t \in TrackerType
    BY DEF IInv, TypeOK
  <1>2. /\ t' \in TrackerType
        /\ t'.pending = t.pending /\ t'.failed = t.failed /\ t'.accepted = t.accepted
        /\ t'.completed = t.completed /\ t'.requested = t.requested /\ t'.floor = t.floor
        /\ t'.target = t.target /\ t'.writing = t.writing
        /\ t'.dispatched = t.dispatched
    BY <1>1 DEF TrackerType
  <1> QED
    BY <1>2 DEF IInv, TypeOK, Ordered, Behind, Holding, QueueOrdered, Accounted

LEMMA AckIInv ==
    ASSUME IInv, NEW u \in UpdateIds, AckUpdate(u)
    PROVE  IInv' /\ Later(SafeCompleted(t), t.requested) = t'.requested
  <1> DEFINE safe == SafeCompleted(t)
  <1>1. t \in TrackerType /\ safe \in MaybeId
    BY SafeCompletedIsGreatest DEF IInv, TypeOK
  <1>2. t' = RequestPersist(t, safe)
    BY DEF AckUpdate, PersistAfterAck
  <1>3. /\ safe <= t.completed
        /\ \A v \in Holding(t) : safe < v \/ t.completed < v
    BY <1>1, SafeCompletedIsGreatest
  <1>4. UNCHANGED <<durable, writeFailures, seen, done, skipped>> /\ acks' = acks \ {u}
        /\ lastUpdateId' = Later(t'.writing, lastUpdateId)
    BY DEF AckUpdate, NoteWriteStart
  <1> HIDE DEF safe
  <1>5. /\ t' \in TrackerType
        /\ t'.accepted = t.accepted /\ t'.completed = t.completed /\ t'.floor = t.floor
        /\ t'.pending = t.pending /\ t'.failed = t.failed /\ t'.dispatched = t.dispatched
        /\ t'.requested = Later(safe, t.requested)
    BY <1>1, <1>2, RequestFields
  <1>6. TypeOK'
    BY <1>4, <1>5 DEF IInv, TypeOK, Later, TrackerType, MaybeId, NoId
  <1>7. Ordered'
    BY <1>1, <1>3, <1>5 DEF IInv, Ordered, TrackerType, MaybeId, NoId, Later
  <1>8. Behind'
    <2>1. Holding(t)' = Holding(t)
      BY <1>5 DEF Holding
    <2>2. ASSUME NEW v \in Holding(t) PROVE Later(safe, t.requested) < v
      <3>1. v \in Nat /\ t.requested < v
        BY <1>1, UpdateIdsAssumption DEF IInv, Behind, Holding, TrackerType
      <3> QED
        BY <1>1, <1>3, <3>1 DEF Later, TrackerType, MaybeId, NoId
    <2> QED
      BY <1>5, <2>1, <2>2 DEF Behind
  <1>9. QueueOrdered'
    <2>1. CASE t' = t
      BY <1>1, <1>4, <2>1 DEF IInv, TypeOK, QueueOrdered, Later, TrackerType, MaybeId, NoId
    <2>2. CASE t' # t
      <3>1. safe # NoId /\ ~(safe <= t.requested)
            /\ t' = StartWrite([t EXCEPT !.requested = safe, !.target = safe])
        BY <1>2, <2>2 DEF RequestPersist
      <3>2. \/ t'.writing = safe /\ t'.target = NoId /\ t.writing = NoId
            \/ t'.writing = t.writing /\ t'.target = safe /\ t.writing # NoId
        BY <1>1, <3>1 DEF StartWrite, TrackerType
      <3>3. t'.requested = safe
        BY <1>1, <3>1 DEF StartWrite, TrackerType
      <3> QED
        BY <1>1, <1>4, <3>1, <3>2, <3>3
        DEF IInv, TypeOK, QueueOrdered, Later, TrackerType, MaybeId, NoId
    <2> QED
      BY <2>1, <2>2
  <1>10. Accounted'
    BY <1>4, <1>5 DEF IInv, Accounted
  <1> QED
    BY <1>5, <1>6, <1>7, <1>8, <1>9, <1>10 DEF IInv, safe

LEMMA WriteIInv ==
    ASSUME IInv, WriteOffset
    PROVE  IInv'
  <1>1. t \in TrackerType /\ t.writing # NoId /\ t' = WriteSettled(t, TRUE)
    BY DEF IInv, TypeOK, WriteOffset
  <1>2. /\ t' \in TrackerType
        /\ t'.accepted = t.accepted /\ t'.completed = t.completed /\ t'.floor = t.floor
        /\ t'.pending = t.pending /\ t'.failed = t.failed /\ t'.dispatched = t.dispatched
        /\ t'.requested = t.requested /\ t'.writing = t.target /\ t'.target = NoId
    BY <1>1, SettledFields
  <1>3. /\ durable' \in {durable, t.writing} /\ writeFailures' \in 0..MaxWriteFailures
        /\ lastUpdateId' = Later(t'.writing, lastUpdateId)
        /\ UNCHANGED <<acks, seen, done, skipped>>
    BY EnvironmentAssumption DEF WriteOffset, NoteWriteStart, IInv, TypeOK
  <1>4. TypeOK'
    BY <1>1, <1>2, <1>3 DEF IInv, TypeOK, Later, TrackerType
  <1>5. Ordered' /\ Behind' /\ Accounted'
    BY <1>2, <1>3 DEF IInv, Ordered, Behind, Holding, Accounted
  <1>6. QueueOrdered'
    <2>1. /\ durable \in MaybeId /\ lastUpdateId \in MaybeId /\ t.requested \in MaybeId
          /\ t.writing \in MaybeId /\ t.target \in MaybeId
      BY <1>1 DEF IInv, TypeOK, TrackerType
    <2>2. durable' <= t.requested /\ durable' <= lastUpdateId
          /\ (t.target # NoId => durable' <= t.target /\ t.target <= t.requested)
      BY <1>1, <1>3, <2>1 DEF IInv, QueueOrdered, MaybeId, NoId
    <2>3. lastUpdateId' >= lastUpdateId /\ lastUpdateId' >= t.target
          /\ lastUpdateId' \in MaybeId
      BY <1>2, <1>3, <2>1 DEF Later, MaybeId, NoId
    <2>4. durable' \in MaybeId
      BY <1>3, <2>1
    <2> QED
      BY <1>2, <2>1, <2>2, <2>3, <2>4 DEF QueueOrdered, MaybeId, NoId
  <1> QED
    BY <1>4, <1>5, <1>6 DEF IInv

LEMMA StepIInv == IInv /\ [Next]_vars => IInv'
  <1> SUFFICES ASSUME IInv, [Next]_vars PROVE IInv'
    OBVIOUS
  <1>1. CASE UNCHANGED vars
    BY <1>1 DEF vars, IInv, TypeOK, Ordered, Behind, Holding, QueueOrdered, Accounted
  <1>2. CASE \E u \in UpdateIds :
                \/ BeginUpdate(u) \/ RejectUpdate(u) \/ TakeUpdate(u) \/ CompleteUpdate(u)
                \/ FailUpdate(u) \/ AckUpdate(u) \/ ForgetRecent(u)
    BY <1>2, BeginIInv, RejectIInv, TakeIInv, CompleteIInv, FailIInv, AckIInv, ForgetIInv
  <1>3. CASE WriteOffset
    BY <1>3, WriteIInv
  <1> QED
    BY <1>1, <1>2, <1>3 DEF Next

\* The inductive invariant: offsets, the write queue and the watermarks stay behind what is
\* unfinished.
THEOREM Invariance == Spec => []IInv
  BY InitIInv, StepIInv, PTL DEF Spec

-----------------------------------------------------------------------------
(* The results *)

\* The tracker, its queue of writes and the histories keep their types
\* (createTelegramUpdateTracker).
THEOREM TypeCorrect == Spec => []TypeOK
  <1>1. IInv => TypeOK
    BY DEF IInv
  <1> QED
    BY <1>1, Invariance, PTL

\* Neither the requested watermark nor the stored offset reaches an update that is
\* still running or failed (resolveSafeCompletedUpdateId).
THEOREM OffsetSafe == Spec => []OffsetBehindUnfinished
  <1>1. IInv => OffsetBehindUnfinished
    <2> SUFFICES ASSUME IInv, NEW u \in Holding(t)
                 PROVE  t.requested < u /\ durable < u
      BY DEF OffsetBehindUnfinished
    <2>1. t.requested < u /\ durable <= t.requested
      BY DEF IInv, Behind, QueueOrdered
    <2>2. u \in Nat /\ t.requested \in MaybeId /\ durable \in MaybeId
      BY UpdateIdsAssumption DEF IInv, TypeOK, TrackerType, Holding
    <2> QED
      BY <2>1, <2>2 DEF MaybeId, NoId
  <1> QED
    BY <1>1, Invariance, PTL

\* Every accepted update the stored offset covers was completed: restarting from it
\* loses none of them (persistUpdateIdAfterAck, drainPersistQueue).
THEOREM NothingAcceptedIsLost == Spec => []StoredOffsetCoversOnlyDone
  <1>1. IInv => StoredOffsetCoversOnlyDone
    <2> SUFFICES ASSUME IInv, NEW u \in seen, u > t.floor, u <= durable, u \notin done
                 PROVE  FALSE
      BY DEF StoredOffsetCoversOnlyDone
    <2>1. u \in Holding(t)
      BY DEF IInv, Accounted, Holding
    <2>2. t.requested < u /\ durable <= t.requested
      BY <2>1 DEF IInv, Behind, QueueOrdered
    <2>3. u \in Nat /\ t.requested \in MaybeId /\ durable \in MaybeId
      BY UpdateIdsAssumption DEF IInv, TypeOK, TrackerType
    <2> QED
      BY <2>2, <2>3 DEF MaybeId, NoId
  <1> QED
    BY <1>1, Invariance, PTL

\* The stored offset never moves back, and the process never believes in an offset
\* lower than the stored one (drainPersistQueue, persistUpdateId).
THEOREM OffsetMonotone == Spec => OffsetOnlyGrows
  <1> DEFINE Grows == durable' >= durable /\ lastUpdateId' >= durable'
  <1>1. IInv /\ [Next]_vars => [Grows]_vars
    <2> SUFFICES ASSUME IInv, Next PROVE Grows
      BY DEF vars
    <2>1. t \in TrackerType /\ durable \in MaybeId /\ lastUpdateId \in MaybeId
      BY DEF IInv, TypeOK
    <2>2. CASE UNCHANGED <<durable, lastUpdateId>>
      BY <2>1, <2>2 DEF IInv, QueueOrdered, MaybeId, NoId
    <2>3. ASSUME NEW u \in UpdateIds, AckUpdate(u) PROVE Grows
      <3>1. durable' = durable /\ lastUpdateId' = Later(t'.writing, lastUpdateId)
        BY <2>3 DEF AckUpdate, NoteWriteStart
      <3>2. t' \in TrackerType
        BY <2>3, AckIInv DEF IInv, TypeOK
      <3> QED
        BY <2>1, <3>1, <3>2 DEF IInv, QueueOrdered, Later, TrackerType, MaybeId, NoId
    <2>4. CASE WriteOffset
      <3>1. durable' \in {durable, t.writing} /\ t.writing # NoId
            /\ lastUpdateId' = Later(t'.writing, lastUpdateId)
        BY <2>4 DEF WriteOffset, NoteWriteStart
      <3>2. t' \in TrackerType
        BY <2>4, WriteIInv DEF IInv, TypeOK
      <3> QED
        BY <2>1, <3>1, <3>2 DEF IInv, QueueOrdered, Later, TrackerType, MaybeId, NoId
    <2> QED
      BY <2>2, <2>3, <2>4 DEF Next, BeginUpdate, RejectUpdate, TakeUpdate, CompleteUpdate,
                              FailUpdate, ForgetRecent
  <1> QED
    BY <1>1, Invariance, PTL DEF Spec, OffsetOnlyGrows

\* With no ack outstanding, everything that may be persisted has been asked for
\* (finishUpdate's ack after every completion).
THEOREM NothingForgotten == Spec => []NothingFinishedForgotten
  <1>1. Init => NothingFinishedForgotten
    <2> SUFFICES ASSUME Init PROVE NothingFinishedForgotten
      OBVIOUS
    <2>1. t \in TrackerType
      BY InitIInv DEF IInv, TypeOK
    <2>2. t.requested = t.completed
      BY DEF Init, NewTracker
    <2> QED
      BY <2>1, <2>2, SafeCompletedIsGreatest DEF NothingFinishedForgotten, TrackerType, MaybeId, NoId
  <1>2. IInv /\ IInv' /\ NothingFinishedForgotten /\ [Next]_vars => NothingFinishedForgotten'
    <2> SUFFICES ASSUME IInv, IInv', NothingFinishedForgotten, [Next]_vars, acks' = {}
                 PROVE  SafeCompleted(t)' <= t'.requested
      BY SafeCompletedIsGreatest
      DEF NothingFinishedForgotten, IInv, TypeOK, TrackerType, MaybeId, NoId
    <2> DEFINE safe == SafeCompleted(t)
               safeNow == SafeCompleted(t')
    <2>1. t \in TrackerType /\ t' \in TrackerType /\ safe \in MaybeId /\ safeNow \in MaybeId
      BY SafeCompletedIsGreatest DEF IInv, TypeOK
    \* The safe id does not rise unless an update completes: fewer updates hold it
    \* back, or the highest completed one is later, only then.
    <2>2. ASSUME Holding(t) \subseteq Holding(t'), t'.completed = t.completed
          PROVE  safeNow <= safe
      <3>1. /\ safeNow <= t.completed
            /\ \A v \in Holding(t) : safeNow < v \/ t.completed < v
        BY <2>1, <2>2, SafeCompletedIsGreatest
      <3>2. \A v \in Holding(t) : v \in Nat
        BY <2>1, UpdateIdsAssumption DEF Holding, TrackerType
      <3>3. \A v \in Holding(t) : safeNow < v
        <4> HIDE DEF safeNow
        <4> QED
          BY <2>1, <3>1, <3>2 DEF TrackerType, MaybeId, NoId
      <3> QED
        BY <2>1, <3>1, <3>3, SafeCompletedIsGreatest
    <2>3. CASE acks = {} /\ Holding(t) \subseteq Holding(t') /\ t'.completed = t.completed
               /\ t'.requested = t.requested
      <3>1. safeNow <= safe /\ safe <= t.requested
        BY <2>1, <2>2, <2>3 DEF NothingFinishedForgotten, TrackerType, MaybeId, NoId
      <3> HIDE DEF safe, safeNow
      <3>2. safeNow <= t'.requested
        BY <2>1, <2>3, <3>1 DEF TrackerType, MaybeId, NoId
      <3> QED
        BY <3>2 DEF safeNow
    <2>4. ASSUME NEW u \in UpdateIds, BeginUpdate(u)
          PROVE  Holding(t) \subseteq Holding(t') /\ t'.completed = t.completed
                 /\ t'.requested = t.requested /\ acks' = acks
      BY <2>1, <2>4 DEF BeginUpdate, Begin, Holding, TrackerType
    <2>5. ASSUME NEW u \in UpdateIds, FailUpdate(u)
          PROVE  Holding(t) \subseteq Holding(t') /\ t'.completed = t.completed
                 /\ t'.requested = t.requested /\ acks' = acks
      BY <2>1, <2>5 DEF FailUpdate, Fail, Holding, TrackerType
    <2>6. ASSUME NEW u \in UpdateIds, RejectUpdate(u) \/ TakeUpdate(u) \/ ForgetRecent(u)
          PROVE  Holding(t) \subseteq Holding(t') /\ t'.completed = t.completed
                 /\ t'.requested = t.requested /\ acks' = acks
      <3>1. CASE RejectUpdate(u)
        BY <3>1, RejectIInv DEF RejectUpdate
      <3>2. CASE TakeUpdate(u)
        BY <2>1, <3>2 DEF TakeUpdate, TakeDispatch, Holding, TrackerType
      <3>3. CASE ForgetRecent(u)
        BY <2>1, <3>3 DEF ForgetRecent, Holding, TrackerType
      <3> QED
        BY <2>6, <3>1, <3>2, <3>3
    <2>7. CASE WriteOffset
      <3>1. t.writing # NoId /\ t' = WriteSettled(t, TRUE) /\ acks' = acks
        BY <2>7 DEF WriteOffset
      <3>2. t'.completed = t.completed /\ t'.requested = t.requested
            /\ t'.floor = t.floor /\ t'.pending = t.pending /\ t'.failed = t.failed
        BY <2>1, <3>1, SettledFields
      <3> QED
        BY <2>3, <3>1, <3>2 DEF Holding
    \* Completing adds an ack, so the premise is false; delivering an ack asks for
    \* the safe id itself.
    <2>8. ASSUME NEW u \in UpdateIds, CompleteUpdate(u) PROVE FALSE
      BY <2>8 DEF CompleteUpdate
    <2>9. ASSUME NEW u \in UpdateIds, AckUpdate(u) PROVE safeNow <= t'.requested
      <3>1. t' = RequestPersist(t, safe)
        BY <2>9 DEF AckUpdate, PersistAfterAck
      <3>2. t'.completed = t.completed /\ t'.floor = t.floor
            /\ t'.pending = t.pending /\ t'.failed = t.failed
            /\ t'.requested = Later(safe, t.requested)
        <4> HIDE DEF safe
        <4> QED
          BY <2>1, <3>1, RequestFields
      <3>3. safeNow <= safe
        BY <2>2, <3>2 DEF Holding
      <3> HIDE DEF safe, safeNow
      <3> QED
        BY <2>1, <3>2, <3>3 DEF Later, TrackerType, MaybeId, NoId
    <2>10. CASE UNCHANGED vars
      BY <2>3, <2>10 DEF vars
    <2> QED
      BY <2>3, <2>4, <2>5, <2>6, <2>7, <2>8, <2>9, <2>10 DEF Next
  <1> QED
    BY <1>1, <1>2, Invariance, PTL DEF Spec
-----------------------------------------------------------------------------
(* Acceptance *)

\* What is behind the watermark was accepted, as long as updates come in order; and an update
\* that is done can come back neither as a failed one nor as a replay.
Remembered ==
    /\ t.initial <= t.accepted
    /\ t.pending \subseteq seen /\ \A u \in seen : u <= t.accepted
    /\ ~Isolated => \A u \in UpdateIds : t.initial < u /\ u <= t.accepted => u \in seen
    /\ \A u \in done :
          /\ u \in seen /\ u \notin t.pending \cup t.failed
          /\ IsFloorReplay(t, u) => u \in t.replayed

\* The queue of writes leaves alone what decides over acceptance.
LEMMA WritesLeave ==
    ASSUME NEW r \in TrackerType, NEW id \in MaybeId
    PROVE  /\ RequestPersist(r, id).initial = r.initial
           /\ RequestPersist(r, id).replayed = r.replayed
           /\ WriteSettled(r, TRUE).initial = r.initial
           /\ WriteSettled(r, TRUE).replayed = r.replayed
  BY DEF TrackerType, RequestPersist, WriteSettled, StartWrite

LEMMA InitRemembered == Init => Remembered /\ skipped = {}
  <1> SUFFICES ASSUME Init PROVE Remembered /\ skipped = {}
    OBVIOUS
  <1>1. PICK offset \in InitialOffsets : t = NewTracker(IF Isolated THEN NoId ELSE offset, offset)
    BY DEF Init
  <1>2. offset \in MaybeId /\ seen = {} /\ t.pending = {} /\ done = {} /\ skipped = {}
    BY <1>1, EnvironmentAssumption DEF Init, NewTracker
  <1>3. t.initial = t.accepted /\ t.initial \in MaybeId
    BY <1>1, <1>2 DEF NewTracker, MaybeId
  <1> QED
    BY <1>2, <1>3 DEF Remembered, MaybeId, NoId

\* An accepted update is new above the watermark, or it failed or is a replay: it is not done.
LEMMA BeginRemembered ==
    ASSUME IInv, Remembered, NEW u \in UpdateIds, BeginUpdate(u)
    PROVE  Remembered' /\ u \notin done
  <1> USE DEF BeginUpdate
  <1>1. t \in TrackerType /\ u \in Nat \ {0} /\ seen \subseteq UpdateIds /\ done \subseteq UpdateIds
    BY UpdateIdsAssumption DEF IInv, TypeOK
  <1>2. /\ t'.initial = t.initial /\ t'.floor = t.floor /\ t'.replayed = t.replayed
        /\ t'.pending = t.pending \cup {u} /\ t'.failed \subseteq t.failed
        /\ t'.accepted = Later(u, t.accepted)
        /\ seen' = seen \cup {u} /\ done' = done
    BY <1>1 DEF Begin, TrackerType
  <1>3. u \notin done
    <2>1. u > t.accepted \/ (IF IsFloorReplay(t, u) THEN u \notin t.replayed ELSE u \in t.failed)
      BY <1>1 DEF Rejects, WatermarkRejects, TrackerType, MaybeId, NoId
    <2>2. u > t.accepted => u \notin seen
      BY <1>1 DEF Remembered, TrackerType, MaybeId, NoId
    <2> QED
      BY <2>1, <2>2 DEF Remembered
  <1>4. t.accepted \in MaybeId /\ t.initial \in MaybeId /\ t'.accepted \in MaybeId
    BY <1>1, <1>2 DEF TrackerType, Later, MaybeId
  <1>5. t.initial <= t'.accepted /\ t.accepted <= t'.accepted /\ u <= t'.accepted
        /\ t'.accepted \in {t.accepted, u}
    BY <1>1, <1>2, <1>4 DEF Remembered, Later, MaybeId, NoId
  <1>6. \A v \in seen' : v <= t'.accepted
    <2> SUFFICES ASSUME NEW v \in seen, v \in Nat PROVE v <= t'.accepted
      BY <1>1, <1>2, <1>5, UpdateIdsAssumption
    <2>1. v <= t.accepted
      BY DEF Remembered
    <2> QED
      BY <2>1, <1>4, <1>5 DEF MaybeId, NoId
  <1>7. ASSUME ~Isolated, NEW v \in UpdateIds, t.initial < v, v <= t'.accepted PROVE v \in seen'
    <2>1. v \in Nat \ {0}
      BY UpdateIdsAssumption
    <2>2. CASE v <= t.accepted
      BY <1>2, <1>7, <2>2 DEF Remembered
    <2>3. CASE ~(v <= t.accepted)
      <3>1. v <= u
        BY <1>5, <1>7, <2>3
      <3>2. v = u \/ v < u
        BY <3>1, <2>1, <1>1
      <3>3. CASE v < u
        <4>1. u \notin seen
          BY <2>1, <2>3, <3>3, <1>1, <1>4 DEF Remembered, MaybeId, NoId
        <4>2. ~(u <= t.initial)
          BY <1>7, <2>1, <3>3, <1>1, <1>4 DEF MaybeId, NoId
        <4>3. v > t.initial
          BY <1>7, <2>1, <1>4 DEF MaybeId, NoId
        <4> QED
          BY <1>2, <1>7, <3>3, <4>1, <4>2, <4>3 DEF MayArrive
      <3> QED
        BY <1>2, <3>2, <3>3
    <2> QED
      BY <2>2, <2>3
  <1> QED
    BY <1>2, <1>3, <1>5, <1>6, <1>7 DEF Remembered, IsFloorReplay

LEMMA StepRemembered ==
    ASSUME IInv, Remembered, [Next]_vars
    PROVE  Remembered' /\ \A u \in done : u \notin t'.pending
  <1>1. t \in TrackerType /\ seen \subseteq UpdateIds /\ done \subseteq UpdateIds
    BY DEF IInv, TypeOK
  \* Steps that change nothing of what is remembered.
  <1>2. ASSUME t'.initial = t.initial, t'.floor = t.floor, t'.accepted = t.accepted,
               t'.replayed = t.replayed, t'.pending = t.pending, t'.failed = t.failed,
               UNCHANGED <<seen, done>>
        PROVE  Remembered' /\ \A u \in done : u \notin t'.pending
    BY <1>2 DEF Remembered, IsFloorReplay
  <1>3. ASSUME NEW u \in UpdateIds, BeginUpdate(u)
        PROVE  Remembered' /\ \A v \in done : v \notin t'.pending
    <2>1. t'.pending = t.pending \cup {u}
      BY <1>1, <1>3 DEF BeginUpdate, Begin, TrackerType
    <2> QED
      BY <1>3, <2>1, BeginRemembered DEF Remembered
  <1>4. ASSUME NEW u \in UpdateIds, RejectUpdate(u)
        PROVE  Remembered' /\ \A v \in done : v \notin t'.pending
    <2>1. t' = t /\ UNCHANGED <<seen, done>>
      BY <1>4, RejectIInv DEF RejectUpdate
    <2> QED
      BY <2>1, <1>2
  <1>5. ASSUME NEW u \in UpdateIds, TakeUpdate(u) \/ ForgetRecent(u)
        PROVE  Remembered' /\ \A v \in done : v \notin t'.pending
    BY <1>1, <1>2, <1>5 DEF TakeUpdate, TakeDispatch, ForgetRecent, TrackerType
  <1>6. ASSUME NEW u \in UpdateIds, CompleteUpdate(u)
        PROVE  Remembered' /\ \A v \in done : v \notin t'.pending
    <2>1. /\ u \in t.pending /\ done' = done \cup {u} /\ seen' = seen
          /\ t'.initial = t.initial /\ t'.floor = t.floor /\ t'.accepted = t.accepted
          /\ t'.pending = t.pending \ {u} /\ t'.failed = t.failed \ {u}
          /\ t'.replayed = IF IsFloorReplay(t, u) THEN t.replayed \cup {u} ELSE t.replayed
      BY <1>1, <1>6 DEF CompleteUpdate, Complete, TrackerType
    <2> QED
      BY <2>1 DEF Remembered, IsFloorReplay
  <1>7. ASSUME NEW u \in UpdateIds, FailUpdate(u)
        PROVE  Remembered' /\ \A v \in done : v \notin t'.pending
    <2>1. /\ u \in t.pending /\ done' = done /\ seen' = seen
          /\ t'.initial = t.initial /\ t'.floor = t.floor /\ t'.accepted = t.accepted
          /\ t'.pending = t.pending \ {u} /\ t'.failed = t.failed \cup {u}
          /\ t'.replayed = t.replayed
      BY <1>1, <1>7 DEF FailUpdate, Fail, TrackerType
    <2> QED
      BY <2>1 DEF Remembered, IsFloorReplay
  <1>8. ASSUME NEW u \in UpdateIds, AckUpdate(u)
        PROVE  Remembered' /\ \A v \in done : v \notin t'.pending
    <2> DEFINE safe == SafeCompleted(t)
    <2>1. t' = RequestPersist(t, safe) /\ safe \in MaybeId /\ UNCHANGED <<seen, done>>
      BY <1>1, <1>8, SafeCompletedIsGreatest DEF AckUpdate, PersistAfterAck
    <2> HIDE DEF safe
    <2> QED
      BY <1>1, <1>2, <2>1, RequestFields, WritesLeave
  <1>9. CASE WriteOffset
    <2>1. t' = WriteSettled(t, TRUE) /\ t.writing # NoId /\ UNCHANGED <<seen, done>>
      BY <1>9 DEF WriteOffset
    <2>2. NoId \in MaybeId
      BY DEF MaybeId
    <2> QED
      BY <1>1, <1>2, <2>1, <2>2, SettledFields, WritesLeave
  <1>10. CASE UNCHANGED vars
    BY <1>2, <1>10 DEF vars
  <1> QED
    BY <1>3, <1>4, <1>5, <1>6, <1>7, <1>8, <1>9, <1>10 DEF Next

\* Fed in the order of ids, the watermark rejects nothing unseen.
LEMMA StepSkipsNothing ==
    ASSUME IInv, Remembered, skipped = {}, ~Isolated, [Next]_vars
    PROVE  skipped' = {}
  <1>1. t \in TrackerType
    BY DEF IInv, TypeOK
  <1>2. ASSUME NEW u \in UpdateIds, RejectUpdate(u) PROVE skipped' = {}
    <2>1. u \in Nat \ {0}
      BY UpdateIdsAssumption
    <2>2. WatermarkRejects(t, u) /\ u > t.initial => u \in seen
      BY <1>1, <2>1 DEF WatermarkRejects, Remembered, TrackerType, MaybeId, NoId
    <2> QED
      BY <1>2, <2>2 DEF RejectUpdate
  <1> QED
    BY <1>2 DEF Next, vars, BeginUpdate, TakeUpdate, CompleteUpdate, FailUpdate, AckUpdate,
                ForgetRecent, WriteOffset

LEMMA RememberedAlways == Spec => [](IInv /\ Remembered)
  <1>1. Init => IInv /\ Remembered
    BY InitIInv, InitRemembered
  <1>2. IInv /\ Remembered /\ [Next]_vars => (IInv /\ Remembered)'
    BY StepIInv, StepRemembered
  <1> QED
    BY <1>1, <1>2, PTL DEF Spec

\* A completed update is never accepted again, in either mode: also when the cache of recent
\* updates has dropped it, and also when the spool replays it below the persisted floor
\* (beginUpdate).
THEOREM DoneStaysDone ==
    Spec => [][\A u \in done : u \notin t.pending => u \notin t'.pending]_vars
  <1>1. IInv /\ Remembered /\ [Next]_vars
            => [\A u \in done : u \notin t.pending => u \notin t'.pending]_vars
    BY StepRemembered
  <1> QED
    BY <1>1, RememberedAlways, PTL DEF Spec

\* Fed in getUpdates order, the watermark rejects no update that was not accepted before, and
\* no completed one is accepted again (beginUpdate, "accepted-watermark").
THEOREM OnlyUndoneAccepted ==
    ASSUME ~Isolated
    PROVE  Spec => AcceptsJustTheUndone
  <1> DEFINE Accepts == /\ skipped' = {}
                        /\ \A u \in done : u \notin t.pending => u \notin t'.pending
  <1>1. Init => skipped = {}
    BY DEF Init
  <1>2. IInv /\ Remembered /\ skipped = {} /\ [Next]_vars => (skipped = {})'
    BY StepSkipsNothing
  <1>3. IInv /\ Remembered /\ skipped = {} /\ [Next]_vars => [Accepts]_vars
    BY StepRemembered, StepSkipsNothing
  <1> QED
    BY <1>1, <1>2, <1>3, RememberedAlways, PTL DEF Spec, AcceptsJustTheUndone
=============================================================================
