------------------------ MODULE TelegramIngressProofs ------------------------
(***************************************************************************)
(* Proofs about isolated ingress, for any set of updates and lanes and any  *)
(* number of sessions, crashes, failures and timeouts.  A drain of a        *)
(* replaced session may run beside the one of the session that polls; the   *)
(* lanes it works on are stray, and the invariant says of every other lane  *)
(* that the session's own drain and the registered handler have it to       *)
(* themselves.                                                              *)
(***************************************************************************)
EXTENDS TelegramIngress, TLAPS, WellFoundedInduction

WorkerType == [state : {"polling", "ended"}, last : MaybeId, batch : SUBSET UpdateIds,
               waiting : UpdateIds \cup {NoId}]

RecordType == [status : {"none", "pending", "claimed", "failed"}, token : Nat]

DrainType ==
    [pc : {"idle", "recover", "claims", "list", "claim", "start", "timeouts", "fail", "grace",
           "restart"},
     snapshot : SUBSET Lanes, claimedLanes : SUBSET Lanes, blocked : SUBSET Lanes,
     list : SUBSET UpdateIds, claiming : [update : UpdateIds \cup {NoId}, token : Nat]]

HandlerType == [update : UpdateIds, token : Nat, session : Sessions,
                stage : {"handling", "deleting", "releasing", "failing"}]

\* A drain about to claim an update, or to start a handler on it.
Starting(s) == drain[s].pc \in {"claim", "start"}

TypeOK ==
    /\ serverOffset \in Nat
    /\ worker \in WorkerType
    /\ orphanWrites \subseteq UpdateIds
    /\ spool \in [UpdateIds -> RecordType]
    /\ session \in Sessions
    /\ drain \in [Sessions -> DrainType]
    /\ \A s \in Sessions : Starting(s) => drain[s].claiming.update \in UpdateIds
    /\ handlers \subseteq HandlerType
    /\ active \in [Lanes -> [update : UpdateIds \cup {NoId}, token : Nat, timedOut : BOOLEAN]]
    /\ tracker \in [Sessions -> TrackerType]
    /\ lastUpdateId \in MaybeId
    /\ durable \in MaybeId
    /\ handled \in [Sessions -> SUBSET UpdateIds]
    /\ dropped \subseteq UpdateIds
    /\ strayLanes \subseteq Lanes

\* A drain that may still start handlers.
Draining(s) == drain[s].pc \in {"recover", "claims", "list", "claim", "start"}

\* What a session's bot completed, its tracker remembers; later sessions have done nothing yet.
Remembered ==
    /\ \A s \in Sessions : (s = session \/ Draining(s)) => handled[s] \subseteq tracker[s].recent
    /\ \A s \in Sessions : s > session => handled[s] = {} /\ drain[s] = IdleDrain
    /\ \A h \in handlers : h.session <= session

SessionInv == TypeOK /\ Remembered

\* The lane a drain is about to start a handler on.
StartLane(s) == Lane[drain[s].claiming.update]

\* A lane that no drain of a replaced session worked on is left to the session that polls:
\* its drain claims on a lane that stays free, and the handlers of the lane that have not
\* settled are the one registered on it.
Stray(u) == Lane[u] \in strayLanes

StrayStarts ==
    \A s \in Sessions : At(s, "start") /\ s # session => StartLane(s) \in strayLanes

LaneFree ==
    Starting(session) => active[StartLane(session)] = NoHandler \/ StartLane(session) \in strayLanes

Registered(h) ==
    LET a == active[Lane[h.update]] IN a.update = h.update /\ a.token = h.token

HandlersRegistered ==
    /\ \A h \in handlers : Registered(h) \/ Stray(h.update)
    /\ \A g, h \in handlers : Lane[g.update] = Lane[h.update] => g = h \/ Stray(h.update)
    /\ \A l \in Lanes : active[l] # NoHandler =>
          \E h \in handlers : Lane[h.update] = l /\ Registered(h)

LaneInv == SessionInv /\ StrayStarts /\ LaneFree /\ HandlersRegistered

\* The updates that the spool has, that a handler has completed or that were dropped, and
\* those of stray lanes.
KeptIds ==
    {u \in UpdateIds : spool[u].status # "none" \/ Stray(u)} \cup EverHandled \cup dropped
KeptBelow(x) == \A v \in UpdateIds : v < x => v \in KeptIds
KeptUpTo(x) == \A v \in UpdateIds : v <= x => v \in KeptIds

\* A handler deletes the record of an update only when somebody is done with it: itself, the
\* earlier run for which the tracker rejects it, or nobody and it is dropped.
RemovedAreDone ==
    \A h \in handlers : h.stage = "deleting" => h.update \in EverHandled \cup dropped \/ Stray(h.update)

\* The spool is filled in the order of ids.  So whatever is spooled, listed, claimed or
\* handled, and every offset taken from that, has only kept updates below it.
WorkerInOrder ==
    /\ KeptBelow(serverOffset)
    /\ KeptUpTo(worker.last)
    /\ worker.waiting # NoId => KeptBelow(worker.waiting)
    /\ \A u \in worker.batch : \A v \in UpdateIds :
          v < u => v \in KeptIds \cup worker.batch \cup {worker.waiting}
    /\ \A u \in orphanWrites : KeptBelow(u)

SpooledInOrder ==
    /\ \A u \in UpdateIds : spool[u].status # "none" => KeptBelow(u)
    /\ \A s \in Sessions :
          /\ \A u \in drain[s].list : KeptUpTo(u)
          /\ Starting(s) => KeptUpTo(drain[s].claiming.update)
    /\ \A h \in handlers : KeptUpTo(h.update)

\* The ids that a tracker has completed or asked to persist.
OffsetsOf(t) == {t.completed, t.requested, t.target, t.writing}

OffsetsInOrder ==
    /\ KeptUpTo(lastUpdateId) /\ KeptUpTo(durable)
    /\ \A s \in Sessions : \A x \in OffsetsOf(tracker[s]) : KeptUpTo(x)

IngressInv ==
    LaneInv /\ RemovedAreDone /\ WorkerInOrder /\ SpooledInOrder /\ OffsetsInOrder

\* On a lane that is not stray, a handler that has not settled, or is about to start, has its
\* record claimed or dead-lettered; so the session's drain recovers no claim under it.
Held(u) == spool[u].status \in {"claimed", "failed"} \/ Stray(u)

RecordsHeld ==
    /\ \A h \in handlers : Held(h.update)
    /\ At(session, "recover") =>
          \A h \in handlers : Lane[h.update] \in drain[session].snapshot \/ Stray(h.update)
    /\ At(session, "start") => Held(drain[session].claiming.update)

\* The session's drain knows every lane with a claim.
ClaimsKnown ==
    drain[session].pc \in {"list", "claim", "start"} =>
        \A v \in UpdateIds : spool[v].status = "claimed" =>
            \/ Lane[v] \in drain[session].claimedLanes
            \/ At(session, "start") /\ v = drain[session].claiming.update
            \/ Stray(v)

\* Of the pending updates below one that the session's drain may start, it has every one
\* still listed, unless it met the lane guarded.
PassedKnown ==
    Starting(session) =>
        LET d == drain[session]
            ahead == d.list \cup {d.claiming.update}
        IN  /\ Lane[d.claiming.update] \notin d.claimedLanes
            /\ \A v \in d.list : v > d.claiming.update
            /\ \A x \in ahead : \A v \in UpdateIds \ (EverHandled \cup dropped) :
                  v < x /\ spool[v].status = "pending" =>
                      \/ v \in ahead \/ Lane[v] \in d.claimedLanes
                      \/ MetGuarded(session, Lane[v]) \/ Stray(v)

OrderInv == IngressInv /\ RecordsHeld /\ ClaimsKnown /\ PassedKnown

-----------------------------------------------------------------------------
USE UpdateIdsAssumption, IngressAssumption

-----------------------------------------------------------------------------
(* The operators *)

\* A non-empty set of update ids has a least element.
LEMMA LowestFacts ==
    ASSUME NEW S \in SUBSET UpdateIds, S # {}
    PROVE  Lowest(S) \in S /\ \A v \in S : Lowest(S) <= v
<1>1. IsWellFoundedOn(OpToRel(<, Nat), Nat)
    BY NatLessThanWellFounded
<1>2. S \subseteq Nat
    OBVIOUS
<1>3. PICK u \in S : \A v \in S : ~(<<v, u>> \in OpToRel(<, Nat))
    BY <1>1, <1>2, WFMin
<1>4. \A v \in S : u <= v
    <2> TAKE v \in S
    <2>1. ~(v < u)
        BY <1>2, <1>3 DEF OpToRel
    <2> QED BY <1>2, <2>1
<1> QED BY <1>4 DEF Lowest

\* The safe id does not exceed the highest completed one.
LEMMA SafeCompletedBounded ==
    ASSUME NEW t \in TrackerType
    PROVE  SafeCompleted(t) \in MaybeId /\ SafeCompleted(t) <= t.completed
<1> DEFINE held == {u \in Holding(t) : u <= t.completed}
<1>1. t.completed \in MaybeId /\ held \in SUBSET UpdateIds
    BY DEF TrackerType, Holding
<1>2. CASE held = {}
    BY <1>1, <1>2 DEF SafeCompleted, MaybeId, NoId
<1>3. CASE held # {}
    <2>1. SafeCompleted(t) = Lowest(held) - 1
        BY <1>3 DEF SafeCompleted, Lowest
    <2>2. Lowest(held) \in Nat \ {0} /\ Lowest(held) <= t.completed
        <3>1. Lowest(held) \in held
            <4> HIDE DEF held
            <4> QED BY <1>1, <1>3, LowestFacts
        <3> QED BY <1>1, <3>1
    <2> HIDE DEF held
    <2> QED BY <1>1, <2>1, <2>2 DEF MaybeId, NoId
<1> QED BY <1>2, <1>3

LEMMA TrackerTypes ==
    ASSUME NEW t \in TrackerType, NEW u \in UpdateIds
    PROVE  /\ Begin(t, u) \in TrackerType
           /\ Complete(t, u) \in TrackerType
           /\ Fail(t, u) \in TrackerType
<1>1. u \in MaybeId
    BY DEF MaybeId
<1>2. Later(u, t.accepted) \in MaybeId /\ Later(u, t.completed) \in MaybeId
    BY <1>1 DEF Later, TrackerType
<1>3. Begin(t, u) \in TrackerType
    BY <1>2 DEF Begin, TrackerType
<1>4. Complete(t, u) \in TrackerType
    BY <1>2 DEF Complete, TrackerType
<1>5. Fail(t, u) \in TrackerType
    BY DEF Fail, TrackerType
<1> QED BY <1>3, <1>4, <1>5

LEMMA StartWriteFacts ==
    ASSUME NEW t \in TrackerType
    PROVE  /\ StartWrite(t) \in TrackerType
           /\ StartWrite(t).recent = t.recent
           /\ StartWrite(t).completed = t.completed /\ StartWrite(t).requested = t.requested
           /\ {StartWrite(t).target, StartWrite(t).writing} \subseteq {t.target, t.writing, NoId}
<1>1. CASE t.writing = NoId /\ t.target # NoId
    <2>1. StartWrite(t) = [t EXCEPT !.writing = t.target, !.target = NoId]
        BY <1>1 DEF StartWrite
    <2>2. t.target \in MaybeId /\ NoId \in MaybeId
        BY DEF TrackerType, MaybeId
    <2> QED BY <2>1, <2>2 DEF TrackerType
<1>2. CASE ~(t.writing = NoId /\ t.target # NoId)
    BY <1>2 DEF StartWrite
<1> QED BY <1>1, <1>2

LEMMA StepOffsets ==
    ASSUME NEW t \in TrackerType, NEW u \in UpdateIds
    PROVE  /\ OffsetsOf(Begin(t, u)) = OffsetsOf(t)
           /\ OffsetsOf(Fail(t, u)) = OffsetsOf(t)
           /\ OffsetsOf(Complete(t, u)) \subseteq OffsetsOf(t) \cup {u}
           /\ Begin(t, u).recent = t.recent /\ Fail(t, u).recent = t.recent
           /\ Complete(t, u).recent = t.recent \cup {u}
BY DEF TrackerType, OffsetsOf, Begin, Complete, Fail, Later

LEMMA OffsetsAreInts == \A t \in TrackerType : OffsetsOf(t) \subseteq Int
<1> MaybeId \subseteq Int
    BY DEF MaybeId, NoId
<1> QED BY DEF OffsetsOf, TrackerType

LEMMA PersistFacts ==
    ASSUME NEW t \in TrackerType
    PROVE  /\ PersistAfterAck(t) \in TrackerType
           /\ PersistAfterAck(t).recent = t.recent
           /\ OffsetsOf(PersistAfterAck(t)) \subseteq OffsetsOf(t) \cup {SafeCompleted(t), NoId}
<1> DEFINE id == SafeCompleted(t)
           asked == [t EXCEPT !.requested = id, !.target = id]
<1>1. id \in MaybeId
    BY SafeCompletedBounded
<1> HIDE DEF id
<1>2. /\ asked \in TrackerType /\ asked.recent = t.recent
      /\ asked.completed = t.completed /\ asked.requested = id
      /\ asked.target = id /\ asked.writing = t.writing
    BY <1>1 DEF TrackerType
<1> HIDE DEF asked
<1>3. PersistAfterAck(t) = t \/ PersistAfterAck(t) = StartWrite(asked)
    BY DEF PersistAfterAck, RequestPersist, id, asked
<1> QED BY <1>2, <1>3, StartWriteFacts DEF OffsetsOf, id

LEMMA SettledFacts ==
    ASSUME NEW t \in TrackerType, t.writing # NoId
    PROVE  /\ WriteSettled(t, TRUE) \in TrackerType
           /\ WriteSettled(t, TRUE).recent = t.recent
           /\ OffsetsOf(WriteSettled(t, TRUE)) \subseteq OffsetsOf(t) \cup {NoId}
<1> DEFINE settled == [t EXCEPT !.persisted = Later(t.writing, @), !.writing = NoId]
<1>1. /\ settled \in TrackerType /\ settled.recent = t.recent
      /\ settled.completed = t.completed /\ settled.requested = t.requested
      /\ settled.target = t.target /\ settled.writing = NoId
    <2>1. Later(t.writing, t.persisted) \in MaybeId /\ NoId \in MaybeId
        BY DEF Later, TrackerType, MaybeId
    <2> QED BY <2>1 DEF TrackerType
<1>2. WriteSettled(t, TRUE) = StartWrite(settled)
    BY <1>1 DEF WriteSettled, TrackerType
<1> HIDE DEF settled
<1> QED BY <1>1, <1>2, StartWriteFacts DEF OffsetsOf

LEMMA NewTrackerFacts ==
    ASSUME NEW offset \in MaybeId
    PROVE  /\ NewTracker(NoId, offset) \in TrackerType
           /\ OffsetsOf(NewTracker(NoId, offset)) \subseteq {offset, NoId}
BY DEF NewTracker, TrackerType, OffsetsOf, MaybeId

\* What a scan finds: the least listed update whose lane is neither busy nor claimed.
Scanned(d, listed, claimed, blocked, busy) ==
    /\ d.pc \in {"claim", "timeouts"}
    /\ d.list \subseteq listed /\ blocked \subseteq d.blocked
    /\ d.pc = "claim" =>
          /\ d.claimedLanes = claimed
          /\ d.claiming.update \in listed
          /\ Lane[d.claiming.update] \notin busy \cup claimed
          /\ \A v \in listed :
                /\ v < d.claiming.update => Lane[v] \in (busy \cap d.blocked) \cup claimed
                /\ v > d.claiming.update <=> v \in d.list

LEMMA ScanFacts ==
    ASSUME NEW d \in DrainType, NEW busy \in SUBSET Lanes
    PROVE  /\ Scan(d, busy) \in DrainType
           /\ Scanned(Scan(d, busy), d.list, d.claimedLanes, d.blocked, busy)
<1> DEFINE claimable == {u \in d.list : Lane[u] \notin busy \cup d.claimedLanes}
           next == IF claimable = {} THEN NoId ELSE Lowest(claimable)
           passed == {u \in d.list : next = NoId \/ u < next}
           n == Scan(d, busy)
<1>1. d.list \in SUBSET UpdateIds
    BY DEF DrainType
<1>2. claimable # {} => next \in claimable /\ \A v \in claimable : next <= v
    <2>1. claimable \in SUBSET UpdateIds
        BY <1>1
    <2> HIDE DEF claimable
    <2> QED BY <2>1, LowestFacts
<1>3. next \in UpdateIds \cup {NoId} /\ (next = NoId <=> claimable = {})
    BY <1>1, <1>2 DEF NoId
<1>4. n = [d EXCEPT !.pc = IF next = NoId THEN "timeouts" ELSE "claim",
                    !.claimedLanes = IF next = NoId THEN {} ELSE @,
                    !.blocked = @ \cup ({Lane[u] : u \in passed} \cap busy),
                    !.list = @ \ (passed \cup {next}),
                    !.claiming = [update |-> next, token |-> 0]]
    BY DEF Scan
<1> HIDE DEF next
<1>5. /\ passed \subseteq d.list
      /\ next # NoId => \A v \in d.list : v > next <=> v \notin passed \cup {next}
    <2>1. ASSUME NEW v \in d.list, next # NoId PROVE v > next <=> v \notin passed \cup {next}
        <3>1. v \in Nat /\ next \in Nat
            BY <1>1, <1>3, <2>1
        <3>2. v \in passed <=> v < next
            BY <2>1
        <3> HIDE DEF passed
        <3> QED BY <3>1, <3>2
    <2> QED BY <2>1
<1>p. \A v \in d.list : next # NoId /\ v < next => v \in passed
    OBVIOUS
<1>6. claimable # {} => /\ next \in d.list /\ Lane[next] \notin busy \cup d.claimedLanes
                        /\ \A v \in d.list : v < next => Lane[v] \in busy \cup d.claimedLanes
    <2> SUFFICES ASSUME claimable # {}
                 PROVE  /\ next \in d.list /\ Lane[next] \notin busy \cup d.claimedLanes
                        /\ \A v \in d.list : v < next => Lane[v] \in busy \cup d.claimedLanes
        OBVIOUS
    <2>1. next \in d.list /\ Lane[next] \notin busy \cup d.claimedLanes
        BY <1>2
    <2>2. ASSUME NEW v \in d.list, v < next PROVE Lane[v] \in busy \cup d.claimedLanes
        <3>1. v \notin claimable
            <4>1. next \in Nat /\ v \in Nat
                BY <1>1, <2>1
            <4> HIDE DEF claimable
            <4> QED BY <1>2, <2>2, <4>1
        <3> QED BY <3>1
    <2> QED BY <2>1, <2>2
<1> HIDE DEF passed, claimable, n
<1>7. n \in DrainType
    <2>1. d.blocked \cup ({Lane[u] : u \in passed} \cap busy) \in SUBSET Lanes
        BY DEF DrainType
    <2>2. d.list \ (passed \cup {next}) \in SUBSET UpdateIds
        BY <1>1
    <2>3. [update |-> next, token |-> 0] \in [update : UpdateIds \cup {NoId}, token : Nat]
        BY <1>3
    <2> QED BY <1>4, <2>1, <2>2, <2>3 DEF DrainType
<1>8. /\ n.pc = (IF next = NoId THEN "timeouts" ELSE "claim")
      /\ n.list = d.list \ (passed \cup {next}) /\ (next # NoId => n.claimedLanes = d.claimedLanes)
      /\ n.blocked = d.blocked \cup ({Lane[u] : u \in passed} \cap busy)
      /\ n.claiming.update = next
    BY <1>4 DEF DrainType
<1>9. next # NoId => \A v \in d.list : v > next <=> v \in n.list
    BY <1>5, <1>8
<1>10. next # NoId => \A v \in d.list :
          v < next => Lane[v] \in (busy \cap n.blocked) \cup d.claimedLanes
    BY <1>3, <1>6, <1>8, <1>p
<1> QED BY <1>3, <1>6, <1>7, <1>8, <1>9, <1>10 DEF n, Scanned

LEMMA SendNextFacts ==
    ASSUME NEW last \in MaybeId, NEW batch \in SUBSET UpdateIds
    PROVE  LET w == SendNext(last, batch) IN
           /\ w \in WorkerType /\ w.last = last /\ w.batch \subseteq batch
           /\ w.waiting # NoId => w.waiting \in batch /\ \A v \in batch : w.waiting <= v
           /\ \A v \in batch : v \in w.batch \/ v = w.waiting
<1> DEFINE first == IF batch = {} THEN NoId ELSE Lowest(batch)
           rest == {u \in batch : \E v \in batch : v < u}
<1>1. batch # {} => first \in batch /\ \A v \in batch : first <= v
    BY LowestFacts
<1>2. batch = {} => first = NoId
    OBVIOUS
<1>3. SendNext(last, batch) = [state |-> "polling", last |-> last, batch |-> rest, waiting |-> first]
    BY DEF SendNext
<1> HIDE DEF first
<1>4. \A v \in batch : v \in rest \/ v = first
    <2>1. ASSUME NEW v \in batch, v # first PROVE first < v
        <3>1. first \in Nat /\ v \in Nat /\ first <= v
            BY <1>1
        <3> QED BY <2>1, <3>1
    <2> QED BY <1>1, <2>1
<1>5. rest \in SUBSET UpdateIds /\ rest \subseteq batch /\ first \in UpdateIds \cup {NoId}
    BY <1>1, <1>2
<1> HIDE DEF rest
<1> QED BY <1>1, <1>2, <1>3, <1>4, <1>5 DEF WorkerType

-----------------------------------------------------------------------------
(* Which steps change what *)

\* A drain begins, by the timer or as the last one of a session that throws.
BeginsDrain ==
    /\ At(session, "idle") /\ SetDrain(session, FirstStep)
    /\ UNCHANGED <<session, spool, handlers, active>>

SpoolSteps ==
    \/ SpoolUpdate \/ \E u \in UpdateIds : SpoolOrphan(u)
    \/ \E s \in Sessions : RecoverClaims(s) \/ ClaimUpdate(s) \/ DeadLetterTimedOut(s)
    \/ \E h \in handlers : FinishClaim(h)

HandlerSteps ==
    \/ \E s \in Sessions : StartHandler(s)
    \/ \E h \in handlers : Completes(h) \/ Throws(h) \/ FinishClaim(h) \/ FinishClaimFails(h)

MovedByTheirSteps ==
    /\ \/ UNCHANGED spoolVars \/ Poll \/ PollFails \/ SpoolUpdate \/ SpoolFails
       \/ \E u \in UpdateIds : SpoolOrphan(u)
       \/ RestartSession \/ Crash
    /\ UNCHANGED spool \/ SpoolSteps
    /\ UNCHANGED session \/ RestartSession \/ Crash
    /\ \/ UNCHANGED <<lastUpdateId, durable>>
       \/ \E h \in handlers : Completes(h)
       \/ \E s \in Sessions : WriteOffset(s)
       \/ Crash
    /\ \/ UNCHANGED drain \/ BeginsDrain
       \/ (\E s \in Sessions : DrainStep(s)) \/ Crash
    /\ UNCHANGED handlers \/ HandlerSteps \/ Crash
    /\ \/ UNCHANGED active \/ \E s \in Sessions : StartHandler(s) \/ DetectTimeout(s)
       \/ \E h \in handlers : FinishClaim(h) \/ FinishClaimFails(h)
       \/ Crash
    /\ \/ UNCHANGED tracker \/ \E s \in Sessions : StartHandler(s) \/ WriteOffset(s)
       \/ \E h \in handlers : Completes(h) \/ Throws(h)
       \/ RestartSession \/ Crash
    /\ UNCHANGED handled \/ \E h \in handlers : Completes(h)
    /\ UNCHANGED dropped \/ \E s \in Sessions : StartHandler(s)
    /\ \/ UNCHANGED strayLanes \/ \E s \in Sessions : RecoverClaims(s) \/ ClaimUpdate(s)
       \/ RestartSession

LEMMA Movers == [Next]_vars => MovedByTheirSteps
<1> SUFFICES ASSUME [Next]_vars PROVE MovedByTheirSteps
    OBVIOUS
<1> USE DEF MovedByTheirSteps, SpoolSteps, HandlerSteps, spoolVars, sessionVars
<1>1. CASE UNCHANGED vars
    BY <1>1 DEF vars
<1>2. CASE Poll \/ PollFails \/ SpoolUpdate \/ SpoolFails \/ \E u \in UpdateIds : SpoolOrphan(u)
    BY <1>2 DEF Poll, PollFails, SpoolUpdate, SpoolFails, SpoolOrphan, EndSession, BeginsDrain
<1>3. CASE StartDrain
    BY <1>3 DEF StartDrain, BeginsDrain
<1>4. ASSUME NEW s \in Sessions, DrainStep(s) PROVE MovedByTheirSteps
    <2>1. CASE RecoverClaims(s) \/ ListClaims(s) \/ ListPending(s)
        BY <1>4, <2>1 DEF RecoverClaims, ListClaims, ListPending
    <2>2. CASE ClaimUpdate(s) \/ ClaimMisses(s)
        BY <1>4, <2>2 DEF ClaimUpdate, ClaimMisses
    <2>3. CASE StartHandler(s)
        BY <1>4, <2>3 DEF StartHandler
    <2>4. CASE DetectTimeout(s) \/ NoTimeout(s) \/ DeadLetterTimedOut(s)
        BY <1>4, <2>4 DEF DetectTimeout, NoTimeout, DeadLetterTimedOut
    <2>5. CASE GraceMet(s) \/ GraceElapsed(s) \/ DrainFails(s)
        BY <1>4, <2>5 DEF GraceMet, GraceElapsed, DrainFails
    <2> QED BY <1>4, <2>1, <2>2, <2>3, <2>4, <2>5 DEF DrainStep
<1>5. ASSUME NEW s \in Sessions, WriteOffset(s) PROVE MovedByTheirSteps
    BY <1>5 DEF WriteOffset
<1>6. ASSUME NEW h \in handlers, Completes(h) \/ Throws(h) PROVE MovedByTheirSteps
    BY <1>6 DEF Completes, Throws
<1>7. ASSUME NEW h \in handlers, FinishClaim(h) \/ FinishClaimFails(h) PROVE MovedByTheirSteps
    BY <1>7 DEF FinishClaim, FinishClaimFails
<1>8. CASE RestartSession
    BY <1>8 DEF RestartSession, BeginSession
<1>9. CASE Crash
    BY <1>9 DEF Crash, BeginSession
<1> QED BY <1>1, <1>2, <1>3, <1>4, <1>5, <1>6, <1>7, <1>8, <1>9 DEF Next

-----------------------------------------------------------------------------
(* Types, and what trackers remember *)

LEMMA WorkerTyped ==
    ASSUME TypeOK, [Next]_vars
    PROVE  serverOffset' \in Nat /\ worker' \in WorkerType /\ orphanWrites' \subseteq UpdateIds
<1> USE DEF TypeOK
<1>1. worker.last \in MaybeId /\ worker.batch \in SUBSET UpdateIds
      /\ worker.waiting \in UpdateIds \cup {NoId}
    BY DEF WorkerType
<1>2. CASE UNCHANGED spoolVars
    BY <1>2 DEF spoolVars
<1>3. CASE Poll
    <2>1. serverOffset' \in Nat
        BY <1>1, <1>3 DEF Poll, Later, MaybeId, NoId
    <2>2. PICK newest : worker' = SendNext(worker.last, (serverOffset'..newest) \cap UpdateIds)
        BY <1>3 DEF Poll
    <2>3. worker' \in WorkerType
        BY <1>1, <2>2, SendNextFacts
    <2> QED BY <1>3, <2>1, <2>3 DEF Poll
<1>4. CASE SpoolUpdate
    <2>1. Later(worker.waiting, worker.last) \in MaybeId
        BY <1>1, <1>4 DEF SpoolUpdate, Later, MaybeId
    <2> QED BY <1>1, <1>4, <2>1, SendNextFacts DEF SpoolUpdate
<1>5. ASSUME NEW last \in MaybeId PROVE NewWorker(last) \in WorkerType
    BY DEF NewWorker, WorkerType
<1>6. CASE SpoolFails \/ PollFails
    <2>1. NoId \in MaybeId
        BY DEF MaybeId
    <2>2. /\ worker' = NewWorker(worker.last) \/ worker' = [NewWorker(NoId) EXCEPT !.state = "ended"]
          /\ UNCHANGED <<serverOffset, orphanWrites>>
        BY <1>6 DEF SpoolFails, PollFails, EndSession
    <2>3. [NewWorker(NoId) EXCEPT !.state = "ended"] \in WorkerType
        BY <1>5, <2>1 DEF WorkerType
    <2> QED BY <1>1, <1>5, <2>2, <2>3
<1>7. CASE \E u \in UpdateIds : SpoolOrphan(u)
    BY <1>7 DEF SpoolOrphan
<1>8. CASE RestartSession
    BY <1>1, <1>5, <1>8 DEF RestartSession, BeginSession
<1>9. CASE Crash
    BY <1>5, <1>9 DEF Crash, BeginSession
<1> QED BY <1>2, <1>3, <1>4, <1>6, <1>7, <1>8, <1>9, Movers DEF MovedByTheirSteps

\* Whatever a step does to a record of the spool, and on whose behalf.
RecordSteps(u) ==
    \/ spool'[u] = spool[u]
    \/ /\ spool[u].status = "none" /\ spool'[u].status = "pending"
       /\ u = worker.waiting \/ u \in orphanWrites
    \/ spool[u].status = "claimed" /\ spool'[u].status = "pending"
    \/ /\ spool[u].status = "pending" /\ spool'[u].status = "claimed"
       /\ \E s \in Sessions : ClaimUpdate(s) /\ u = drain[s].claiming.update
    \/ spool[u].status = "claimed" /\ spool'[u].status = "failed"
    \/ /\ spool[u].status = "claimed" /\ spool'[u].status = "none"
       /\ \E h \in handlers : h.update = u /\ h.stage = "deleting"

LEMMA EnqueueFacts ==
    ASSUME spool \in [UpdateIds -> RecordType], NEW w \in UpdateIds, Enqueue(w)
    PROVE  /\ spool' \in [UpdateIds -> RecordType]
           /\ \A u \in UpdateIds :
                 \/ spool'[u] = spool[u]
                 \/ u = w /\ spool[u].status = "none" /\ spool'[u].status = "pending"
           /\ spool'[w].status # "none"
<1> DEFINE record == [spool[w] EXCEPT !.status = "pending"]
<1>1. CASE spool[w].status = "none"
    <2>1. record \in RecordType /\ record.status = "pending"
        BY DEF RecordType
    <2>2. spool' = [spool EXCEPT ![w] = record]
        BY <1>1 DEF Enqueue
    <2> HIDE DEF record
    <2>3. spool' \in [UpdateIds -> RecordType]
        BY <2>1, <2>2
    <2>4. \A u \in UpdateIds : spool'[u] = IF u = w THEN record ELSE spool[u]
        BY <2>2
    <2> QED BY <1>1, <2>1, <2>3, <2>4
<1>2. CASE spool[w].status # "none"
    <2>1. spool' = spool
        BY <1>2 DEF Enqueue
    <2> QED BY <1>2, <2>1
<1> QED BY <1>1, <1>2

LEMMA SetStatusFacts ==
    ASSUME spool \in [UpdateIds -> RecordType], NEW w \in UpdateIds,
           NEW status \in {"none", "pending", "claimed", "failed"}, SetStatus(w, status)
    PROVE  /\ spool' \in [UpdateIds -> RecordType]
           /\ \A u \in UpdateIds : u # w => spool'[u] = spool[u]
           /\ spool'[w].status = status
<1> DEFINE record == [spool[w] EXCEPT !.status = status]
<1>1. record \in RecordType /\ record.status = status
    BY DEF RecordType
<1>2. spool' = [spool EXCEPT ![w] = record]
    BY DEF SetStatus
<1> HIDE DEF record
<1> QED BY <1>1, <1>2

LEMMA SpoolTyped ==
    ASSUME TypeOK, [Next]_vars
    PROVE  spool' \in [UpdateIds -> RecordType] /\ \A u \in UpdateIds : RecordSteps(u)
<1>0. /\ spool \in [UpdateIds -> RecordType] /\ worker \in WorkerType
      /\ orphanWrites \subseteq UpdateIds /\ handlers \subseteq HandlerType
    BY DEF TypeOK
<1> USE <1>0
<1>1. CASE UNCHANGED spool
    BY <1>1 DEF RecordSteps
<1>2. CASE SpoolUpdate
    <2>1. worker.waiting \in UpdateIds /\ Enqueue(worker.waiting)
        BY <1>2 DEF SpoolUpdate, WorkerType
    <2>2. \A u \in UpdateIds :
             \/ spool'[u] = spool[u]
             \/ /\ u = worker.waiting
                /\ spool[u].status = "none" /\ spool'[u].status = "pending"
        BY <2>1, EnqueueFacts
    <2>3. spool' \in [UpdateIds -> RecordType]
        BY <2>1, EnqueueFacts
    <2> QED BY <2>2, <2>3 DEF RecordSteps
<1>3. ASSUME NEW w \in UpdateIds, SpoolOrphan(w)
      PROVE  spool' \in [UpdateIds -> RecordType] /\ \A u \in UpdateIds : RecordSteps(u)
    <2>1. w \in orphanWrites /\ Enqueue(w)
        BY <1>3 DEF SpoolOrphan
    <2>2. \A u \in UpdateIds :
             \/ spool'[u] = spool[u]
             \/ /\ u \in orphanWrites
                /\ spool[u].status = "none" /\ spool'[u].status = "pending"
        BY <2>1, EnqueueFacts
    <2>3. spool' \in [UpdateIds -> RecordType]
        BY <2>1, EnqueueFacts
    <2> QED BY <2>2, <2>3 DEF RecordSteps
<1>4. ASSUME NEW s \in Sessions, RecoverClaims(s)
      PROVE  spool' \in [UpdateIds -> RecordType] /\ \A u \in UpdateIds : RecordSteps(u)
    <2>1. ASSUME NEW u \in UpdateIds
          PROVE  /\ [spool[u] EXCEPT !.status = "pending"] \in RecordType
                 /\ [spool[u] EXCEPT !.status = "pending"].status = "pending"
        BY DEF RecordType
    <2>2. ASSUME NEW u \in UpdateIds
          PROVE  \/ spool'[u] = spool[u]
                 \/ /\ spool[u].status = "claimed"
                    /\ spool'[u] = [spool[u] EXCEPT !.status = "pending"]
        BY <1>4 DEF RecoverClaims
    <2>3. spool' = [u \in UpdateIds |-> spool'[u]]
        BY <1>4 DEF RecoverClaims
    <2>4. \A u \in UpdateIds : spool'[u] \in RecordType
        BY <2>1, <2>2
    <2>5. spool' \in [UpdateIds -> RecordType]
        BY <2>3, <2>4
    <2> QED BY <2>1, <2>2, <2>5 DEF RecordSteps
<1>5. ASSUME NEW s \in Sessions, ClaimUpdate(s)
      PROVE  spool' \in [UpdateIds -> RecordType] /\ \A u \in UpdateIds : RecordSteps(u)
    <2> DEFINE w == drain[s].claiming.update
               record == [status |-> "claimed", token |-> spool[w].token + 1]
    <2>1. spool[w].status = "pending" /\ spool' = [spool EXCEPT ![w] = record]
        BY <1>5 DEF ClaimUpdate
    <2>2. CASE w \in UpdateIds
        <3>1. record \in RecordType /\ record.status = "claimed"
            <4>1. spool[w].token \in Nat
                BY <2>2 DEF RecordType
            <4>2. spool[w].token + 1 \in Nat
                BY <4>1
            <4> QED BY <4>2 DEF RecordType
        <3> HIDE DEF record
        <3>2. spool' \in [UpdateIds -> RecordType]
            BY <2>1, <3>1
        <3>3. \A u \in UpdateIds : spool'[u] = IF u = w THEN record ELSE spool[u]
            BY <2>1
        <3> QED BY <1>5, <2>1, <3>1, <3>2, <3>3 DEF RecordSteps
    <2>3. CASE w \notin UpdateIds
        BY <2>1, <2>3 DEF RecordSteps
    <2> QED BY <2>2, <2>3
<1>6. ASSUME NEW s \in Sessions, DeadLetterTimedOut(s)
      PROVE  spool' \in [UpdateIds -> RecordType] /\ \A u \in UpdateIds : RecordSteps(u)
    <2> DEFINE key == drain[s].claiming
    <2>1. UNCHANGED spool \/ (Claimed(key) /\ SetStatus(key.update, "failed"))
        BY <1>6 DEF DeadLetterTimedOut
    <2>2. CASE key.update \in UpdateIds /\ Claimed(key) /\ SetStatus(key.update, "failed")
        BY <2>2, SetStatusFacts DEF RecordSteps, Claimed
    <2>3. CASE key.update \notin UpdateIds /\ SetStatus(key.update, "failed")
        BY <2>3 DEF RecordSteps, SetStatus
    <2> QED BY <1>1, <2>1, <2>2, <2>3
<1>7. ASSUME NEW h \in handlers, FinishClaim(h)
      PROVE  spool' \in [UpdateIds -> RecordType] /\ \A u \in UpdateIds : RecordSteps(u)
    <2>1. CASE Claimed(h)
        <3>1. h.update \in UpdateIds
              /\ h.stage \in {"handling", "deleting", "releasing", "failing"}
            BY DEF HandlerType
        <3>2. ClaimOutcome(h) \in {"none", "pending", "failed"}
              /\ (ClaimOutcome(h) = "none" => h.stage = "deleting")
            BY <3>1 DEF ClaimOutcome
        <3>3. SetStatus(h.update, ClaimOutcome(h))
            BY <1>7, <2>1 DEF FinishClaim
        <3> QED BY <2>1, <3>1, <3>2, <3>3, SetStatusFacts DEF RecordSteps, Claimed
    <2>2. CASE ~Claimed(h)
        BY <1>1, <1>7, <2>2 DEF FinishClaim
    <2> QED BY <2>1, <2>2
<1> QED BY <1>1, <1>2, <1>3, <1>4, <1>5, <1>6, <1>7, Movers DEF MovedByTheirSteps, SpoolSteps

\* A step of the drain of s leaves the other drains alone.
OnlyDrain(s) ==
    drain' \in [Sessions -> DrainType] /\ \A r \in Sessions : r # s => drain'[r] = drain[r]

LEMMA SetDrainFacts ==
    ASSUME drain \in [Sessions -> DrainType], NEW s \in Sessions, NEW d \in DrainType,
           SetDrain(s, d)
    PROVE  OnlyDrain(s) /\ drain'[s] = d
BY DEF SetDrain, OnlyDrain

\* The three steps that go on to the next update of the list.
LEMMA Scans ==
    ASSUME TypeOK, NEW s \in Sessions
    PROVE  LET d == drain[s]
               u == d.claiming.update
           IN  /\ ListPending(s) =>
                     /\ Draining(s) /\ OnlyDrain(s)
                     /\ Scanned(drain'[s], {v \in UpdateIds : spool[v].status = "pending"},
                                d.claimedLanes, d.blocked, ActiveLanes)
               /\ ClaimMisses(s) =>
                     /\ Draining(s) /\ OnlyDrain(s)
                     /\ Scanned(drain'[s], d.list, d.claimedLanes \cup {Lane[u]}, d.blocked, ActiveLanes)
               /\ StartHandler(s) =>
                     /\ Draining(s) /\ OnlyDrain(s)
                     /\ Scanned(drain'[s], d.list, d.claimedLanes \cup {Lane[u]}, d.blocked,
                                ActiveLanes \cup {Lane[u]})
<1> DEFINE d == drain[s]
           u == d.claiming.update
           listed == [d EXCEPT !.list = {v \in UpdateIds : spool[v].status = "pending"}]
           passed == [d EXCEPT !.claimedLanes = @ \cup {Lane[u]}]
<1>1. d \in DrainType /\ drain \in [Sessions -> DrainType]
      /\ (Starting(s) => u \in UpdateIds)
    BY DEF TypeOK
<1>2. ActiveLanes \in SUBSET Lanes
    BY DEF ActiveLanes
<1>3. CASE ListPending(s)
    <2>1. At(s, "list") /\ SetDrain(s, Scan(listed, ActiveLanes))
        BY <1>3 DEF ListPending
    <2>2. /\ listed \in DrainType /\ listed.claimedLanes = d.claimedLanes
          /\ listed.blocked = d.blocked
          /\ listed.list = {v \in UpdateIds : spool[v].status = "pending"}
        <3>1. {v \in UpdateIds : spool[v].status = "pending"} \in SUBSET UpdateIds
            OBVIOUS
        <3> QED BY <1>1, <3>1 DEF DrainType
    <2>3. Scan(listed, ActiveLanes) \in DrainType
          /\ Scanned(Scan(listed, ActiveLanes), listed.list, listed.claimedLanes,
                     listed.blocked, ActiveLanes)
        BY <1>2, <2>2, ScanFacts
    <2>4. OnlyDrain(s) /\ drain'[s] = Scan(listed, ActiveLanes)
        BY <1>1, <2>1, <2>3, SetDrainFacts
    <2>5. ~ClaimMisses(s) /\ ~StartHandler(s)
        BY <2>1 DEF ClaimMisses, StartHandler, At
    <2> QED BY <2>1, <2>2, <2>3, <2>4, <2>5 DEF Draining, At
<1>4. CASE ClaimMisses(s) \/ StartHandler(s)
    <2>1. At(s, "claim") \/ At(s, "start")
        BY <1>4 DEF ClaimMisses, StartHandler
    <2>2. Starting(s) /\ Draining(s)
        BY <2>1 DEF At, Starting, Draining
    <2>3. u \in UpdateIds /\ Lane[u] \in Lanes
        BY <1>1, <2>2 DEF Lanes
    <2>4. /\ passed \in DrainType /\ passed.list = d.list /\ passed.blocked = d.blocked
          /\ passed.claimedLanes = d.claimedLanes \cup {Lane[u]}
        <3>1. d.claimedLanes \cup {Lane[u]} \in SUBSET Lanes
            BY <1>1, <2>3 DEF DrainType
        <3> QED BY <1>1, <3>1 DEF DrainType
    <2>5. ASSUME NEW busy \in SUBSET Lanes, SetDrain(s, Scan(passed, busy))
          PROVE  /\ OnlyDrain(s)
                 /\ Scanned(drain'[s], d.list, d.claimedLanes \cup {Lane[u]}, d.blocked, busy)
        <3>1. Scan(passed, busy) \in DrainType
              /\ Scanned(Scan(passed, busy), passed.list, passed.claimedLanes, passed.blocked,
                         busy)
            BY <2>4, ScanFacts
        <3>2. OnlyDrain(s) /\ drain'[s] = Scan(passed, busy)
            BY <1>1, <2>5, <3>1, SetDrainFacts
        <3> QED BY <2>4, <3>1, <3>2
    <2>6. ASSUME ClaimMisses(s) PROVE SetDrain(s, Scan(passed, ActiveLanes)) /\ ~StartHandler(s)
        BY <2>6 DEF ClaimMisses, StartHandler, At
    <2>7. ASSUME StartHandler(s)
          PROVE SetDrain(s, Scan(passed, ActiveLanes \cup {Lane[u]})) /\ ~ClaimMisses(s)
        BY <2>7 DEF ClaimMisses, StartHandler, At
    <2>8. ~ListPending(s)
        BY <2>1 DEF ListPending, At
    <2>9. ActiveLanes \cup {Lane[u]} \in SUBSET Lanes
        BY <1>2, <2>3
    <2> HIDE DEF passed
    <2>10. CASE ClaimMisses(s)
        BY <1>2, <2>2, <2>5, <2>6, <2>8, <2>10
    <2>11. CASE StartHandler(s)
        BY <2>2, <2>5, <2>7, <2>8, <2>9, <2>11
    <2> QED BY <1>4, <2>10, <2>11
<1> QED BY <1>3, <1>4

\* The steps that do not go on to another update.
DrainWaits(s) ==
    \/ /\ ~Draining(s) /\ s = session /\ BeginsDrain
       /\ drain'[s].pc = "recover" /\ drain'[s].list = {} /\ drain'[s].snapshot = ActiveLanes
    \/ /\ At(s, "recover") /\ drain'[s].pc = "claims" /\ RecoverClaims(s)
       /\ drain'[s].list = drain[s].list
    \/ /\ At(s, "claims") /\ drain'[s].pc = "list" /\ ListClaims(s)
       /\ drain'[s].list = drain[s].list
       /\ \A v \in UpdateIds :
             spool[v].status = "claimed" => Lane[v] \in drain'[s].claimedLanes
    \/ /\ At(s, "claim") /\ drain'[s].pc = "start" /\ ClaimUpdate(s)
       /\ drain'[s].claiming.update = drain[s].claiming.update
       /\ drain'[s].list = drain[s].list /\ drain'[s].claimedLanes = drain[s].claimedLanes
       /\ drain'[s].blocked = drain[s].blocked
    \/ /\ drain'[s].pc \in {"idle", "fail", "grace", "restart"}
       /\ drain'[s].list \subseteq drain[s].list

LEMMA Waits ==
    ASSUME TypeOK, NEW s \in Sessions,
           \/ s = session /\ BeginsDrain
           \/ DrainStep(s) /\ ~(ListPending(s) \/ ClaimMisses(s) \/ StartHandler(s))
    PROVE  OnlyDrain(s) /\ DrainWaits(s)
<1>1. drain[s] \in DrainType /\ drain \in [Sessions -> DrainType]
    BY DEF TypeOK
<1> USE DEF At
<1>2. CASE s = session /\ BeginsDrain
    <2> DEFINE d == [IdleDrain EXCEPT !.pc = "recover", !.snapshot = ActiveLanes]
    <2>1. At(s, "idle") /\ SetDrain(s, d)
        BY <1>2 DEF BeginsDrain, FirstStep
    <2>2. d \in DrainType /\ d.pc = "recover" /\ d.list = {} /\ d.snapshot = ActiveLanes
        <3>1. ActiveLanes \in SUBSET Lanes
            BY DEF ActiveLanes
        <3> QED BY <3>1 DEF DrainType, IdleDrain, NoKey
    <2> HIDE DEF d
    <2> QED BY <1>1, <1>2, <2>1, <2>2, SetDrainFacts DEF DrainWaits, Draining
<1>3. CASE RecoverClaims(s)
    <2> DEFINE d == [drain[s] EXCEPT !.pc = "claims", !.snapshot = {}]
    <2>1. At(s, "recover") /\ SetDrain(s, d)
        BY <1>3 DEF RecoverClaims
    <2>2. d \in DrainType /\ d.pc = "claims" /\ d.list = drain[s].list
        BY <1>1 DEF DrainType
    <2> HIDE DEF d
    <2> QED BY <1>1, <1>3, <2>1, <2>2, SetDrainFacts DEF DrainWaits
<1>4. CASE ListClaims(s)
    <2> DEFINE lanes == {Lane[u] : u \in {v \in UpdateIds : spool[v].status = "claimed"}}
               d == [drain[s] EXCEPT !.pc = "list", !.claimedLanes = lanes]
    <2>1. At(s, "claims") /\ SetDrain(s, d)
        BY <1>4 DEF ListClaims
    <2>2. lanes \in SUBSET Lanes /\ \A v \in UpdateIds : spool[v].status = "claimed" => Lane[v] \in lanes
        BY DEF Lanes
    <2> HIDE DEF lanes
    <2>3. d \in DrainType /\ d.pc = "list" /\ d.list = drain[s].list /\ d.claimedLanes = lanes
        BY <1>1, <2>2 DEF DrainType
    <2> HIDE DEF d
    <2> QED BY <1>1, <1>4, <2>1, <2>2, <2>3, SetDrainFacts DEF DrainWaits
<1>5. CASE ClaimUpdate(s)
    <2> DEFINE token == spool[drain[s].claiming.update].token + 1
               key == [drain[s].claiming EXCEPT !.token = token]
               d == [drain[s] EXCEPT !.pc = "start", !.claiming = key]
    <2>1. At(s, "claim") /\ SetDrain(s, d)
        BY <1>5 DEF ClaimUpdate
    <2>2. drain[s].claiming.update \in UpdateIds
        BY <2>1 DEF TypeOK, Starting
    <2>3. token \in Nat
        <3>1. spool[drain[s].claiming.update].token \in Nat
            BY <2>2 DEF TypeOK, RecordType
        <3> QED BY <3>1
    <2> HIDE DEF token
    <2>4. key \in [update : UpdateIds \cup {NoId}, token : Nat]
          /\ key.update = drain[s].claiming.update
        BY <1>1, <2>3 DEF DrainType
    <2> HIDE DEF key
    <2>5. /\ d \in DrainType /\ d.pc = "start" /\ d.claiming = key
          /\ d.list = drain[s].list /\ d.claimedLanes = drain[s].claimedLanes
          /\ d.blocked = drain[s].blocked
        BY <1>1, <2>4 DEF DrainType
    <2> HIDE DEF d
    <2> QED BY <1>1, <1>5, <2>1, <2>4, <2>5, SetDrainFacts DEF DrainWaits
<1>6. ASSUME NEW d \in DrainType, SetDrain(s, d), d.list \subseteq drain[s].list,
             d.pc \in {"idle", "fail", "grace", "restart"}
      PROVE  OnlyDrain(s) /\ DrainWaits(s)
    BY <1>1, <1>6, SetDrainFacts DEF DrainWaits
<1>7. IdleDrain \in DrainType /\ IdleDrain.list = {} /\ IdleDrain.pc = "idle"
    BY DEF IdleDrain, NoKey, DrainType
<1>8. CASE NoTimeout(s) \/ GraceElapsed(s) \/ DrainFails(s)
    <2>1. SetDrain(s, IdleDrain)
        BY <1>8 DEF NoTimeout, GraceElapsed, DrainFails
    <2> QED BY <1>6, <1>7, <2>1
<1>9. CASE DetectTimeout(s)
    <2>1. PICK l \in drain[s].blocked :
             SetDrain(s, [IdleDrain EXCEPT !.pc = "fail",
                          !.claiming = [update |-> active[l].update, token |-> active[l].token]])
        BY <1>9 DEF DetectTimeout
    <2> DEFINE key == [update |-> active[l].update, token |-> active[l].token]
               d == [IdleDrain EXCEPT !.pc = "fail", !.claiming = key]
    <2>2. key \in [update : UpdateIds \cup {NoId}, token : Nat]
        <3>1. l \in Lanes
            BY <1>1 DEF DrainType
        <3> QED BY <3>1 DEF TypeOK
    <2> HIDE DEF key
    <2>3. d \in DrainType /\ d.list = {} /\ d.pc = "fail"
        BY <2>2 DEF IdleDrain, NoKey, DrainType
    <2>4. SetDrain(s, d)
        BY <2>1 DEF key
    <2> HIDE DEF d
    <2> QED BY <1>6, <2>3, <2>4
<1>10. CASE GraceMet(s)
    <2> DEFINE d == [IdleDrain EXCEPT !.pc = "restart"]
    <2>1. SetDrain(s, d)
        BY <1>10 DEF GraceMet
    <2>2. d \in DrainType /\ d.list = {} /\ d.pc = "restart"
        BY DEF IdleDrain, NoKey, DrainType
    <2> HIDE DEF d
    <2> QED BY <1>6, <2>1, <2>2
<1>11. CASE DeadLetterTimedOut(s)
    <2> DEFINE d == [drain[s] EXCEPT !.pc = "grace"]
    <2>1. SetDrain(s, IdleDrain) \/ SetDrain(s, d)
        BY <1>11 DEF DeadLetterTimedOut
    <2>2. d \in DrainType /\ d.list = drain[s].list /\ d.pc = "grace"
        BY <1>1 DEF DrainType
    <2> HIDE DEF d
    <2> QED BY <1>6, <1>7, <2>1, <2>2
<1> QED BY <1>2, <1>3, <1>4, <1>5, <1>8, <1>9, <1>10, <1>11 DEF DrainStep

\* The drain takes one of the two kinds of steps, or none.
LEMMA DrainTyped ==
    ASSUME TypeOK, [Next]_vars
    PROVE  /\ drain' \in [Sessions -> DrainType]
           /\ \A s \in Sessions : Starting(s)' => drain'[s].claiming.update \in UpdateIds
<1>1. drain \in [Sessions -> DrainType]
      /\ \A s \in Sessions : Starting(s) => drain[s].claiming.update \in UpdateIds
    BY DEF TypeOK
<1>2. CASE UNCHANGED drain
    BY <1>1, <1>2 DEF Starting
<1>3. ASSUME NEW s \in Sessions, OnlyDrain(s),
             drain'[s].pc \in {"claim", "start"} => drain'[s].claiming.update \in UpdateIds
      PROVE  /\ drain' \in [Sessions -> DrainType]
             /\ \A r \in Sessions : Starting(r)' => drain'[r].claiming.update \in UpdateIds
    BY <1>1, <1>3 DEF OnlyDrain, Starting
<1>4. ASSUME NEW s \in Sessions, OnlyDrain(s), DrainWaits(s)
      PROVE  drain'[s].pc \in {"claim", "start"} => drain'[s].claiming.update \in UpdateIds
    BY <1>1, <1>4 DEF DrainWaits, Starting, At
<1>5. CASE BeginsDrain
    <2>1. session \in Sessions
        BY DEF TypeOK
    <2> QED BY <1>3, <1>4, <1>5, <2>1, Waits
<1>6. ASSUME NEW s \in Sessions, DrainStep(s)
      PROVE  /\ drain' \in [Sessions -> DrainType]
             /\ \A r \in Sessions : Starting(r)' => drain'[r].claiming.update \in UpdateIds
    <2>1. CASE ListPending(s) \/ ClaimMisses(s) \/ StartHandler(s)
        <3>1. PICK listed, claimed, blocked, busy :
                 /\ listed \subseteq UpdateIds
                 /\ OnlyDrain(s) /\ Scanned(drain'[s], listed, claimed, blocked, busy)
            <4>1. drain[s].list \subseteq UpdateIds
                  /\ {v \in UpdateIds : spool[v].status = "pending"} \subseteq UpdateIds
                BY <1>1 DEF DrainType
            <4>2. CASE ListPending(s)
                BY <4>1, <4>2, Scans
            <4>3. CASE ClaimMisses(s)
                BY <4>1, <4>3, Scans
            <4>4. CASE StartHandler(s)
                BY <4>1, <4>4, Scans
            <4> QED BY <2>1, <4>2, <4>3, <4>4
        <3>2. drain'[s].pc \in {"claim", "start"} => drain'[s].claiming.update \in UpdateIds
            BY <3>1 DEF Scanned
        <3> QED BY <1>3, <3>1, <3>2
    <2>2. CASE ~(ListPending(s) \/ ClaimMisses(s) \/ StartHandler(s))
        BY <1>3, <1>4, <1>6, <2>2, Waits
    <2> QED BY <2>1, <2>2
<1>7. CASE Crash
    <2>1. drain' = [s \in Sessions |-> IdleDrain]
        BY <1>7 DEF Crash
    <2>2. IdleDrain \in DrainType /\ IdleDrain.pc = "idle"
        BY DEF IdleDrain, NoKey, DrainType
    <2> HIDE DEF IdleDrain
    <2> QED BY <2>1, <2>2 DEF Starting
<1> QED BY <1>2, <1>5, <1>6, <1>7, Movers DEF MovedByTheirSteps

\* What starting a handler does.
Starts(s, g) ==
    LET u == drain[s].claiming.update
    IN  /\ handlers' = handlers \cup {g} /\ g \in HandlerType
        /\ u \in UpdateIds /\ g.update = u /\ g.session = s
        /\ g.stage = "handling" <=> ~Rejects(tracker[s], u)
        /\ g.stage \in {"handling", "deleting"}
        /\ active' = [active EXCEPT ![Lane[u]] =
                         [update |-> u, token |-> g.token, timedOut |-> FALSE]]

LEMMA StartFacts ==
    ASSUME TypeOK, NEW s \in Sessions, StartHandler(s)
    PROVE  Draining(s) /\ Starting(s) /\ \E g \in HandlerType : Starts(s, g)
<1> DEFINE u == drain[s].claiming.update
           stage == IF ~Rejects(tracker[s], u) THEN "handling" ELSE "deleting"
           g == [update |-> u, token |-> drain[s].claiming.token, session |-> s, stage |-> stage]
<1>1. Draining(s) /\ Starting(s)
    BY DEF StartHandler, At, Draining, Starting
<1>2. u \in UpdateIds /\ drain[s].claiming.token \in Nat
    BY <1>1 DEF TypeOK, DrainType
<1>3. stage \in {"handling", "deleting"} /\ (stage = "handling" <=> ~Rejects(tracker[s], u))
    OBVIOUS
<1>4. handlers' = handlers \cup {g}
    BY DEF StartHandler
<1>5. active' = [active EXCEPT ![Lane[u]] =
                    [update |-> u, token |-> drain[s].claiming.token, timedOut |-> FALSE]]
    BY DEF StartHandler
<1> HIDE DEF stage
<1>6. g \in HandlerType /\ g.update = u /\ g.session = s /\ g.stage = stage
      /\ g.token = drain[s].claiming.token
    BY <1>2, <1>3 DEF HandlerType
<1> HIDE DEF g
<1>7. Starts(s, g)
    BY <1>2, <1>3, <1>4, <1>5, <1>6 DEF Starts
<1> QED BY <1>1, <1>6, <1>7

\* What a change of a handler's stage does.
Stages(h, g) ==
    /\ handlers' = (handlers \ {h}) \cup {g}
    /\ g \in HandlerType
    /\ g.update = h.update /\ g.token = h.token /\ g.session = h.session
    /\ g.stage # "handling"

LEMMA StageFacts ==
    ASSUME handlers \subseteq HandlerType, NEW h \in handlers,
           NEW stage \in {"deleting", "releasing", "failing"}, Stage(h, stage)
    PROVE  \E g \in HandlerType : Stages(h, g) /\ g.stage = stage
<1> DEFINE g == [h EXCEPT !.stage = stage]
<1>1. /\ g \in HandlerType /\ g.update = h.update /\ g.token = h.token
      /\ g.session = h.session /\ g.stage = stage
    BY DEF HandlerType
<1>2. handlers' = (handlers \ {h}) \cup {g}
    BY DEF Stage
<1> HIDE DEF g
<1>3. Stages(h, g) /\ g.stage = stage
    BY <1>1, <1>2 DEF Stages
<1> QED BY <1>1, <1>3

\* What a handler step does to the handlers, other than starting one.
Removes(h) == handlers' = handlers \ {h} /\ Settles(h)

LEMMA HandlerMoves ==
    ASSUME TypeOK, NEW h \in handlers
    PROVE  /\ Completes(h) => \E g \in HandlerType : Stages(h, g) /\ g.stage = "deleting"
           /\ Throws(h) => \E g \in HandlerType : Stages(h, g) /\ g.stage # "deleting"
           /\ FinishClaim(h) => Removes(h)
           /\ FinishClaimFails(h) =>
                 \/ /\ UNCHANGED active
                    /\ \E g \in HandlerType : Stages(h, g) /\ g.stage # "deleting"
                 \/ Removes(h)
<1>1. handlers \subseteq HandlerType
    BY DEF TypeOK
<1>2. ASSUME Completes(h)
      PROVE  \E g \in HandlerType : Stages(h, g) /\ g.stage = "deleting"
    BY <1>1, <1>2, StageFacts DEF Completes
<1>3. ASSUME Throws(h)
      PROVE  \E g \in HandlerType : Stages(h, g) /\ g.stage # "deleting"
    <2>1. PICK next \in {"releasing", "failing"} : Stage(h, next)
        BY <1>3 DEF Throws
    <2>2. \E g \in HandlerType : Stages(h, g) /\ g.stage = next
        BY <1>1, <2>1, StageFacts
    <2> QED BY <2>2
<1>4. FinishClaim(h) => Removes(h)
    BY DEF FinishClaim, Removes, Settles
<1>5. ASSUME FinishClaimFails(h)
      PROVE  \/ /\ UNCHANGED active
                /\ \E g \in HandlerType : Stages(h, g) /\ g.stage # "deleting"
             \/ Removes(h)
    <2>1. CASE h.stage = "failing"
        <3>1. Stage(h, "releasing") /\ UNCHANGED active
            BY <1>5, <2>1 DEF FinishClaimFails
        <3>2. \E g \in HandlerType : Stages(h, g) /\ g.stage = "releasing"
            BY <1>1, <3>1, StageFacts
        <3> QED BY <3>1, <3>2
    <2>2. CASE h.stage # "failing"
        BY <1>5, <2>2 DEF FinishClaimFails, Removes, Settles
    <2> QED BY <2>1, <2>2
<1> QED BY <1>2, <1>3, <1>4, <1>5

LEMMA HandlersTyped ==
    ASSUME TypeOK, [Next]_vars
    PROVE  handlers' \subseteq HandlerType
<1>1. handlers \subseteq HandlerType
    BY DEF TypeOK
<1>2. ASSUME NEW s \in Sessions, StartHandler(s) PROVE handlers' \subseteq HandlerType
    <2>1. PICK g \in HandlerType : Starts(s, g)
        BY <1>2, StartFacts
    <2> QED BY <1>1, <2>1 DEF Starts
<1>3. ASSUME NEW h \in handlers, Completes(h) \/ Throws(h) \/ FinishClaim(h) \/ FinishClaimFails(h)
      PROVE  handlers' \subseteq HandlerType
    <2>1. (\E g \in HandlerType : Stages(h, g)) \/ Removes(h)
        BY <1>3, HandlerMoves
    <2> QED BY <1>1, <2>1 DEF Stages, Removes
<1>4. CASE Crash
    BY <1>4 DEF Crash
<1> QED BY <1>1, <1>2, <1>3, <1>4, Movers DEF MovedByTheirSteps, HandlerSteps

LEMMA ActiveTyped ==
    ASSUME TypeOK, [Next]_vars
    PROVE  active' \in [Lanes -> [update : UpdateIds \cup {NoId}, token : Nat, timedOut : BOOLEAN]]
<1> DEFINE T == [update : UpdateIds \cup {NoId}, token : Nat, timedOut : BOOLEAN]
<1>1. active \in [Lanes -> T] /\ handlers \subseteq HandlerType /\ NoHandler \in T
    BY DEF TypeOK, NoHandler
<1>2. ASSUME NEW s \in Sessions, StartHandler(s) PROVE active' \in [Lanes -> T]
    <2>1. PICK g \in HandlerType : Starts(s, g)
        BY <1>2, StartFacts
    <2>2. [update |-> g.update, token |-> g.token, timedOut |-> FALSE] \in T
        BY DEF HandlerType
    <2>3. active' = [active EXCEPT ![Lane[g.update]] =
                        [update |-> g.update, token |-> g.token, timedOut |-> FALSE]]
        BY <2>1 DEF Starts
    <2> HIDE DEF T
    <2> QED BY <1>1, <2>2, <2>3
<1>3. ASSUME NEW s \in Sessions, DetectTimeout(s) PROVE active' \in [Lanes -> T]
    <2>1. PICK l \in drain[s].blocked :
             active' = [active EXCEPT ![l] = [active[l] EXCEPT !.timedOut = TRUE]]
        BY <1>3 DEF DetectTimeout
    <2>2. l \in Lanes
        BY DEF TypeOK, DrainType
    <2>3. [active[l] EXCEPT !.timedOut = TRUE] \in T
        <3>1. active[l] \in T
            BY <1>1, <2>2
        <3> QED BY <3>1
    <2> HIDE DEF T
    <2> QED BY <1>1, <2>1, <2>3
<1>4. ASSUME NEW h \in handlers, FinishClaim(h) \/ FinishClaimFails(h) PROVE active' \in [Lanes -> T]
    <2>1. UNCHANGED active \/ Settles(h)
        BY <1>4 DEF FinishClaim, FinishClaimFails
    <2>2. Lane[h.update] \in Lanes
        BY <1>1 DEF HandlerType, Lanes
    <2> HIDE DEF T
    <2> QED BY <1>1, <2>1, <2>2 DEF Settles
<1>5. ASSUME Crash PROVE active' \in [Lanes -> T]
    <2>1. active' = [l \in Lanes |-> NoHandler]
        BY <1>5 DEF Crash
    <2>2. NoHandler \in T
        BY <1>1
    <2> HIDE DEF T
    <2> QED BY <2>1, <2>2
<1> QED BY <1>1, <1>2, <1>3, <1>4, <1>5, Movers DEF MovedByTheirSteps

\* Completing an update and asking to persist: nothing is asked for beyond the highest
\* completed id.
Acked(t, u) == PersistAfterAck(Complete(t, u))

LEMMA AckedFacts ==
    ASSUME NEW t \in TrackerType, NEW u \in UpdateIds
    PROVE  /\ Acked(t, u) \in TrackerType /\ Acked(t, u).recent = t.recent \cup {u}
           /\ \A x \in OffsetsOf(Acked(t, u)) : \E y \in OffsetsOf(t) \cup {u, NoId} : x <= y
<1> DEFINE c == Complete(t, u)
<1>1. /\ c \in TrackerType /\ c.recent = t.recent \cup {u}
      /\ OffsetsOf(c) \subseteq OffsetsOf(t) \cup {u}
    BY TrackerTypes, StepOffsets
<1> HIDE DEF c
<1>2. /\ PersistAfterAck(c) \in TrackerType /\ PersistAfterAck(c).recent = c.recent
      /\ OffsetsOf(PersistAfterAck(c)) \subseteq OffsetsOf(c) \cup {SafeCompleted(c), NoId}
    BY <1>1, PersistFacts
<1>3. SafeCompleted(c) <= c.completed /\ c.completed \in OffsetsOf(c)
    BY <1>1, SafeCompletedBounded DEF OffsetsOf
<1>4. OffsetsOf(t) \subseteq MaybeId /\ u \in MaybeId /\ NoId \in MaybeId
    BY DEF OffsetsOf, TrackerType, MaybeId
<1>5. \A x \in MaybeId : x <= x
    BY DEF MaybeId, NoId
<1>6. \A x \in OffsetsOf(PersistAfterAck(c)) : \E y \in OffsetsOf(t) \cup {u, NoId} : x <= y
    BY <1>1, <1>2, <1>3, <1>4, <1>5
<1> QED BY <1>1, <1>2, <1>6 DEF Acked, c

LEMMA TrackerTyped ==
    ASSUME TypeOK, [Next]_vars
    PROVE  tracker' \in [Sessions -> TrackerType]
<1>1. /\ tracker \in [Sessions -> TrackerType] /\ handlers \subseteq HandlerType
      /\ lastUpdateId \in MaybeId /\ durable \in MaybeId /\ NoId \in MaybeId
    BY DEF TypeOK, MaybeId
<1>2. ASSUME NEW s \in Sessions, StartHandler(s) PROVE tracker' \in [Sessions -> TrackerType]
    <2>1. drain[s].claiming.update \in UpdateIds
        BY <1>2, StartFacts DEF TypeOK
    <2>2. tracker' = tracker \/ tracker' = [tracker EXCEPT ![s] = Begin(@, drain[s].claiming.update)]
        BY <1>2 DEF StartHandler
    <2> QED BY <1>1, <2>1, <2>2, TrackerTypes
<1>3. ASSUME NEW s \in Sessions, WriteOffset(s) PROVE tracker' \in [Sessions -> TrackerType]
    BY <1>1, <1>3, SettledFacts DEF WriteOffset
<1>4. ASSUME NEW h \in handlers, Completes(h) PROVE tracker' \in [Sessions -> TrackerType]
    <2>1. tracker' = [tracker EXCEPT ![h.session] = Acked(@, h.update)]
        BY <1>4 DEF Completes, Acked
    <2> QED BY <1>1, <2>1, AckedFacts DEF HandlerType
<1>5. ASSUME NEW h \in handlers, Throws(h) PROVE tracker' \in [Sessions -> TrackerType]
    BY <1>1, <1>5, TrackerTypes DEF Throws, HandlerType
<1>6. CASE RestartSession
    BY <1>1, <1>6, NewTrackerFacts DEF RestartSession, BeginSession
<1>7. CASE Crash
    BY <1>1, <1>7, NewTrackerFacts DEF Crash, BeginSession
<1> QED BY <1>1, <1>2, <1>3, <1>4, <1>5, <1>6, <1>7, Movers DEF MovedByTheirSteps

\* A stray lane stays one.
LEMMA StraysTyped ==
    ASSUME TypeOK, [Next]_vars
    PROVE  strayLanes' \subseteq Lanes /\ strayLanes \subseteq strayLanes'
<1>1. strayLanes \subseteq Lanes /\ \A u \in UpdateIds : Lane[u] \in Lanes
    BY DEF TypeOK, Lanes
<1>2. ASSUME NEW s \in Sessions, NEW lanes \in SUBSET Lanes, NoteLanes(s, lanes)
      PROVE  strayLanes' \subseteq Lanes /\ strayLanes \subseteq strayLanes'
    BY <1>1, <1>2 DEF NoteLanes
<1>3. ASSUME NEW s \in Sessions, RecoverClaims(s)
      PROVE  strayLanes' \subseteq Lanes /\ strayLanes \subseteq strayLanes'
    <2> DEFINE stale == {u \in UpdateIds : spool[u].status = "claimed" /\ Lane[u] \notin drain[s].snapshot}
               lanes == {Lane[u] : u \in stale}
    <2>1. NoteLanes(s, lanes)
        BY <1>3 DEF RecoverClaims
    <2>2. lanes \in SUBSET Lanes
        BY <1>1
    <2> HIDE DEF lanes
    <2> QED BY <1>2, <2>1, <2>2
<1>4. ASSUME NEW s \in Sessions, ClaimUpdate(s)
      PROVE  strayLanes' \subseteq Lanes /\ strayLanes \subseteq strayLanes'
    <2>1. drain[s].claiming.update \in UpdateIds
        BY <1>4 DEF ClaimUpdate, At, TypeOK, Starting
    <2>2. NoteLanes(s, {Lane[drain[s].claiming.update]})
        BY <1>4 DEF ClaimUpdate
    <2> QED BY <1>1, <1>2, <2>1, <2>2
<1>5. CASE RestartSession
    <2>1. At(session, "start") => drain[session].claiming.update \in UpdateIds
        BY DEF At, TypeOK, Starting
    <2> QED BY <1>1, <1>5, <2>1 DEF RestartSession
<1> QED BY <1>1, <1>3, <1>4, <1>5, Movers DEF MovedByTheirSteps

LEMMA RestTyped ==
    ASSUME TypeOK, [Next]_vars
    PROVE  /\ session' \in Sessions
           /\ lastUpdateId' \in MaybeId /\ durable' \in MaybeId
           /\ handled' \in [Sessions -> SUBSET UpdateIds] /\ dropped' \subseteq UpdateIds
<1>1. session' \in Sessions
    <2>1. CASE RestartSession \/ Crash
        <3>1. session' = session + 1 /\ session < MaxSessions
            BY <2>1 DEF RestartSession, Crash, BeginSession
        <3> QED BY <3>1 DEF TypeOK, Sessions
    <2>2. CASE UNCHANGED session
        BY <2>2 DEF TypeOK
    <2> QED BY <2>1, <2>2, Movers DEF MovedByTheirSteps
<1>2. lastUpdateId' \in MaybeId /\ durable' \in MaybeId
    <2>1. ASSUME NEW s \in Sessions, lastUpdateId' = Later(tracker'[s].writing, lastUpdateId),
                 durable' = durable \/ durable' = tracker[s].writing
          PROVE  lastUpdateId' \in MaybeId /\ durable' \in MaybeId
        <3>1. tracker'[s].writing \in MaybeId
            BY TrackerTyped DEF TrackerType
        <3>2. tracker[s].writing \in MaybeId
            BY DEF TypeOK, TrackerType
        <3> QED BY <2>1, <3>1, <3>2 DEF Later, TypeOK
    <2>2. ASSUME NEW h \in handlers, Completes(h) PROVE lastUpdateId' \in MaybeId /\ durable' \in MaybeId
        <3>1. h.session \in Sessions
            BY DEF TypeOK, HandlerType
        <3> QED BY <2>1, <2>2, <3>1 DEF Completes
    <2>3. ASSUME NEW s \in Sessions, WriteOffset(s) PROVE lastUpdateId' \in MaybeId /\ durable' \in MaybeId
        BY <2>1, <2>3 DEF WriteOffset
    <2>4. CASE Crash
        BY <2>4 DEF Crash, BeginSession, TypeOK
    <2>5. CASE UNCHANGED <<lastUpdateId, durable>>
        BY <2>5 DEF TypeOK
    <2> QED BY <2>2, <2>3, <2>4, <2>5, Movers DEF MovedByTheirSteps
<1>3. handled' \in [Sessions -> SUBSET UpdateIds]
    <2>1. ASSUME NEW h \in handlers, Completes(h) PROVE handled' \in [Sessions -> SUBSET UpdateIds]
        <3>1. h.update \in UpdateIds
            BY DEF TypeOK, HandlerType
        <3>2. handled' = [handled EXCEPT ![h.session] = handled[h.session] \cup {h.update}]
            BY <2>1 DEF Completes
        <3> QED BY <3>1, <3>2 DEF TypeOK
    <2> QED BY <2>1, Movers DEF MovedByTheirSteps, TypeOK
<1>4. dropped' \subseteq UpdateIds
    <2>1. ASSUME NEW s \in Sessions, StartHandler(s) PROVE dropped' \subseteq UpdateIds
        <3>1. drain[s].claiming.update \in UpdateIds
            BY <2>1, StartFacts DEF TypeOK
        <3>2. dropped' \subseteq dropped \cup {drain[s].claiming.update}
            BY <2>1 DEF StartHandler
        <3> QED BY <3>1, <3>2 DEF TypeOK
    <2> QED BY <2>1, Movers DEF MovedByTheirSteps, TypeOK
<1> QED BY <1>1, <1>2, <1>3, <1>4

LEMMA TypeInit == Init => TypeOK
<1> SUFFICES ASSUME Init PROVE TypeOK
    OBVIOUS
<1> USE DEF Init
<1>1. /\ serverOffset \in Nat /\ orphanWrites \subseteq UpdateIds /\ dropped \subseteq UpdateIds
      /\ strayLanes \subseteq Lanes
    OBVIOUS
<1>2. worker \in WorkerType
    BY DEF NewWorker, WorkerType, MaybeId
<1>3. spool \in [UpdateIds -> RecordType]
    <2>1. [status |-> "none", token |-> 0] \in RecordType
        BY DEF RecordType
    <2> QED BY <2>1
<1>4. session \in Sessions
    BY DEF Sessions
<1>5. drain \in [Sessions -> DrainType] /\ \A s \in Sessions : ~Starting(s)
    <2>1. IdleDrain \in DrainType /\ IdleDrain.pc = "idle"
        BY DEF IdleDrain, NoKey, DrainType
    <2> HIDE DEF IdleDrain
    <2> QED BY <2>1 DEF Starting
<1>6. handlers \subseteq HandlerType
    OBVIOUS
<1>7. active \in [Lanes -> [update : UpdateIds \cup {NoId}, token : Nat, timedOut : BOOLEAN]]
    BY DEF NoHandler
<1>8. NoId \in MaybeId /\ lastUpdateId \in MaybeId /\ durable \in MaybeId
    BY DEF MaybeId
<1>9. tracker \in [Sessions -> TrackerType]
    BY <1>8, NewTrackerFacts
<1>10. handled \in [Sessions -> SUBSET UpdateIds]
    OBVIOUS
<1> QED BY <1>1, <1>2, <1>3, <1>4, <1>5, <1>6, <1>7, <1>8, <1>9, <1>10 DEF TypeOK

LEMMA TypeStep == TypeOK /\ [Next]_vars => TypeOK'
<1> SUFFICES ASSUME TypeOK, [Next]_vars PROVE TypeOK'
    OBVIOUS
<1>1. /\ serverOffset' \in Nat /\ worker' \in WorkerType /\ orphanWrites' \subseteq UpdateIds
      /\ spool' \in [UpdateIds -> RecordType]
      /\ drain' \in [Sessions -> DrainType]
      /\ \A s \in Sessions : Starting(s)' => drain'[s].claiming.update \in UpdateIds
      /\ handlers' \subseteq HandlerType
      /\ active' \in [Lanes -> [update : UpdateIds \cup {NoId}, token : Nat, timedOut : BOOLEAN]]
      /\ tracker' \in [Sessions -> TrackerType]
    BY WorkerTyped, SpoolTyped, DrainTyped, HandlersTyped, ActiveTyped, TrackerTyped
<1>2. /\ session' \in Sessions /\ lastUpdateId' \in MaybeId /\ durable' \in MaybeId
      /\ handled' \in [Sessions -> SUBSET UpdateIds] /\ dropped' \subseteq UpdateIds
      /\ strayLanes' \subseteq Lanes
    BY RestTyped, StraysTyped
<1> QED BY <1>1, <1>2 DEF TypeOK

\* A tracker forgets nothing it completed; a session's first tracker is a new one.
LEMMA TrackersRemember ==
    ASSUME TypeOK, [Next]_vars, ~Crash, NEW r \in Sessions, RestartSession => r # session + 1
    PROVE  tracker[r].recent \subseteq tracker'[r].recent
<1>1. tracker \in [Sessions -> TrackerType] /\ handlers \subseteq HandlerType
    BY DEF TypeOK
<1>2. ASSUME NEW s \in Sessions, StartHandler(s) PROVE tracker[r].recent \subseteq tracker'[r].recent
    <2>1. drain[s].claiming.update \in UpdateIds
        BY <1>2, StartFacts DEF TypeOK
    <2>2. tracker' = tracker \/ tracker' = [tracker EXCEPT ![s] = Begin(@, drain[s].claiming.update)]
        BY <1>2 DEF StartHandler
    <2>3. Begin(tracker[s], drain[s].claiming.update).recent = tracker[s].recent
        BY <1>1, <2>1, StepOffsets
    <2> QED BY <1>1, <2>2, <2>3
<1>3. ASSUME NEW s \in Sessions, WriteOffset(s) PROVE tracker[r].recent \subseteq tracker'[r].recent
    BY <1>1, <1>3, SettledFacts DEF WriteOffset
<1>4. ASSUME NEW h \in handlers, Completes(h) PROVE tracker[r].recent \subseteq tracker'[r].recent
    <2>1. tracker' = [tracker EXCEPT ![h.session] = Acked(@, h.update)]
        BY <1>4 DEF Completes, Acked
    <2> QED BY <1>1, <2>1, AckedFacts DEF HandlerType
<1>5. ASSUME NEW h \in handlers, Throws(h) PROVE tracker[r].recent \subseteq tracker'[r].recent
    <2>1. tracker' = [tracker EXCEPT ![h.session] = Fail(@, h.update)]
        BY <1>5 DEF Throws
    <2>2. h.session \in Sessions /\ h.update \in UpdateIds
        BY <1>1 DEF HandlerType
    <2>3. Fail(tracker[h.session], h.update).recent = tracker[h.session].recent
        BY <1>1, <2>2, StepOffsets
    <2> QED BY <1>1, <2>1, <2>2, <2>3
<1>6. CASE RestartSession
    BY <1>1, <1>6 DEF RestartSession, BeginSession
<1> QED BY <1>2, <1>3, <1>4, <1>5, <1>6, Movers DEF MovedByTheirSteps

\* A drain that drains did so before, or has just been started by the session that polls.
LEMMA DrainKeeps ==
    ASSUME TypeOK, [Next]_vars, NEW r \in Sessions, Draining(r)'
    PROVE  Draining(r) \/ (r = session /\ session' = session)
<1>1. drain'[r].pc \in {"recover", "claims", "list", "claim", "start"}
    BY DEF Draining
<1>2. ASSUME DrainWaits(r), UNCHANGED session PROVE Draining(r) \/ (r = session /\ session' = session)
    BY <1>1, <1>2 DEF DrainWaits, Draining, At
<1>3. CASE UNCHANGED drain
    BY <1>1, <1>3 DEF Draining
<1>4. CASE BeginsDrain
    <2>1. UNCHANGED session
        BY <1>4 DEF BeginsDrain
    <2>2. session \in Sessions
        BY DEF TypeOK
    <2>3. OnlyDrain(session)
        BY <1>4, <2>2, Waits
    <2> QED BY <1>1, <2>1, <2>2, <2>3 DEF OnlyDrain, Draining
<1>5. ASSUME NEW s \in Sessions, DrainStep(s)
      PROVE  Draining(r) \/ (r = session /\ session' = session)
    <2>1. CASE ListPending(s) \/ ClaimMisses(s) \/ StartHandler(s)
        <3>1. Draining(s) /\ OnlyDrain(s)
            BY <2>1, Scans
        <3> QED BY <1>1, <3>1 DEF OnlyDrain, Draining
    <2>2. CASE ~(ListPending(s) \/ ClaimMisses(s) \/ StartHandler(s))
        <3>1. OnlyDrain(s) /\ DrainWaits(s)
            BY <1>5, <2>2, Waits
        <3>2. UNCHANGED session
            BY <1>5, <2>2 DEF DrainStep, RecoverClaims, ListClaims, ClaimUpdate, DetectTimeout,
                  NoTimeout, DeadLetterTimedOut, GraceMet, GraceElapsed, DrainFails, sessionVars
        <3> QED BY <1>1, <1>2, <3>1, <3>2 DEF OnlyDrain, Draining
    <2> QED BY <2>1, <2>2
<1>6. CASE Crash
    BY <1>1, <1>6 DEF Crash, IdleDrain
<1> QED BY <1>3, <1>4, <1>5, <1>6, Movers DEF MovedByTheirSteps

\* A drain that is not idle is the only one that can step.
LEMMA IdleStays ==
    ASSUME TypeOK, [Next]_vars, NEW r \in Sessions, drain[r] = IdleDrain, r # session
    PROVE  drain'[r] = IdleDrain
<1>1. drain[r].pc = "idle"
    BY DEF IdleDrain
<1>2. CASE BeginsDrain
    <2>1. OnlyDrain(session) /\ session \in Sessions
        BY <1>2, Waits DEF TypeOK
    <2> QED BY <2>1 DEF OnlyDrain
<1>3. ASSUME NEW s \in Sessions, DrainStep(s) PROVE drain'[r] = IdleDrain
    <2>1. OnlyDrain(s)
        BY <1>3, Scans, Waits
    <2>2. s # r
        BY <1>1, <1>3 DEF DrainStep, At, RecoverClaims, ListClaims, ListPending, ClaimUpdate,
              ClaimMisses, StartHandler, DetectTimeout, NoTimeout, DeadLetterTimedOut, GraceMet,
              GraceElapsed, DrainFails
    <2> QED BY <2>1, <2>2 DEF OnlyDrain
<1>4. CASE Crash
    BY <1>4 DEF Crash
<1> QED BY <1>2, <1>3, <1>4, Movers DEF MovedByTheirSteps

LEMMA SessionInit == Init => SessionInv
<1> SUFFICES ASSUME Init PROVE SessionInv
    OBVIOUS
<1>1. \A s \in Sessions : handled[s] = {} /\ drain[s] = IdleDrain
    BY DEF Init
<1>2. handlers = {}
    BY DEF Init
<1>3. Remembered
    BY <1>1, <1>2 DEF Remembered
<1> QED BY <1>3, TypeInit DEF SessionInv

LEMMA SessionStep == SessionInv /\ [Next]_vars => SessionInv'
<1> SUFFICES ASSUME TypeOK, Remembered, [Next]_vars PROVE Remembered'
    BY TypeStep DEF SessionInv
<1>0. /\ session \in Sessions /\ session' \in Sessions
      /\ handled \in [Sessions -> SUBSET UpdateIds] /\ handlers \subseteq HandlerType
      /\ tracker \in [Sessions -> TrackerType]
    BY RestTyped DEF TypeOK
<1>1. session' = session \/ ((RestartSession \/ Crash) /\ session' = session + 1)
    BY Movers DEF MovedByTheirSteps, RestartSession, Crash, BeginSession
<1>2. ASSUME NEW s \in Sessions, s = session' \/ Draining(s)'
      PROVE  handled'[s] \subseteq tracker'[s].recent
    <2>1. CASE Crash
        <3>1. handled' = handled /\ session' = session + 1 /\ ~Draining(s)'
            BY <2>1 DEF Crash, BeginSession, Draining, IdleDrain
        <3>2. handled[session + 1] = {}
            BY <1>0, <1>2, <3>1 DEF Remembered, Sessions
        <3> QED BY <1>2, <3>1, <3>2
    <2>2. CASE RestartSession /\ s = session + 1
        <3>1. handled' = handled
            BY <2>2 DEF RestartSession, BeginSession
        <3>2. handled[s] = {}
            BY <1>0, <2>2 DEF Remembered, Sessions
        <3> QED BY <3>1, <3>2
    <2>3. CASE ~Crash /\ (RestartSession => s # session + 1)
        <3>1. handled[s] \subseteq tracker[s].recent
            BY <1>1, <1>2, <2>3, DrainKeeps DEF Remembered
        <3>2. tracker[s].recent \subseteq tracker'[s].recent
            BY <2>3, TrackersRemember
        <3>3. CASE UNCHANGED handled
            BY <3>1, <3>2, <3>3
        <3>4. ASSUME NEW h \in handlers, Completes(h) PROVE handled'[s] \subseteq tracker'[s].recent
            <4>1. tracker' = [tracker EXCEPT ![h.session] = Acked(@, h.update)]
                BY <3>4 DEF Completes, Acked
            <4>2. handled' = [handled EXCEPT ![h.session] = handled[h.session] \cup {h.update}]
                BY <3>4 DEF Completes
            <4>3. h.session \in Sessions /\ h.update \in UpdateIds
                BY <1>0 DEF HandlerType
            <4>4. CASE s = h.session
                <5>1. tracker'[s].recent = tracker[s].recent \cup {h.update}
                    BY <1>0, <4>1, <4>3, <4>4, AckedFacts
                <5> QED BY <1>0, <3>1, <4>2, <4>4, <5>1
            <4>5. CASE s # h.session
                BY <1>0, <3>1, <3>2, <4>2, <4>5
            <4> QED BY <4>4, <4>5
        <3> QED BY <3>3, <3>4, Movers DEF MovedByTheirSteps
    <2> QED BY <2>1, <2>2, <2>3
<1>3. ASSUME NEW s \in Sessions, s > session'
      PROVE  handled'[s] = {} /\ drain'[s] = IdleDrain
    <2>1. s > session /\ s # session
        BY <1>0, <1>1, <1>3 DEF Sessions
    <2>2. handled[s] = {} /\ drain[s] = IdleDrain
        BY <2>1 DEF Remembered
    <2>3. drain'[s] = IdleDrain
        BY <2>1, <2>2, IdleStays
    <2>4. ASSUME NEW h \in handlers, Completes(h) PROVE handled'[s] = handled[s]
        <3>1. h.session # s
            BY <1>0, <2>1 DEF Remembered, HandlerType, Sessions
        <3> QED BY <1>0, <2>4, <3>1 DEF Completes
    <2> QED BY <2>2, <2>3, <2>4, Movers DEF MovedByTheirSteps
<1>4. ASSUME NEW h \in handlers' PROVE h.session <= session'
    <2>1. session <= session'
        BY <1>0, <1>1 DEF Sessions
    <2>2. ASSUME NEW g \in handlers, g.session = h.session PROVE h.session <= session'
        <3>1. g.session <= session /\ g.session \in Sessions
            BY <1>0 DEF Remembered, HandlerType
        <3> QED BY <1>0, <2>1, <2>2, <3>1 DEF Sessions
    <2>3. CASE UNCHANGED handlers
        BY <2>2, <2>3
    <2>4. ASSUME NEW s \in Sessions, StartHandler(s) PROVE h.session <= session'
        <3>1. PICK g \in HandlerType : Starts(s, g)
            BY <2>4, StartFacts
        <3>2. CASE h = g
            <4>1. drain[s].pc # "idle"
                BY <2>4 DEF StartHandler, At
            <4>2. ~(s > session)
                BY <4>1 DEF Remembered, IdleDrain
            <4> QED BY <1>0, <2>1, <3>1, <3>2, <4>2 DEF Starts, Sessions
        <3> QED BY <2>2, <3>1, <3>2 DEF Starts
    <2>5. ASSUME NEW k \in handlers,
                 Completes(k) \/ Throws(k) \/ FinishClaim(k) \/ FinishClaimFails(k)
          PROVE  h.session <= session'
        <3>1. (\E g \in HandlerType : Stages(k, g)) \/ Removes(k)
            BY <2>5, HandlerMoves
        <3> QED BY <2>2, <3>1 DEF Stages, Removes
    <2>6. CASE Crash
        BY <2>6 DEF Crash
    <2> QED BY <2>3, <2>4, <2>5, <2>6, Movers DEF MovedByTheirSteps, HandlerSteps
<1> QED BY <1>2, <1>3, <1>4 DEF Remembered, Draining

LEMMA SessionInvariant == Spec => []SessionInv
<1> USE SessionInit, SessionStep
<1> QED BY PTL DEF Spec

-----------------------------------------------------------------------------
(* What holds for all constants *)

\* A handler that begins to handle an update has just been started.
LEMMA NewHandlers ==
    ASSUME TypeOK, [Next]_vars, NEW h \in handlers' \ handlers, h.stage = "handling"
    PROVE  \E s \in Sessions : StartHandler(s) /\ Starts(s, h)
<1>1. ASSUME NEW s \in Sessions, StartHandler(s)
      PROVE  \E r \in Sessions : StartHandler(r) /\ Starts(r, h)
    <2>1. PICK g \in HandlerType : Starts(s, g)
        BY <1>1, StartFacts
    <2>2. h = g
        BY <2>1 DEF Starts
    <2> QED BY <1>1, <2>1, <2>2
<1>2. ASSUME NEW k \in handlers, Completes(k) \/ Throws(k) \/ FinishClaim(k) \/ FinishClaimFails(k)
      PROVE  FALSE
    <2>1. (\E g \in HandlerType : Stages(k, g)) \/ Removes(k)
        BY <1>2, HandlerMoves
    <2> QED BY <2>1 DEF Stages, Removes
<1>3. CASE Crash
    BY <1>3 DEF Crash
<1> QED BY <1>1, <1>2, <1>3, Movers DEF MovedByTheirSteps, HandlerSteps

\* An update that was dead-lettered stays so, however late its handler deletes, releases or
\* fails its claim: none of the steps on a record, of whatever session, takes a failed one.
THEOREM DeadLettersAreFinal == Spec => DeadLetterFinal
<1>1. ASSUME SessionInv, [Next]_vars, NEW u \in UpdateIds, spool[u].status = "failed"
      PROVE  spool'[u].status = "failed"
    BY <1>1, SpoolTyped DEF SessionInv, RecordSteps
<1>2. SessionInv /\ [Next]_vars =>
         [\A u \in UpdateIds : spool[u].status = "failed" => spool'[u].status = "failed"]_vars
    BY <1>1
<1> QED BY <1>2, SessionInvariant, PTL DEF Spec, DeadLetterFinal

\* A session handles an update once: after it completed the update its tracker, which only
\* grows, rejects it, whoever recovers and claims the record again.
THEOREM SessionsHandleOnce == Spec => HandledOncePerSession
<1>1. ASSUME SessionInv, [Next]_vars, NEW s \in Sessions, NEW h \in handlers' \ handlers,
             h.session = s, h.stage = "handling"
      PROVE  h.update \notin handled[s]
    <2>1. PICK r \in Sessions : StartHandler(r) /\ Starts(r, h)
        BY <1>1, NewHandlers DEF SessionInv
    <2>2. r = s /\ ~Rejects(tracker[s], h.update)
        BY <1>1, <2>1 DEF Starts
    <2>3. Draining(s)
        BY <1>1, <2>1, <2>2, StartFacts DEF SessionInv
    <2>4. handled[s] \subseteq tracker[s].recent
        BY <1>1, <2>3 DEF SessionInv, Remembered
    <2> QED BY <2>2, <2>4 DEF Rejects, SemanticRejects
<1>2. SessionInv /\ [Next]_vars =>
         [\A s \in Sessions : \A h \in handlers' \ handlers :
             h.session = s /\ h.stage = "handling" => h.update \notin handled[s]]_vars
    BY <1>1
<1> QED BY <1>2, SessionInvariant, PTL DEF Spec, HandledOncePerSession

-----------------------------------------------------------------------------
(* Lanes *)

\* When the session changes, the new one's drain is idle.
LEMMA NewSessionIdle ==
    ASSUME SessionInv, [Next]_vars, session' # session
    PROVE  drain'[session'] = IdleDrain /\ (RestartSession \/ Crash)
<1>1. (RestartSession \/ Crash) /\ session' = session + 1
    BY Movers DEF MovedByTheirSteps, RestartSession, Crash, BeginSession
<1>2. session' \in Sessions /\ session' > session
    BY <1>1, RestTyped DEF SessionInv, TypeOK, Sessions
<1>3. drain[session'] = IdleDrain
    BY <1>2 DEF SessionInv, Remembered
<1> QED BY <1>1, <1>2, <1>3 DEF RestartSession, Crash

\* What the drain of a replaced session requeues or claims, it notes.
LEMMA StraysNoted ==
    ASSUME TypeOK, NEW s \in Sessions, s # session
    PROVE  /\ RecoverClaims(s) => \A u \in UpdateIds :
                 spool[u].status = "claimed" /\ spool'[u].status # "claimed" => Lane[u] \in strayLanes'
           /\ ClaimUpdate(s) => StartLane(s) \in strayLanes'
<1>1. ASSUME RecoverClaims(s), NEW u \in UpdateIds,
             spool[u].status = "claimed", spool'[u].status # "claimed"
      PROVE  Lane[u] \in strayLanes'
    <2> DEFINE stale == {v \in UpdateIds : spool[v].status = "claimed" /\ Lane[v] \notin drain[s].snapshot}
    <2>1. NoteLanes(s, {Lane[v] : v \in stale})
        BY <1>1 DEF RecoverClaims
    <2>2. u \in stale
        BY <1>1 DEF RecoverClaims
    <2> HIDE DEF stale
    <2> QED BY <2>1, <2>2 DEF NoteLanes
<1>2. ASSUME ClaimUpdate(s) PROVE StartLane(s) \in strayLanes'
    BY <1>2 DEF ClaimUpdate, NoteLanes, StartLane
<1> QED BY <1>1, <1>2

\* A drain comes to "start" by claiming its update.
LEMMA ComesToStart ==
    ASSUME TypeOK, [Next]_vars, NEW s \in Sessions, drain'[s].pc = "start"
    PROVE  \/ drain'[s] = drain[s]
           \/ ClaimUpdate(s) /\ drain'[s].claiming.update = drain[s].claiming.update
<1>1. ASSUME NEW r \in Sessions, (BeginsDrain /\ r = session) \/ DrainStep(r)
      PROVE  \/ drain'[s] = drain[s]
             \/ ClaimUpdate(s) /\ drain'[s].claiming.update = drain[s].claiming.update
    <2>1. CASE ListPending(r) \/ ClaimMisses(r) \/ StartHandler(r)
        <3>1. OnlyDrain(r) /\ drain'[r].pc # "start"
            BY <2>1, Scans DEF Scanned
        <3> QED BY <3>1 DEF OnlyDrain
    <2>2. CASE ~(ListPending(r) \/ ClaimMisses(r) \/ StartHandler(r))
        <3>1. OnlyDrain(r) /\ DrainWaits(r)
            BY <1>1, <2>2, Waits
        <3> QED BY <3>1 DEF OnlyDrain, DrainWaits
    <2> QED BY <2>1, <2>2
<1>2. session \in Sessions
    BY DEF TypeOK
<1>3. CASE Crash
    BY <1>3 DEF Crash, IdleDrain
<1> QED BY <1>1, <1>2, <1>3, Movers DEF MovedByTheirSteps

\* A drain that is about to start a handler for a replaced session has noted the lane.
LEMMA StrayStartsStep ==
    ASSUME SessionInv, StrayStarts, [Next]_vars
    PROVE  StrayStarts'
<1>0. TypeOK /\ session \in Sessions /\ strayLanes \subseteq strayLanes'
    BY StraysTyped DEF SessionInv, TypeOK
<1> SUFFICES ASSUME NEW s \in Sessions, drain'[s].pc = "start", s # session'
             PROVE  Lane[drain'[s].claiming.update] \in strayLanes'
    BY DEF StrayStarts, At, StartLane
<1>1. CASE drain'[s] = drain[s] /\ s # session
    BY <1>0, <1>1 DEF StrayStarts, At, StartLane
<1>2. CASE drain'[s] = drain[s] /\ s = session
    <2>1. RestartSession \/ Crash
        BY <1>2, NewSessionIdle
    <2>2. CASE RestartSession
        BY <1>2, <2>2 DEF RestartSession, At
    <2>3. CASE Crash
        BY <2>3 DEF Crash, IdleDrain
    <2> QED BY <2>1, <2>2, <2>3
<1>3. CASE ClaimUpdate(s) /\ drain'[s].claiming.update = drain[s].claiming.update
    <2>1. UNCHANGED session
        BY <1>3 DEF ClaimUpdate, sessionVars
    <2> QED BY <1>0, <1>3, <2>1, StraysNoted DEF StartLane
<1> QED BY <1>0, <1>1, <1>2, <1>3, ComesToStart

\* The lane that the session's drain is about to start on stays free, unless it is stray.
LEMMA LaneFreeStep ==
    ASSUME LaneInv, [Next]_vars
    PROVE  LaneFree'
<1>0. /\ SessionInv /\ TypeOK /\ StrayStarts /\ LaneFree /\ session \in Sessions
      /\ active \in [Lanes -> [update : UpdateIds \cup {NoId}, token : Nat, timedOut : BOOLEAN]]
    BY DEF LaneInv, SessionInv, TypeOK
<1>s. session' = session \/ drain'[session'].pc = "idle"
    BY <1>0, NewSessionIdle DEF IdleDrain
<1> SUFFICES ASSUME session' = session, drain'[session].pc \in {"claim", "start"},
                    Lane[drain'[session].claiming.update] \notin strayLanes'
             PROVE  active'[Lane[drain'[session].claiming.update]] = NoHandler
    BY <1>s DEF LaneFree, Starting, StartLane
<1> DEFINE s == session
           lane == Lane[drain'[session].claiming.update]
<1>1. lane \in Lanes /\ lane \notin strayLanes
    BY <1>0, DrainTyped, StraysTyped DEF Lanes, Starting
\* As long as it stays about to start, its lane was free before.
<1>2. ASSUME Starting(s), drain'[s].claiming.update = drain[s].claiming.update
      PROVE  active[lane] = NoHandler
    BY <1>0, <1>1, <1>2 DEF LaneFree, StartLane
<1> HIDE DEF lane
<1>3. ASSUME NEW r \in Sessions, ListPending(r) \/ ClaimMisses(r)
      PROVE  active'[lane] = NoHandler
    <2>1. UNCHANGED active
        BY <1>3 DEF ListPending, ClaimMisses
    <2>2. OnlyDrain(r) /\ \E listed, claimed, blocked :
             Scanned(drain'[r], listed, claimed, blocked, ActiveLanes)
        BY <1>0, <1>3, Scans
    <2>3. CASE r = s
        <3>1. lane \notin ActiveLanes
            BY <2>2, <2>3 DEF Scanned, lane
        <3> QED BY <1>1, <2>1, <3>1 DEF ActiveLanes
    <2>4. CASE r # s
        <3>1. drain'[s] = drain[s]
            BY <1>0, <2>2, <2>4 DEF OnlyDrain
        <3> QED BY <1>2, <2>1, <3>1 DEF Starting
    <2> QED BY <2>3, <2>4
<1>4. ASSUME NEW r \in Sessions, StartHandler(r) PROVE active'[lane] = NoHandler
    <2> DEFINE u == drain[r].claiming.update
    <2>1. /\ OnlyDrain(r)
          /\ \E listed, claimed, blocked :
                Scanned(drain'[r], listed, claimed, blocked, ActiveLanes \cup {Lane[u]})
        BY <1>0, <1>4, Scans
    <2>2. PICK g \in HandlerType : Starts(r, g)
        BY <1>0, <1>4, StartFacts
    <2>3. active' = [active EXCEPT ![Lane[u]] =
                        [update |-> u, token |-> g.token, timedOut |-> FALSE]]
        BY <2>2 DEF Starts
    <2>4. CASE r = s
        <3>1. lane \notin ActiveLanes \cup {Lane[u]}
            BY <2>1, <2>4 DEF Scanned, lane
        <3> HIDE DEF u
        <3> QED BY <1>0, <1>1, <2>3, <3>1 DEF ActiveLanes
    <2>5. CASE r # s
        <3>1. drain'[s] = drain[s]
            BY <1>0, <2>1, <2>5 DEF OnlyDrain
        <3>2. active[lane] = NoHandler
            BY <1>2, <3>1 DEF Starting
        <3>3. Lane[u] \in strayLanes
            BY <1>0, <1>4, <2>5 DEF StrayStarts, StartHandler, StartLane
        <3> HIDE DEF u
        <3> QED BY <1>0, <1>1, <2>3, <3>2, <3>3
    <2> QED BY <2>4, <2>5
<1>5. ASSUME NEW r \in Sessions, (BeginsDrain /\ r = session) \/ DrainStep(r),
             ~(ListPending(r) \/ ClaimMisses(r) \/ StartHandler(r))
      PROVE  active'[lane] = NoHandler
    <2>1. OnlyDrain(r) /\ DrainWaits(r)
        BY <1>0, <1>5, Waits
    <2>2. Starting(s) /\ drain'[s].claiming.update = drain[s].claiming.update
        BY <1>0, <2>1 DEF OnlyDrain, DrainWaits, Starting, At
    <2>3. active'[lane] = active[lane]
        <3>1. CASE UNCHANGED active
            BY <3>1
        <3>2. CASE DetectTimeout(r)
            <4>1. PICK l \in drain[r].blocked :
                     /\ active[l] # NoHandler
                     /\ active' = [active EXCEPT ![l] = [active[l] EXCEPT !.timedOut = TRUE]]
                BY <3>2 DEF DetectTimeout
            <4>2. l # lane
                BY <1>2, <2>2, <4>1
            <4> QED BY <1>0, <1>1, <4>1, <4>2
        <3> QED BY <1>5, <3>1, <3>2 DEF DrainStep, BeginsDrain, RecoverClaims, ListClaims,
               ClaimUpdate, NoTimeout, DeadLetterTimedOut, GraceMet, GraceElapsed, DrainFails
    <2> QED BY <1>2, <2>2, <2>3
<1>6. ASSUME UNCHANGED drain,
             \/ UNCHANGED active
             \/ \E h \in handlers : FinishClaim(h) \/ FinishClaimFails(h)
      PROVE  active'[lane] = NoHandler
    <2>1. active[lane] = NoHandler
        BY <1>2, <1>6 DEF Starting
    <2>2. UNCHANGED active \/ \E h \in handlers : Settles(h)
        BY <1>6 DEF FinishClaim, FinishClaimFails
    <2>3. ASSUME NEW h \in handlers, Settles(h) PROVE active'[lane] = NoHandler
        <3> DEFINE k == Lane[h.update]
                   e == IF active[k].update = h.update /\ active[k].token = h.token
                        THEN NoHandler ELSE active[k]
        <3>1. active' = [active EXCEPT ![k] = e]
            BY <2>3 DEF Settles
        <3>2. k = lane => e = NoHandler
            BY <2>1
        <3> HIDE DEF k, e
        <3> QED BY <1>0, <1>1, <2>1, <3>1, <3>2
    <2> QED BY <2>1, <2>2, <2>3
<1>7. ASSUME Crash PROVE active'[lane] = NoHandler
    BY <1>0, <1>7 DEF Crash, IdleDrain
<1>8. active'[lane] = NoHandler
    <2>1. ASSUME BeginsDrain PROVE active'[lane] = NoHandler
        BY <1>0, <1>3, <1>4, <1>5, <2>1
    <2>2. ASSUME NEW r \in Sessions, DrainStep(r) PROVE active'[lane] = NoHandler
        BY <1>3, <1>4, <1>5, <2>2
    <2>3. ASSUME NEW r \in Sessions, StartHandler(r) \/ DetectTimeout(r)
          PROVE  active'[lane] = NoHandler
        BY <2>2, <2>3 DEF DrainStep
    <2>4. UNCHANGED drain \/ BeginsDrain \/ (\E r \in Sessions : DrainStep(r)) \/ Crash
        BY Movers DEF MovedByTheirSteps
    <2>5. \/ UNCHANGED active \/ \E r \in Sessions : StartHandler(r) \/ DetectTimeout(r)
          \/ \E h \in handlers : FinishClaim(h) \/ FinishClaimFails(h)
          \/ Crash
        BY Movers DEF MovedByTheirSteps
    <2> QED BY <1>6, <1>7, <2>1, <2>2, <2>3, <2>4, <2>5
<1> QED BY <1>8 DEF lane

\* No handler is on the lane that the session's drain is about to start on.
LEMMA AloneOnLane ==
    ASSUME LaneInv, Starting(session), StartLane(session) \notin strayLanes, NEW h \in handlers
    PROVE  Lane[h.update] # StartLane(session)
<1>1. h.update \in UpdateIds
    BY DEF LaneInv, SessionInv, TypeOK, HandlerType
<1>2. active[StartLane(session)] = NoHandler
    BY DEF LaneInv, LaneFree
<1>3. Lane[h.update] = StartLane(session) => Registered(h)
    BY DEF LaneInv, HandlersRegistered, Stray
<1> QED BY <1>1, <1>2, <1>3 DEF Registered, NoHandler, NoId

\* A handler that starts on a lane that is not stray finds no other on it.
LEMMA StartsAlone ==
    ASSUME LaneInv, NEW s \in Sessions, StartHandler(s), StartLane(s) \notin strayLanes,
           NEW h \in handlers
    PROVE  s = session /\ Lane[h.update] # StartLane(s)
<1>1. At(s, "start") /\ Starting(s)
    BY DEF StartHandler, At, Starting
<1>2. s = session
    BY <1>1 DEF LaneInv, StrayStarts
<1> QED BY <1>1, <1>2, AloneOnLane

\* The three parts of HandlersRegistered, after a step.
LEMMA RegisteredStep ==
    ASSUME LaneInv, [Next]_vars
    PROVE  HandlersRegistered'
<1>0. /\ TypeOK /\ HandlersRegistered /\ handlers \subseteq HandlerType
      /\ active \in [Lanes -> [update : UpdateIds \cup {NoId}, token : Nat, timedOut : BOOLEAN]]
      /\ strayLanes \subseteq strayLanes'
    BY StraysTyped DEF LaneInv, SessionInv, TypeOK
<1> DEFINE Clean(h) == Lane[h.update] \notin strayLanes'
           On(h, a) == a.update = h.update /\ a.token = h.token
           Goal ==
              /\ \A h \in handlers' : Clean(h) => On(h, active'[Lane[h.update]])
              /\ \A g, h \in handlers' : Lane[g.update] = Lane[h.update] /\ Clean(h) => g = h
              /\ \A l \in Lanes : active'[l] # NoHandler =>
                    \E h \in handlers' : Lane[h.update] = l /\ On(h, active'[l])
<1> SUFFICES Goal
    BY DEF HandlersRegistered, Registered, Stray
<1>1. /\ \A h \in handlers : Clean(h) => On(h, active[Lane[h.update]])
      /\ \A g, h \in handlers : Lane[g.update] = Lane[h.update] /\ Clean(h) => g = h
      /\ \A l \in Lanes : active[l] # NoHandler =>
            \E h \in handlers : Lane[h.update] = l /\ On(h, active[l])
      /\ \A h \in handlers : h.update \in UpdateIds /\ Lane[h.update] \in Lanes
    <2>1. \A h \in handlers : h.update \in UpdateIds /\ Lane[h.update] \in Lanes
        BY <1>0 DEF HandlerType, Lanes
    <2>2. \A h \in handlers : Clean(h) => On(h, active[Lane[h.update]])
        BY <1>0 DEF HandlersRegistered, Registered, Stray
    <2>3. \A g, h \in handlers : Lane[g.update] = Lane[h.update] /\ Clean(h) => g = h
        BY <1>0 DEF HandlersRegistered, Stray
    <2>4. \A l \in Lanes : active[l] # NoHandler =>
             \E h \in handlers : Lane[h.update] = l /\ On(h, active[l])
        BY <1>0 DEF HandlersRegistered, Registered
    <2> QED BY <2>1, <2>2, <2>3, <2>4
<1>2. ASSUME NEW s \in Sessions, StartHandler(s) PROVE Goal
    <2>1. PICK g \in HandlerType : Starts(s, g)
        BY <1>0, <1>2, StartFacts
    <2> DEFINE lane == Lane[g.update]
               entry == [update |-> g.update, token |-> g.token, timedOut |-> FALSE]
    <2>2. lane \in Lanes /\ entry.update = g.update /\ entry.token = g.token
        BY DEF HandlerType, Lanes
    <2>3. handlers' = handlers \cup {g} /\ active' = [active EXCEPT ![lane] = entry]
        BY <2>1 DEF Starts
    <2>4. lane \notin strayLanes' => \A h \in handlers : Lane[h.update] # lane
        BY <1>0, <1>2, <2>1, StartsAlone DEF Starts, StartLane
    <2> HIDE DEF lane, entry
    <2>5. Lane[g.update] = lane
        BY DEF lane
    <2>6. \A l \in Lanes : active'[l] = IF l = lane THEN entry ELSE active[l]
        BY <1>0, <2>3
    <2>7. \A h \in handlers' : Clean(h) => On(h, active'[Lane[h.update]])
        BY <1>1, <2>2, <2>3, <2>4, <2>5, <2>6
    <2>8. \A f, h \in handlers' : Lane[f.update] = Lane[h.update] /\ Clean(h) => f = h
        BY <1>1, <2>3, <2>4, <2>5
    <2>9. ASSUME NEW l \in Lanes, active'[l] # NoHandler
          PROVE  \E h \in handlers' : Lane[h.update] = l /\ On(h, active'[l])
        BY <1>1, <2>2, <2>3, <2>5, <2>6, <2>9
    <2> QED BY <2>7, <2>8, <2>9
<1>3. ASSUME NEW s \in Sessions, DetectTimeout(s) PROVE Goal
    <2>1. PICK l \in drain[s].blocked :
             /\ active[l] # NoHandler
             /\ active' = [active EXCEPT ![l] = [active[l] EXCEPT !.timedOut = TRUE]]
        BY <1>3 DEF DetectTimeout
    <2>2. UNCHANGED handlers
        BY <1>3 DEF DetectTimeout
    <2>3. l \in Lanes
        BY <1>0 DEF TypeOK, DrainType
    <2>4. /\ [active[l] EXCEPT !.timedOut = TRUE].update = active[l].update
          /\ [active[l] EXCEPT !.timedOut = TRUE].token = active[l].token
        <3>1. active[l] \in [update : UpdateIds \cup {NoId}, token : Nat, timedOut : BOOLEAN]
            BY <1>0, <2>3
        <3> QED BY <3>1
    <2>5. \A k \in Lanes : /\ active'[k].update = active[k].update
                           /\ active'[k].token = active[k].token
                           /\ active'[k] # NoHandler => active[k] # NoHandler
        BY <1>0, <2>1, <2>3, <2>4
    <2> QED BY <1>1, <2>2, <2>5
<1>4. ASSUME NEW h \in handlers, NEW g \in HandlerType, Stages(h, g), UNCHANGED active PROVE Goal
    BY <1>1, <1>4 DEF Stages
<1>5. ASSUME NEW h \in handlers, Removes(h) PROVE Goal
    <2> DEFINE lane == Lane[h.update]
               entry == IF On(h, active[lane]) THEN NoHandler ELSE active[lane]
    <2>1. active' = [active EXCEPT ![lane] = entry] /\ handlers' = handlers \ {h}
        BY <1>5 DEF Removes, Settles
    <2>2. \A l \in Lanes : active'[l] = IF l = lane THEN entry ELSE active[l]
        BY <1>0, <1>1, <2>1
    <2>3. \A g \in handlers' : g \in handlers /\ (Clean(g) => Lane[g.update] # lane)
        BY <1>1, <2>1
    <2>4. \A g \in handlers' : Clean(g) => On(g, active'[Lane[g.update]])
        BY <1>1, <2>2, <2>3
    <2>5. ASSUME NEW l \in Lanes, active'[l] # NoHandler
          PROVE  \E g \in handlers' : Lane[g.update] = l /\ On(g, active'[l])
        <3>1. active'[l] = active[l] /\ ~(l = lane /\ On(h, active[l]))
            BY <2>2, <2>5
        <3>2. PICK g \in handlers : Lane[g.update] = l /\ On(g, active[l])
            BY <1>1, <2>5, <3>1
        <3>3. g # h
            BY <3>1, <3>2
        <3> QED BY <2>1, <3>1, <3>2, <3>3
    <2> QED BY <1>1, <2>3, <2>4, <2>5
<1>6. ASSUME Crash PROVE Goal
    BY <1>6 DEF Crash
<1>7. ASSUME NEW h \in handlers, Completes(h) \/ Throws(h) \/ FinishClaim(h) \/ FinishClaimFails(h)
      PROVE  Goal
    <2>1. \/ (\E g \in HandlerType : Stages(h, g)) /\ UNCHANGED active
          \/ Removes(h)
        BY <1>0, <1>7, HandlerMoves DEF Completes, Throws
    <2> HIDE DEF Goal
    <2> QED BY <1>4, <1>5, <2>1
<1>8. ASSUME UNCHANGED <<handlers, active>> PROVE Goal
    BY <1>1, <1>8
<1> HIDE DEF Goal
<1>9. UNCHANGED handlers \/ HandlerSteps \/ Crash
    BY Movers DEF MovedByTheirSteps
<1>10. \/ UNCHANGED active \/ \E r \in Sessions : StartHandler(r) \/ DetectTimeout(r)
       \/ \E h \in handlers : FinishClaim(h) \/ FinishClaimFails(h)
       \/ Crash
    BY Movers DEF MovedByTheirSteps
<1> QED BY <1>2, <1>3, <1>6, <1>7, <1>8, <1>9, <1>10 DEF HandlerSteps

LEMMA LaneInvInit == Init => LaneInv
<1> SUFFICES ASSUME Init PROVE LaneInv
    OBVIOUS
<1>1. \A s \in Sessions : drain[s].pc = "idle"
    BY DEF Init, IdleDrain
<1>2. handlers = {} /\ \A l \in Lanes : active[l] = NoHandler
    BY DEF Init
<1>3. session \in Sessions
    BY SessionInit DEF SessionInv, TypeOK
<1> QED BY <1>1, <1>2, <1>3, SessionInit
        DEF LaneInv, StrayStarts, LaneFree, HandlersRegistered, Starting, At

LEMMA LaneInvStep == LaneInv /\ [Next]_vars => LaneInv'
<1> SUFFICES ASSUME LaneInv, [Next]_vars PROVE LaneInv'
    OBVIOUS
<1>1. SessionInv' /\ StrayStarts'
    BY SessionStep, StrayStartsStep DEF LaneInv
<1> QED BY <1>1, LaneFreeStep, RegisteredStep DEF LaneInv

\* Every lane is blocked only by a run that has not settled, drains of replaced sessions or
\* not: a run that is registered on a lane frees it when it settles, and one that is no longer
\* registered leaves the lane to its successor.  And handlers on one lane never overlap unless
\* the drain of a replaced session worked on it: on such lanes only the session's own drain
\* starts handlers, and only while the lane is free.
THEOREM LanesAreHeld == Spec => []LaneHeldByRun
<1>1. LaneInv => LaneHeldByRun
    BY DEF LaneInv, HandlersRegistered, LaneHeldByRun, Registered, Stray
<1> USE LaneInvInit, LaneInvStep
<1> QED BY <1>1, PTL DEF Spec

-----------------------------------------------------------------------------
(* Nothing below an offset is lost *)

LEMMA DoneGrows ==
    ASSUME TypeOK, [Next]_vars
    PROVE  EverHandled \cup dropped \subseteq EverHandled' \cup dropped'
<1>1. handled \in [Sessions -> SUBSET UpdateIds] /\ handlers \subseteq HandlerType
    BY DEF TypeOK
<1>2. \A s \in Sessions : handled[s] \subseteq handled'[s]
    <2>1. ASSUME NEW h \in handlers, Completes(h) PROVE \A s \in Sessions : handled[s] \subseteq handled'[s]
        BY <1>1, <2>1 DEF Completes
    <2> QED BY <2>1, Movers DEF MovedByTheirSteps
<1>3. dropped \subseteq dropped'
    BY Movers DEF MovedByTheirSteps, StartHandler
<1> QED BY <1>2, <1>3 DEF EverHandled

\* A kept update stays kept.
LEMMA KeptStays ==
    ASSUME TypeOK, RemovedAreDone, [Next]_vars
    PROVE  KeptIds \subseteq KeptIds'
<1>1. ASSUME NEW u \in UpdateIds, spool[u].status # "none", spool'[u].status = "none"
      PROVE  u \in EverHandled \cup dropped \/ Stray(u)
    <2>1. \E h \in handlers : h.update = u /\ h.stage = "deleting"
        BY <1>1, SpoolTyped DEF RecordSteps
    <2> QED BY <2>1 DEF RemovedAreDone
<1>2. \A u \in UpdateIds : Stray(u) => Stray(u)'
    BY StraysTyped DEF Stray
<1> QED BY <1>1, <1>2, DoneGrows DEF KeptIds

LEMMA RemovedStep ==
    ASSUME LaneInv, RemovedAreDone, [Next]_vars
    PROVE  RemovedAreDone'
<1>0. TypeOK /\ handlers \subseteq HandlerType
    BY DEF LaneInv, SessionInv, TypeOK
<1> DEFINE Done(h) == h.update \in EverHandled' \cup dropped' \/ Stray(h.update)'
<1> SUFFICES ASSUME NEW h \in handlers', h.stage = "deleting"
             PROVE  Done(h)
    BY DEF RemovedAreDone
<1>1. ASSUME h \in handlers PROVE Done(h)
    BY <1>0, <1>1, DoneGrows, StraysTyped DEF RemovedAreDone, Stray
<1>2. ASSUME NEW s \in Sessions, StartHandler(s) PROVE Done(h)
    <2>1. PICK g \in HandlerType : Starts(s, g)
        BY <1>0, <1>2, StartFacts
    <2>2. CASE h = g
        <3>1. Rejects(tracker[s], h.update) /\ h.update = drain[s].claiming.update
            BY <2>1, <2>2 DEF Starts
        <3>2. h.update \in Reached \/ h.update \in dropped'
            BY <1>2, <3>1 DEF StartHandler
        <3>3. CASE StartLane(s) \in strayLanes
            BY <1>0, <3>1, <3>3, StraysTyped DEF StartLane, Stray
        <3>4. CASE StartLane(s) \notin strayLanes
            <4>1. \A k \in handlers : k.update # h.update
                BY <1>2, <3>1, <3>4, StartsAlone DEF StartLane
            <4>2. h.update \in EverHandled \/ h.update \in dropped'
                BY <3>2, <4>1 DEF Reached
            <4> QED BY <1>0, <4>2, DoneGrows
        <3> QED BY <3>3, <3>4
    <2> QED BY <1>1, <2>1, <2>2 DEF Starts
<1>3. ASSUME NEW k \in handlers, Completes(k) PROVE Done(h)
    <2>1. PICK g \in HandlerType : Stages(k, g)
        BY <1>0, <1>3, HandlerMoves
    <2>2. CASE h = g
        <3>1. h.update = k.update /\ k.session \in Sessions
            BY <1>0, <2>1, <2>2 DEF Stages, HandlerType
        <3>2. handled' = [handled EXCEPT ![k.session] = handled[k.session] \cup {k.update}]
            BY <1>3 DEF Completes
        <3>3. h.update \in handled'[k.session]
            BY <1>0, <3>1, <3>2 DEF TypeOK
        <3> QED BY <3>1, <3>3 DEF EverHandled
    <2> QED BY <1>1, <2>1, <2>2 DEF Stages
<1>4. ASSUME NEW k \in handlers, Throws(k) \/ FinishClaim(k) \/ FinishClaimFails(k)
      PROVE  Done(h)
    <2>1. (\E g \in HandlerType : Stages(k, g) /\ g.stage # "deleting") \/ Removes(k)
        BY <1>0, <1>4, HandlerMoves
    <2> QED BY <1>1, <2>1 DEF Stages, Removes
<1>5. handlers' # {}
    OBVIOUS
<1>6. CASE UNCHANGED handlers
    BY <1>1, <1>6
<1>7. ~Crash
    BY <1>5 DEF Crash
<1>8. UNCHANGED handlers \/ HandlerSteps \/ Crash
    BY Movers DEF MovedByTheirSteps
<1> QED BY <1>2, <1>3, <1>4, <1>6, <1>7, <1>8 DEF HandlerSteps

\* The step of the worker; what it takes up next starts above what it has handed over.
LEMMA WorkerStep ==
    ASSUME IngressInv, [Next]_vars
    PROVE  WorkerInOrder'
<1>0. /\ TypeOK /\ WorkerInOrder /\ OffsetsInOrder /\ RemovedAreDone
      /\ serverOffset \in Nat /\ worker \in WorkerType /\ orphanWrites \subseteq UpdateIds
      /\ spool \in [UpdateIds -> RecordType]
    BY DEF IngressInv, LaneInv, SessionInv, TypeOK
<1>k. KeptIds \subseteq KeptIds'
    BY <1>0, KeptStays
<1>w. /\ worker.last \in MaybeId /\ worker.batch \in SUBSET UpdateIds
      /\ worker.waiting \in UpdateIds \cup {NoId}
    BY <1>0 DEF WorkerType
<1>1. CASE UNCHANGED spoolVars
    BY <1>0, <1>1, <1>k DEF spoolVars, WorkerInOrder, KeptBelow, KeptUpTo
\* The parts that are about a new worker.
<1>2. ASSUME NEW last \in MaybeId, \A v \in UpdateIds : v <= last => v \in KeptIds',
             worker' = NewWorker(last), serverOffset' = serverOffset,
             \A u \in orphanWrites' : \A v \in UpdateIds : v < u => v \in KeptIds'
      PROVE  WorkerInOrder'
    BY <1>0, <1>2, <1>k DEF WorkerInOrder, KeptBelow, KeptUpTo, NewWorker
<1>3. \A u \in orphanWrites : \A v \in UpdateIds : v < u => v \in KeptIds'
    BY <1>0, <1>k DEF WorkerInOrder, KeptBelow
<1>4. CASE SpoolFails \/ PollFails
    <2>1. /\ worker' = NewWorker(worker.last) \/ worker' = [NewWorker(NoId) EXCEPT !.state = "ended"]
          /\ UNCHANGED <<serverOffset, orphanWrites>>
        BY <1>4 DEF SpoolFails, PollFails, EndSession
    <2>2. \A v \in UpdateIds : v <= worker.last => v \in KeptIds'
        BY <1>0, <1>k DEF WorkerInOrder, KeptUpTo
    <2>3. CASE worker' = [NewWorker(NoId) EXCEPT !.state = "ended"]
        <3>1. worker'.last = NoId /\ worker'.batch = {} /\ worker'.waiting = NoId
            BY <2>3 DEF NewWorker
        <3>2. \A v \in UpdateIds : ~(v <= NoId)
            BY DEF NoId
        <3> QED BY <1>0, <1>3, <1>k, <2>1, <3>1, <3>2 DEF WorkerInOrder, KeptBelow, KeptUpTo
    <2> QED BY <1>2, <1>3, <1>w, <2>1, <2>2, <2>3
<1>5. CASE RestartSession
    <2>1. worker' = NewWorker(lastUpdateId) /\ UNCHANGED serverOffset
        BY <1>5 DEF RestartSession, BeginSession
    <2>2. \A v \in UpdateIds : v <= lastUpdateId => v \in KeptIds'
        BY <1>0, <1>k DEF OffsetsInOrder, KeptUpTo
    <2>3. \A u \in orphanWrites' : \A v \in UpdateIds : v < u => v \in KeptIds'
        <3>1. worker.waiting # NoId => \A v \in UpdateIds : v < worker.waiting => v \in KeptIds'
            BY <1>0, <1>k DEF WorkerInOrder, KeptBelow
        <3>2. orphanWrites' \subseteq orphanWrites \cup {worker.waiting}
              /\ (worker.waiting = NoId => orphanWrites' = orphanWrites)
            BY <1>5 DEF RestartSession
        <3> QED BY <1>3, <3>1, <3>2
    <2> QED BY <1>0, <1>2, <2>1, <2>2, <2>3 DEF TypeOK
<1>6. CASE Crash
    <2>1. worker' = NewWorker(durable) /\ UNCHANGED serverOffset /\ orphanWrites' = {}
        BY <1>6 DEF Crash, BeginSession
    <2>2. \A v \in UpdateIds : v <= durable => v \in KeptIds'
        BY <1>0, <1>k DEF OffsetsInOrder, KeptUpTo
    <2> QED BY <1>0, <1>2, <2>1, <2>2 DEF TypeOK
<1>7. CASE \E u \in UpdateIds : SpoolOrphan(u)
    <2>1. UNCHANGED <<serverOffset, worker>> /\ orphanWrites' \subseteq orphanWrites
        BY <1>7 DEF SpoolOrphan
    <2> QED BY <1>0, <1>3, <1>k, <2>1 DEF WorkerInOrder, KeptBelow, KeptUpTo
\* The parts that are about a batch.
<1>8. ASSUME NEW last \in MaybeId, NEW batch \in SUBSET UpdateIds,
             worker' = SendNext(last, batch), UNCHANGED orphanWrites,
             \A v \in UpdateIds : v <= last => v \in KeptIds',
             \A u \in batch : \A v \in UpdateIds : v < u => v \in KeptIds' \cup batch,
             \A v \in UpdateIds : v < serverOffset' => v \in KeptIds'
      PROVE  WorkerInOrder'
    <2>1. /\ worker'.last = last /\ worker'.batch \subseteq batch
          /\ worker'.waiting # NoId =>
                worker'.waiting \in batch /\ \A v \in batch : worker'.waiting <= v
          /\ \A v \in batch : v \in worker'.batch \/ v = worker'.waiting
        BY <1>8, SendNextFacts
    <2>2. ASSUME worker'.waiting # NoId, NEW v \in UpdateIds, v < worker'.waiting
          PROVE  v \in KeptIds'
        <3>1. worker'.waiting \in Nat /\ v \in Nat
            BY <2>1, <2>2
        <3>2. v \notin batch
            BY <2>1, <2>2, <3>1
        <3> QED BY <1>8, <2>1, <2>2, <3>2
    <2>3. \A u \in worker'.batch : \A v \in UpdateIds :
             v < u => v \in KeptIds' \cup worker'.batch \cup {worker'.waiting}
        BY <1>8, <2>1
    <2>4. \A u \in orphanWrites' : \A v \in UpdateIds : v < u => v \in KeptIds'
        BY <1>3, <1>8
    <2> QED BY <1>8, <2>1, <2>2, <2>3, <2>4 DEF WorkerInOrder, KeptBelow, KeptUpTo
<1>9. CASE Poll
    <2>1. serverOffset' = Later(worker.last + 1, serverOffset) /\ UNCHANGED orphanWrites
        BY <1>9 DEF Poll
    <2>2. PICK newest \in {NoId} \cup UpdateIds :
             worker' = SendNext(worker.last, (serverOffset'..newest) \cap UpdateIds)
        BY <1>9 DEF Poll
    <2>3. ASSUME NEW v \in UpdateIds, v < serverOffset' PROVE v \in KeptIds'
        <3>1. v <= worker.last \/ v < serverOffset
            BY <1>0, <1>w, <2>1, <2>3 DEF Later, MaybeId, NoId
        <3> QED BY <1>0, <1>k, <3>1 DEF WorkerInOrder, KeptUpTo, KeptBelow
    <2>4. \A v \in UpdateIds : v <= worker.last => v \in KeptIds'
        BY <1>0, <1>k DEF WorkerInOrder, KeptUpTo
    <2> DEFINE batch == (serverOffset'..newest) \cap UpdateIds
    <2>5. ASSUME NEW u \in batch, NEW v \in UpdateIds, v < u PROVE v \in KeptIds' \cup batch
        <3>1. serverOffset' \in Nat /\ newest \in Int /\ u <= newest
            BY <1>0, <1>w, <2>1 DEF Later, MaybeId, NoId
        <3>2. v < serverOffset' \/ v \in serverOffset'..newest
            BY <2>5, <3>1
        <3> QED BY <2>3, <3>2
    <2>6. batch \in SUBSET UpdateIds
        OBVIOUS
    <2> HIDE DEF batch
    <2>7. worker' = SendNext(worker.last, batch)
        BY <2>2 DEF batch
    <2> QED BY <1>8, <1>w, <2>1, <2>3, <2>4, <2>5, <2>6, <2>7
<1>10. CASE SpoolUpdate
    <2> DEFINE w == worker.waiting
               last == Later(w, worker.last)
    <2>1. /\ w \in UpdateIds /\ Enqueue(w) /\ worker' = SendNext(last, worker.batch)
          /\ UNCHANGED <<serverOffset, orphanWrites>>
        BY <1>10, <1>w DEF SpoolUpdate
    <2>2. w \in KeptIds'
        BY <1>0, <2>1, EnqueueFacts DEF KeptIds
    <2>3. last \in MaybeId
        BY <1>w, <2>1 DEF Later, MaybeId
    <2>4. ASSUME NEW v \in UpdateIds, v <= last PROVE v \in KeptIds'
        <3>1. v \in Nat /\ w \in Nat /\ w # NoId /\ worker.last \in Int
            <4>1. worker.last \in Int
                BY <1>w DEF MaybeId, NoId
            <4>2. v \in Nat /\ w \in Nat
                BY <2>1
            <4> QED BY <4>1, <4>2 DEF NoId
        <3>2. v <= worker.last \/ v <= w
            BY <2>4 DEF Later
        <3>3. v <= worker.last \/ v < w \/ v = w
            BY <3>1, <3>2
        <3>4. KeptUpTo(worker.last) /\ KeptBelow(w)
            BY <1>0, <3>1 DEF WorkerInOrder
        <3> HIDE DEF w
        <3> QED BY <1>k, <2>2, <3>3, <3>4 DEF KeptUpTo, KeptBelow
    <2>5. \A u \in worker.batch : \A v \in UpdateIds : v < u => v \in KeptIds' \cup worker.batch
        BY <1>0, <1>k, <2>2 DEF WorkerInOrder
    <2>6. \A v \in UpdateIds : v < serverOffset' => v \in KeptIds'
        BY <1>0, <1>k, <2>1 DEF WorkerInOrder, KeptBelow
    <2> HIDE DEF last, w
    <2> QED BY <1>8, <1>w, <2>1, <2>3, <2>4, <2>5, <2>6
<1> QED BY <1>1, <1>4, <1>5, <1>6, <1>7, <1>9, <1>10, Movers DEF MovedByTheirSteps

\* A drain lists and takes up only what it had listed or what is pending.
LEMMA ListedWasPending ==
    ASSUME TypeOK, [Next]_vars, NEW s \in Sessions
    PROVE  LET known == drain[s].list \cup {v \in UpdateIds : spool[v].status = "pending"}
           IN  /\ drain'[s].list \subseteq known
               /\ Starting(s)' => \/ drain'[s].claiming.update \in known
                                  \/ /\ Starting(s)
                                     /\ drain'[s].claiming.update = drain[s].claiming.update
<1> DEFINE pending == {v \in UpdateIds : spool[v].status = "pending"}
           known == drain[s].list \cup pending
           Goal == /\ drain'[s].list \subseteq known
                   /\ drain'[s].pc \in {"claim", "start"} =>
                         \/ drain'[s].claiming.update \in known
                         \/ /\ drain[s].pc \in {"claim", "start"}
                            /\ drain'[s].claiming.update = drain[s].claiming.update
<1>1. ASSUME drain'[s] = drain[s] PROVE Goal
    BY <1>1
<1>2. ASSUME NEW listed, NEW claimed, NEW blocked, NEW busy,
             Scanned(drain'[s], listed, claimed, blocked, busy),
             listed \subseteq known
      PROVE  Goal
    BY <1>2 DEF Scanned
<1>3. ASSUME NEW r \in Sessions, ListPending(r) PROVE Goal
    <2>1. OnlyDrain(r) /\ Scanned(drain'[r], {v \in UpdateIds : spool[v].status = "pending"},
                                  drain[r].claimedLanes, drain[r].blocked, ActiveLanes)
        BY <1>3, Scans
    <2>2. CASE r = s
        <3>1. {v \in UpdateIds : spool[v].status = "pending"} \subseteq known
            OBVIOUS
        <3> HIDE DEF Goal, known
        <3> QED BY <1>2, <2>1, <2>2, <3>1
    <2>3. CASE r # s
        <3> HIDE DEF Goal
        <3> QED BY <1>1, <2>1, <2>3 DEF OnlyDrain
    <2> QED BY <2>2, <2>3
<1>4. ASSUME NEW r \in Sessions, ClaimMisses(r) \/ StartHandler(r) PROVE Goal
    <2>1. OnlyDrain(r) /\ \E claimed, blocked, busy :
             Scanned(drain'[r], drain[r].list, claimed, blocked, busy)
        BY <1>4, Scans
    <2>2. CASE r = s
        <3>1. drain[r].list \subseteq known
            BY <2>2
        <3> HIDE DEF Goal, known
        <3> QED BY <1>2, <2>1, <2>2, <3>1
    <2>3. CASE r # s
        <3> HIDE DEF Goal
        <3> QED BY <1>1, <2>1, <2>3 DEF OnlyDrain
    <2> QED BY <2>2, <2>3
<1>5. ASSUME NEW r \in Sessions, (BeginsDrain /\ r = session) \/ DrainStep(r),
             ~(ListPending(r) \/ ClaimMisses(r) \/ StartHandler(r))
      PROVE  Goal
    <2>1. OnlyDrain(r) /\ DrainWaits(r)
        BY <1>5, Waits
    <2>2. CASE r # s
        <3> HIDE DEF Goal
        <3> QED BY <1>1, <2>1, <2>2 DEF OnlyDrain
    <2>3. CASE r = s
        BY <2>1, <2>3 DEF DrainWaits, At
    <2> QED BY <2>2, <2>3
<1>6. ASSUME Crash PROVE Goal
    BY <1>6 DEF Crash, IdleDrain
<1>7. Goal
    <2> HIDE DEF Goal
    <2>1. ASSUME BeginsDrain PROVE Goal
        BY <1>3, <1>4, <1>5, <2>1 DEF TypeOK
    <2>2. ASSUME NEW r \in Sessions, DrainStep(r) PROVE Goal
        BY <1>3, <1>4, <1>5, <2>2
    <2>3. ASSUME UNCHANGED drain PROVE Goal
        BY <1>1, <2>3
    <2>4. UNCHANGED drain \/ BeginsDrain \/ (\E r \in Sessions : DrainStep(r)) \/ Crash
        BY Movers DEF MovedByTheirSteps
    <2> QED BY <1>6, <2>1, <2>2, <2>3, <2>4
<1> QED BY <1>7 DEF Starting

\* Every handler has its update from an earlier one or from a drain that was starting.
LEMMA HandlerUpdates ==
    ASSUME TypeOK, [Next]_vars, NEW h \in handlers'
    PROVE  \/ \E g \in handlers : g.update = h.update
           \/ \E s \in Sessions :
                 StartHandler(s) /\ Starting(s) /\ h.update = drain[s].claiming.update
<1>1. ASSUME NEW s \in Sessions, StartHandler(s)
      PROVE  \/ \E g \in handlers : g.update = h.update
             \/ Starting(s) /\ h.update = drain[s].claiming.update
    <2>1. Starting(s) /\ \E g \in HandlerType : Starts(s, g)
        BY <1>1, StartFacts
    <2>2. PICK g : handlers' = handlers \cup {g} /\ g.update = drain[s].claiming.update
        BY <2>1 DEF Starts
    <2>3. CASE h = g
        BY <2>1, <2>2, <2>3
    <2>4. CASE h \in handlers
        BY <2>4
    <2> QED BY <2>2, <2>3, <2>4
<1>2. ASSUME NEW k \in handlers, Completes(k) \/ Throws(k) \/ FinishClaim(k) \/ FinishClaimFails(k)
      PROVE  \E g \in handlers : g.update = h.update
    <2>1. (\E g \in HandlerType : Stages(k, g)) \/ Removes(k)
        BY <1>2, HandlerMoves
    <2> QED BY <2>1 DEF Stages, Removes
<1>3. ~Crash
    BY DEF Crash
<1> QED BY <1>1, <1>2, <1>3, Movers DEF MovedByTheirSteps, HandlerSteps

LEMMA SpooledStep ==
    ASSUME IngressInv, [Next]_vars
    PROVE  SpooledInOrder'
<1>0. TypeOK /\ WorkerInOrder /\ SpooledInOrder /\ RemovedAreDone
    BY DEF IngressInv, LaneInv, SessionInv
<1>k. KeptIds \subseteq KeptIds'
    BY <1>0, KeptStays
<1>1. ASSUME NEW u \in UpdateIds, spool'[u].status # "none", NEW v \in UpdateIds, v < u
      PROVE  v \in KeptIds'
    <2>1. CASE spool[u].status # "none"
        BY <1>0, <1>1, <1>k, <2>1 DEF SpooledInOrder, KeptBelow
    <2>2. CASE spool[u].status = "none"
        <3>1. u = worker.waiting \/ u \in orphanWrites
            BY <1>0, <1>1, <2>2, SpoolTyped DEF RecordSteps
        <3>2. u # NoId
            BY DEF NoId
        <3> QED BY <1>0, <1>1, <1>k, <3>1, <3>2 DEF WorkerInOrder, KeptBelow
    <2> QED BY <2>1, <2>2
<1>2. ASSUME NEW s \in Sessions,
             NEW u \in drain[s].list \cup {v \in UpdateIds : spool[v].status = "pending"},
             NEW v \in UpdateIds, v <= u
      PROVE  v \in KeptIds'
    <2>1. CASE u \in drain[s].list
        BY <1>0, <1>2, <1>k, <2>1 DEF SpooledInOrder, KeptUpTo
    <2>2. CASE u \in UpdateIds /\ spool[u].status = "pending"
        <3>1. u \in KeptIds /\ KeptBelow(u)
            BY <1>0, <2>2 DEF SpooledInOrder, KeptIds
        <3>2. v < u \/ v = u
            BY <1>2, <2>2
        <3> QED BY <1>k, <3>1, <3>2 DEF KeptBelow
    <2> QED BY <1>2, <2>1, <2>2
<1>3. ASSUME NEW s \in Sessions, Starting(s), NEW v \in UpdateIds, v <= drain[s].claiming.update
      PROVE  v \in KeptIds'
    BY <1>0, <1>3, <1>k DEF SpooledInOrder, KeptUpTo
<1>4. ASSUME NEW s \in Sessions
      PROVE  /\ \A u \in drain'[s].list : \A v \in UpdateIds : v <= u => v \in KeptIds'
             /\ Starting(s)' =>
                   \A v \in UpdateIds : v <= drain'[s].claiming.update => v \in KeptIds'
    BY <1>0, <1>2, <1>3, ListedWasPending
<1>5. ASSUME NEW h \in handlers', NEW v \in UpdateIds, v <= h.update
      PROVE  v \in KeptIds'
    <2>1. CASE \E g \in handlers : g.update = h.update
        BY <1>0, <1>5, <1>k, <2>1 DEF SpooledInOrder, KeptUpTo
    <2>2. CASE \E s \in Sessions : Starting(s) /\ h.update = drain[s].claiming.update
        BY <1>3, <1>5, <2>2
    <2> QED BY <1>0, <2>1, <2>2, HandlerUpdates
<1> QED BY <1>1, <1>4, <1>5 DEF SpooledInOrder, KeptBelow, KeptUpTo

LEMMA OffsetsStep ==
    ASSUME IngressInv, [Next]_vars
    PROVE  OffsetsInOrder'
<1>0. /\ TypeOK /\ SpooledInOrder /\ OffsetsInOrder /\ RemovedAreDone
      /\ tracker \in [Sessions -> TrackerType] /\ handlers \subseteq HandlerType
      /\ lastUpdateId \in MaybeId /\ durable \in MaybeId
      /\ session \in Sessions /\ NoId \in MaybeId
    BY DEF IngressInv, LaneInv, SessionInv, TypeOK, MaybeId
<1>k. KeptIds \subseteq KeptIds'
    BY <1>0, KeptStays
<1> DEFINE Fine(x) == \A v \in UpdateIds : v <= x => v \in KeptIds'
<1>1. Fine(NoId)
    BY DEF NoId
<1>2. Fine(lastUpdateId) /\ Fine(durable)
    BY <1>0, <1>k DEF OffsetsInOrder, KeptUpTo
<1>3. \A s \in Sessions : \A x \in OffsetsOf(tracker[s]) : Fine(x)
    BY <1>0, <1>k DEF OffsetsInOrder, KeptUpTo
<1>4. \A h \in handlers : Fine(h.update)
    BY <1>0, <1>k DEF SpooledInOrder, KeptUpTo
<1>5. ASSUME \A s \in Sessions : \A x \in OffsetsOf(tracker'[s]) : Fine(x),
             Fine(lastUpdateId'), Fine(durable')
      PROVE  OffsetsInOrder'
    BY <1>5 DEF OffsetsInOrder, KeptUpTo, OffsetsOf
<1>6. ASSUME NEW s \in Sessions, StartHandler(s)
      PROVE  \A r \in Sessions : \A x \in OffsetsOf(tracker'[r]) : Fine(x)
    <2>1. drain[s].claiming.update \in UpdateIds
        BY <1>0, <1>6, StartFacts DEF TypeOK
    <2>2. tracker' = tracker \/ tracker' = [tracker EXCEPT ![s] = Begin(@, drain[s].claiming.update)]
        BY <1>6 DEF StartHandler
    <2>3. OffsetsOf(Begin(tracker[s], drain[s].claiming.update)) = OffsetsOf(tracker[s])
        BY <1>0, <2>1, StepOffsets
    <2> HIDE DEF Fine
    <2> QED BY <1>0, <1>3, <2>2, <2>3
<1>7. ASSUME NEW h \in handlers, Throws(h)
      PROVE  \A r \in Sessions : \A x \in OffsetsOf(tracker'[r]) : Fine(x)
    <2>1. tracker' = [tracker EXCEPT ![h.session] = Fail(@, h.update)]
        BY <1>7 DEF Throws
    <2>2. h.session \in Sessions /\ h.update \in UpdateIds
        BY <1>0 DEF HandlerType
    <2>3. OffsetsOf(Fail(tracker[h.session], h.update)) = OffsetsOf(tracker[h.session])
        BY <1>0, <2>2, StepOffsets
    <2> HIDE DEF Fine
    <2> QED BY <1>0, <1>3, <2>1, <2>2, <2>3
\* The offset persistUpdateId notes is one the tracker writes.
<1>8. ASSUME NEW s \in Sessions, \A x \in OffsetsOf(tracker'[s]) : Fine(x),
             lastUpdateId' = Later(tracker'[s].writing, lastUpdateId)
      PROVE  Fine(lastUpdateId')
    <2>1. tracker'[s].writing \in OffsetsOf(tracker'[s])
        BY DEF OffsetsOf
    <2> HIDE DEF Fine
    <2> QED BY <1>2, <1>8, <2>1 DEF Later
<1>9. ASSUME NEW h \in handlers, Completes(h) PROVE OffsetsInOrder'
    <2> DEFINE s == h.session
    <2>1. tracker' = [tracker EXCEPT ![s] = Acked(@, h.update)] /\ UNCHANGED durable
          /\ lastUpdateId' = Later(tracker'[s].writing, lastUpdateId)
        BY <1>9 DEF Completes, Acked
    <2>2. s \in Sessions /\ h.update \in UpdateIds
        BY <1>0 DEF HandlerType
    <2>3. /\ Acked(tracker[s], h.update) \in TrackerType
          /\ \A x \in OffsetsOf(Acked(tracker[s], h.update)) :
             \E y \in OffsetsOf(tracker[s]) \cup {h.update, NoId} : x <= y
        BY <1>0, <2>2, AckedFacts
    <2>4. OffsetsOf(Acked(tracker[s], h.update)) \subseteq Int
          /\ OffsetsOf(tracker[s]) \cup {h.update, NoId} \subseteq Int
        <3>1. tracker[s] \in TrackerType
            BY <1>0, <2>2
        <3>2. h.update \in Int /\ NoId \in Int
            <4>1. h.update \in Nat
                BY <2>2
            <4>2. NoId \in Int
                BY DEF NoId
            <4> QED BY <4>1, <4>2
        <3> QED BY <2>3, <3>1, <3>2, OffsetsAreInts
    <2>5. ASSUME NEW x \in OffsetsOf(Acked(tracker[s], h.update)), NEW v \in UpdateIds, v <= x
          PROVE  v \in KeptIds'
        <3>1. PICK y \in OffsetsOf(tracker[s]) \cup {h.update, NoId} : x <= y
            BY <2>3
        <3>2. x \in Int /\ y \in Int /\ v \in Int
            BY <2>4
        <3>3. v <= y
            BY <2>5, <3>1, <3>2
        <3>4. Fine(y)
            BY <1>1, <1>3, <1>4, <2>2, <3>1
        <3> QED BY <3>3, <3>4
    <2>6. \A r \in Sessions : \A x \in OffsetsOf(tracker'[r]) : Fine(x)
        <3>1. \A x \in OffsetsOf(Acked(tracker[s], h.update)) : Fine(x)
            BY <2>5
        <3> HIDE DEF Fine, s
        <3> QED BY <1>0, <1>3, <2>1, <2>2, <3>1
    <2> HIDE DEF Fine, s
    <2> QED BY <1>2, <1>5, <1>8, <2>1, <2>2, <2>6
<1>10. ASSUME NEW s \in Sessions, WriteOffset(s) PROVE OffsetsInOrder'
    <2>1. /\ tracker[s].writing # NoId /\ durable' = tracker[s].writing
          /\ tracker' = [tracker EXCEPT ![s] = WriteSettled(@, TRUE)]
          /\ lastUpdateId' = Later(tracker'[s].writing, lastUpdateId)
        BY <1>10 DEF WriteOffset
    <2>2. OffsetsOf(WriteSettled(tracker[s], TRUE)) \subseteq OffsetsOf(tracker[s]) \cup {NoId}
        BY <1>0, <2>1, SettledFacts
    <2> HIDE DEF Fine
    <2>3. \A r \in Sessions : \A x \in OffsetsOf(tracker'[r]) : Fine(x)
        BY <1>0, <1>1, <1>3, <2>1, <2>2
    <2>4. Fine(durable')
        BY <1>3, <2>1 DEF OffsetsOf
    <2> QED BY <1>5, <1>8, <2>1, <2>3, <2>4
<1>11. CASE RestartSession
    <2>1. /\ tracker' = [tracker EXCEPT ![session + 1] = NewTracker(NoId, lastUpdateId)]
          /\ UNCHANGED <<lastUpdateId, durable>>
        BY <1>11 DEF RestartSession, BeginSession
    <2>2. OffsetsOf(NewTracker(NoId, lastUpdateId)) \subseteq {lastUpdateId, NoId}
        BY <1>0, NewTrackerFacts
    <2> HIDE DEF Fine
    <2>3. \A r \in Sessions : \A x \in OffsetsOf(tracker'[r]) : Fine(x)
        BY <1>0, <1>1, <1>2, <1>3, <2>1, <2>2
    <2> QED BY <1>2, <1>5, <2>1, <2>3
<1>12. CASE Crash
    <2>1. /\ tracker' = [[s \in Sessions |-> NewTracker(NoId, NoId)] EXCEPT
                            ![session + 1] = NewTracker(NoId, durable)]
          /\ UNCHANGED durable /\ lastUpdateId' = durable
        BY <1>12 DEF Crash, BeginSession
    <2>2. OffsetsOf(NewTracker(NoId, durable)) \subseteq {durable, NoId}
          /\ OffsetsOf(NewTracker(NoId, NoId)) \subseteq {NoId}
        BY <1>0, NewTrackerFacts
    <2> HIDE DEF Fine
    <2>3. \A r \in Sessions : \A x \in OffsetsOf(tracker'[r]) : Fine(x)
        BY <1>0, <1>1, <1>2, <2>1, <2>2
    <2> QED BY <1>2, <1>5, <2>1, <2>3
<1>13. ASSUME UNCHANGED <<lastUpdateId, durable>>,
              \A s \in Sessions : \A x \in OffsetsOf(tracker'[s]) : Fine(x)
       PROVE  OffsetsInOrder'
    <2> HIDE DEF Fine
    <2> QED BY <1>2, <1>5, <1>13
<1>14. CASE UNCHANGED <<tracker, lastUpdateId, durable>>
    <2> HIDE DEF Fine
    <2> QED BY <1>3, <1>13, <1>14
<1>15. CASE \/ \E s \in Sessions : StartHandler(s)
            \/ \E h \in handlers : Throws(h)
    <2>1. UNCHANGED <<lastUpdateId, durable>>
        BY <1>15 DEF StartHandler, Throws, sessionVars
    <2> HIDE DEF Fine
    <2> QED BY <1>6, <1>7, <1>13, <1>15, <2>1
<1>16. \/ UNCHANGED tracker \/ \E s \in Sessions : StartHandler(s) \/ WriteOffset(s)
       \/ \E h \in handlers : Completes(h) \/ Throws(h)
       \/ RestartSession \/ Crash
    BY Movers DEF MovedByTheirSteps
<1>17. \/ UNCHANGED <<lastUpdateId, durable>> \/ \E h \in handlers : Completes(h)
       \/ \E s \in Sessions : WriteOffset(s)
       \/ Crash
    BY Movers DEF MovedByTheirSteps
<1> QED BY <1>9, <1>10, <1>11, <1>12, <1>14, <1>15, <1>16, <1>17

LEMMA IngressInvInit == Init => IngressInv
<1> SUFFICES ASSUME Init PROVE IngressInv
    OBVIOUS
<1>1. /\ serverOffset = 0 /\ orphanWrites = {} /\ handlers = {}
      /\ lastUpdateId = NoId /\ durable = NoId
      /\ worker.last = NoId /\ worker.batch = {} /\ worker.waiting = NoId
      /\ \A u \in UpdateIds : spool[u].status = "none"
    BY DEF Init, NewWorker
<1>2. \A s \in Sessions : drain[s].list = {} /\ ~Starting(s)
    BY DEF Init, IdleDrain, Starting
<1>3. \A s \in Sessions : \A x \in OffsetsOf(tracker[s]) : x = NoId
    BY DEF Init, OffsetsOf, NewTracker
<1>4. KeptUpTo(NoId) /\ KeptBelow(0)
    BY DEF KeptUpTo, KeptBelow, NoId
<1>5. RemovedAreDone /\ WorkerInOrder /\ SpooledInOrder /\ OffsetsInOrder
    BY <1>1, <1>2, <1>3, <1>4 DEF RemovedAreDone, WorkerInOrder, SpooledInOrder, OffsetsInOrder
<1> QED BY <1>5, LaneInvInit DEF IngressInv

LEMMA IngressInvStep == IngressInv /\ [Next]_vars => IngressInv'
<1> SUFFICES ASSUME IngressInv, [Next]_vars PROVE IngressInv'
    OBVIOUS
<1>1. LaneInv' /\ RemovedAreDone'
    BY LaneInvStep, RemovedStep DEF IngressInv
<1>2. WorkerInOrder' /\ SpooledInOrder' /\ OffsetsInOrder'
    BY WorkerStep, SpooledStep, OffsetsStep
<1> QED BY <1>1, <1>2 DEF IngressInv

\* Telegram forgets only what the spool has, a handler has reached or the watermark dropped.
\* The spool is filled in order, so whatever offset the worker confirms, or a tracker completes
\* and the store or the next session takes up, has only such updates below it; and a record
\* leaves the spool only for an update that is done.  The stray lanes are excepted for the
\* latter: of two handlers of one update, one could delete the record by the word of the
\* other, and that one fail.
THEOREM ForgottenAreKept == Spec => []ForgottenIsKept
<1>1. ASSUME IngressInv PROVE ForgottenIsKept
    <2> SUFFICES ASSUME NEW u \in UpdateIds,
                        u < serverOffset \/ u <= Later(lastUpdateId, durable)
                 PROVE  spool[u].status # "none" \/ u \in Reached \cup dropped \/ Stray(u)
        BY DEF ForgottenIsKept, Stray
    <2>1. u \in KeptIds
        BY <1>1 DEF IngressInv, WorkerInOrder, OffsetsInOrder, KeptBelow, KeptUpTo, Later
    <2> QED BY <2>1 DEF KeptIds, Reached
<1> USE IngressInvInit, IngressInvStep
<1> QED BY <1>1, PTL DEF Spec

-----------------------------------------------------------------------------
(* The order of a lane *)

\* A claim ends with its handler, or is recovered.
LEMMA ClaimsEnd ==
    ASSUME TypeOK, [Next]_vars, NEW u \in UpdateIds, spool[u].status \in {"claimed", "failed"}
    PROVE  \/ spool'[u].status \in {"claimed", "failed"}
           \/ /\ spool[u].status = "claimed" /\ spool'[u].status # "claimed"
              /\ \E s \in Sessions : RecoverClaims(s) /\ Lane[u] \notin drain[s].snapshot
           \/ \E h \in handlers : Removes(h) /\ h.update = u
<1>0. spool \in [UpdateIds -> RecordType] /\ handlers \subseteq HandlerType
    BY DEF TypeOK
<1>1. \/ spool'[u] = spool[u]
      \/ spool[u].status = "claimed" /\ spool'[u].status = "failed"
      \/ spool[u].status = "claimed" /\ spool'[u].status \in {"pending", "none"}
    BY SpoolTyped DEF RecordSteps
<1> SUFFICES ASSUME spool[u].status = "claimed", spool'[u].status \in {"pending", "none"}
             PROVE  \/ \E s \in Sessions : RecoverClaims(s) /\ Lane[u] \notin drain[s].snapshot
                    \/ \E h \in handlers : Removes(h) /\ h.update = u
    BY <1>1
<1>2. UNCHANGED spool \/ SpoolSteps
    BY Movers DEF MovedByTheirSteps
<1>3. ~(SpoolUpdate \/ \E w \in UpdateIds : SpoolOrphan(w))
    <2>1. ASSUME NEW w \in UpdateIds, Enqueue(w) PROVE FALSE
        BY <1>0, <2>1, EnqueueFacts
    <2> QED BY <2>1 DEF SpoolUpdate, SpoolOrphan, TypeOK, WorkerType
<1>4. ASSUME NEW s \in Sessions, RecoverClaims(s) PROVE Lane[u] \notin drain[s].snapshot
    BY <1>4 DEF RecoverClaims
<1>5. ASSUME NEW s \in Sessions, ClaimUpdate(s) PROVE FALSE
    <2>1. spool[drain[s].claiming.update].status = "pending"
          /\ spool' = [spool EXCEPT ![drain[s].claiming.update] =
                          [status |-> "claimed", token |-> spool[drain[s].claiming.update].token + 1]]
        BY <1>5 DEF ClaimUpdate
    <2> QED BY <1>0, <2>1
<1>6. ASSUME NEW s \in Sessions, DeadLetterTimedOut(s) PROVE FALSE
    <2>1. UNCHANGED spool \/ SetStatus(drain[s].claiming.update, "failed")
        BY <1>6 DEF DeadLetterTimedOut
    <2>2. drain[s].claiming.update \in UpdateIds \/ drain[s].claiming.update = NoId
        BY DEF TypeOK, DrainType
    <2>3. ASSUME NEW w \in UpdateIds, SetStatus(w, "failed") PROVE FALSE
        BY <1>0, <2>3, SetStatusFacts
    <2>4. ASSUME NoId \notin UpdateIds, SetStatus(NoId, "failed") PROVE FALSE
        BY <1>0, <2>4 DEF SetStatus
    <2> QED BY <2>1, <2>2, <2>3, <2>4
<1>7. ASSUME NEW h \in handlers, FinishClaim(h) PROVE Removes(h) /\ h.update = u
    <2>1. UNCHANGED spool \/ SetStatus(h.update, ClaimOutcome(h))
        BY <1>7 DEF FinishClaim
    <2>2. h.update \in UpdateIds
        BY <1>0 DEF HandlerType
    <2>3. h.update = u
        BY <1>0, <2>1, <2>2 DEF SetStatus
    <2> QED BY <1>7, <2>3, HandlerMoves
<1> QED BY <1>2, <1>3, <1>4, <1>5, <1>6, <1>7 DEF SpoolSteps

\* How a drain comes to be listing, claiming or starting.
DrainMoves(s) ==
    LET d == drain[s]
        n == drain'[s]
        u == d.claiming.update
    IN  \/ n = d
        \/ At(s, "claims") /\ ListClaims(s) /\ n.pc = "list"
           /\ \A v \in UpdateIds : spool[v].status = "claimed" => Lane[v] \in n.claimedLanes
        \/ /\ At(s, "claim") /\ ClaimUpdate(s) /\ n.pc = "start" /\ n.claiming.update = u
           /\ n.list = d.list /\ n.claimedLanes = d.claimedLanes /\ n.blocked = d.blocked
        \/ At(s, "list") /\ ListPending(s)
           /\ Scanned(n, {v \in UpdateIds : spool[v].status = "pending"},
                      d.claimedLanes, d.blocked, ActiveLanes)
        \/ At(s, "claim") /\ ClaimMisses(s)
           /\ Scanned(n, d.list, d.claimedLanes \cup {Lane[u]}, d.blocked, ActiveLanes)
        \/ At(s, "start") /\ StartHandler(s)
           /\ Scanned(n, d.list, d.claimedLanes \cup {Lane[u]}, d.blocked,
                      ActiveLanes \cup {Lane[u]})

LEMMA DrainMovesFacts ==
    ASSUME TypeOK, [Next]_vars, NEW s \in Sessions,
           drain'[s].pc \in {"list", "claim", "start"}
    PROVE  DrainMoves(s)
<1>1. ASSUME NEW r \in Sessions, OnlyDrain(r), r # s PROVE DrainMoves(s)
    BY <1>1 DEF OnlyDrain, DrainMoves
<1>2. ASSUME OnlyDrain(s), DrainWaits(s) PROVE DrainMoves(s)
    BY <1>2 DEF DrainWaits, DrainMoves
<1>3. CASE ListPending(s)
    BY <1>3, Scans DEF DrainMoves, ListPending
<1>4. CASE ClaimMisses(s)
    BY <1>4, Scans DEF DrainMoves, ClaimMisses
<1>5. CASE StartHandler(s)
    BY <1>5, Scans DEF DrainMoves, StartHandler
<1>6. ASSUME NEW r \in Sessions, DrainStep(r) PROVE DrainMoves(s)
    <2>1. OnlyDrain(r)
        BY <1>6, Scans, Waits
    <2>2. CASE ~(ListPending(r) \/ ClaimMisses(r) \/ StartHandler(r))
        BY <1>1, <1>2, <1>6, <2>1, <2>2, Waits
    <2> QED BY <1>1, <1>3, <1>4, <1>5, <2>1, <2>2
<1>7. CASE BeginsDrain
    BY <1>1, <1>2, <1>7, Waits DEF TypeOK
<1>8. CASE UNCHANGED drain
    BY <1>8 DEF DrainMoves
<1>9. ~Crash
    BY DEF Crash, IdleDrain
<1> QED BY <1>6, <1>7, <1>8, <1>9, Movers DEF MovedByTheirSteps


LEMMA ClaimMoves ==
    ASSUME TypeOK, NEW s \in Sessions, ClaimUpdate(s)
    PROVE  OnlyDrain(s) /\ At(s, "claim") /\ drain'[s].pc = "start"
<1> DEFINE token == spool[drain[s].claiming.update].token + 1
           d == [drain[s] EXCEPT !.pc = "start", !.claiming = [drain[s].claiming EXCEPT !.token = token]]
<1>1. At(s, "claim") /\ SetDrain(s, d)
    BY DEF ClaimUpdate
<1>2. d.pc = "start"
    BY DEF TypeOK, DrainType
<1> HIDE DEF d
<1>3. drain'[s].pc = "start"
    BY <1>1, <1>2 DEF SetDrain, TypeOK
<1>4. ~ListPending(s) /\ ~StartHandler(s)
    BY <1>1 DEF ListPending, StartHandler, At
<1>5. ~ClaimMisses(s)
    BY <1>3, Scans DEF Scanned
<1> QED BY <1>1, <1>3, <1>4, <1>5, Waits DEF DrainStep

\* What a drain requeues, be it the session's or, on a lane that is then stray, another.
LEMMA Requeues ==
    ASSUME TypeOK, NEW s \in Sessions, RecoverClaims(s), NEW u \in UpdateIds,
           spool[u].status = "claimed", spool'[u].status # "claimed"
    PROVE  (s = session /\ At(session, "recover")) \/ Stray(u)'
<1>1. CASE s = session
    BY <1>1 DEF RecoverClaims
<1>2. CASE s # session
    BY <1>2, StraysNoted DEF Stray
<1> QED BY <1>1, <1>2

\* No step takes the record from under a handler that works or is about to start.
LEMMA HeldStep ==
    ASSUME OrderInv, [Next]_vars
    PROVE  RecordsHeld'
<1>0. /\ TypeOK /\ SessionInv /\ LaneInv /\ HandlersRegistered /\ RecordsHeld /\ StrayStarts
      /\ handlers \subseteq HandlerType /\ session \in Sessions
      /\ strayLanes \subseteq strayLanes'
    BY StraysTyped DEF OrderInv, IngressInv, LaneInv, SessionInv, TypeOK
<1> DEFINE Clean(u) == Lane[u] \notin strayLanes'
           HeldNext(u) == spool'[u].status \in {"claimed", "failed"} \/ ~Clean(u)
<1>1. \A u : Clean(u) => ~Stray(u)
    BY <1>0 DEF Stray
<1>2. ASSUME NEW h \in handlers, ~HeldNext(h.update) PROVE Removes(h)
    <2>1. h.update \in UpdateIds /\ spool[h.update].status \in {"claimed", "failed"}
        BY <1>0, <1>1, <1>2 DEF HandlerType, RecordsHeld, Held
    <2>2. ASSUME NEW s \in Sessions, RecoverClaims(s),
                 spool[h.update].status = "claimed", spool'[h.update].status # "claimed"
          PROVE  Lane[h.update] \in drain[s].snapshot
        BY <1>0, <1>1, <1>2, <2>1, <2>2, Requeues DEF RecordsHeld, Stray
    <2>3. ASSUME NEW g \in handlers, g.update = h.update PROVE g = h
        BY <1>0, <1>1, <1>2, <2>3 DEF HandlersRegistered
    <2> QED BY <1>0, <1>2, <2>1, <2>2, <2>3, ClaimsEnd
<1>3. ASSUME At(session, "start") PROVE HeldNext(drain[session].claiming.update)
    <2> DEFINE u == drain[session].claiming.update
    <2> SUFFICES ASSUME ~HeldNext(u) PROVE FALSE
        OBVIOUS
    <2>1. Starting(session)
        BY <1>3 DEF At, Starting
    <2>2. u \in UpdateIds /\ spool[u].status \in {"claimed", "failed"}
        BY <1>0, <1>1, <1>3, <2>1 DEF TypeOK, RecordsHeld, Held
    <2>3. ASSUME NEW r \in Sessions, RecoverClaims(r),
                 spool[u].status = "claimed", spool'[u].status # "claimed"
          PROVE  FALSE
        BY <1>0, <1>3, <2>2, <2>3, Requeues DEF At, Stray
    <2>4. \A h \in handlers : h.update # u
        BY <1>0, <1>1, <2>1, AloneOnLane DEF StartLane, Stray
    <2> HIDE DEF u
    <2> QED BY <1>0, <2>2, <2>3, <2>4, ClaimsEnd
<1>4. ASSUME NEW h \in handlers' PROVE HeldNext(h.update)
    <2>1. ASSUME NEW g \in handlers, g.update = h.update, ~HeldNext(h.update) PROVE FALSE
        <3>1. Removes(g)
            BY <1>2, <2>1
        <3>2. h \in handlers /\ h # g
            BY <3>1 DEF Removes
        <3> QED BY <1>0, <1>1, <2>1, <3>2 DEF HandlersRegistered
    <2>2. ASSUME NEW s \in Sessions, StartHandler(s), h.update = drain[s].claiming.update
          PROVE  HeldNext(h.update)
        <3>1. At(s, "start")
            BY <2>2 DEF StartHandler
        <3>2. s # session => Stray(h.update)
            BY <1>0, <2>2, <3>1 DEF StrayStarts, StartLane, Stray
        <3> HIDE DEF HeldNext
        <3>3. s = session => HeldNext(h.update)
            BY <1>3, <2>2, <3>1
        <3> QED BY <1>1, <3>2, <3>3 DEF HeldNext
    <2> HIDE DEF HeldNext
    <2> QED BY <1>0, <2>1, <2>2, HandlerUpdates
<1>5. ASSUME session' = session, drain'[session].pc = "recover", NEW h \in handlers', Clean(h.update)
      PROVE  Lane[h.update] \in drain'[session].snapshot
    <2> DEFINE s == session
    <2>1. CASE BeginsDrain
        <3>1. OnlyDrain(s) /\ DrainWaits(s) /\ UNCHANGED handlers
            BY <1>0, <2>1, Waits DEF BeginsDrain
        <3>2. drain'[s].snapshot = ActiveLanes
            BY <1>5, <2>1, <3>1 DEF DrainWaits, BeginsDrain, At
        <3>3. h \in handlers /\ h.update \in UpdateIds /\ Lane[h.update] \in Lanes
            BY <1>0, <3>1 DEF HandlerType, Lanes
        <3>4. active[Lane[h.update]].update = h.update
            BY <1>0, <1>1, <1>5, <3>3 DEF HandlersRegistered, Registered
        <3>5. active[Lane[h.update]] # NoHandler
            BY <3>3, <3>4 DEF NoHandler, NoId
        <3> QED BY <3>2, <3>3, <3>5 DEF ActiveLanes
    <2>2. ASSUME drain'[s] = drain[s] PROVE Lane[h.update] \in drain'[s].snapshot
        <3>1. At(s, "recover")
            BY <1>5, <2>2 DEF At
        <3>2. ASSUME NEW r \in Sessions, StartHandler(r), h.update = drain[r].claiming.update
              PROVE  FALSE
            <4>1. At(r, "start") /\ r # s
                BY <3>1, <3>2 DEF StartHandler, At
            <4> QED BY <1>0, <1>1, <1>5, <3>2, <4>1 DEF StrayStarts, StartLane, Stray
        <3>3. \E g \in handlers : g.update = h.update
            BY <1>0, <3>2, HandlerUpdates
        <3> QED BY <1>0, <1>1, <1>5, <2>2, <3>1, <3>3 DEF RecordsHeld
    <2>3. ASSUME NEW r \in Sessions, DrainStep(r), ~BeginsDrain
          PROVE  drain'[s] = drain[s]
        <3>1. OnlyDrain(r)
            BY <1>0, <2>3, Scans, Waits
        <3>2. CASE r = s
            <4>1. DrainStep(s)
                BY <2>3, <3>2
            <4>2. CASE ListPending(s) \/ ClaimMisses(s) \/ StartHandler(s)
                <5>1. drain'[s].pc \in {"claim", "timeouts"}
                    BY <1>0, <4>2, Scans DEF Scanned
                <5> QED BY <1>5, <5>1
            <4>3. CASE ~(ListPending(s) \/ ClaimMisses(s) \/ StartHandler(s))
                <5>1. DrainWaits(s)
                    BY <1>0, <4>1, <4>3, Waits
                <5> QED BY <1>5, <2>3, <5>1 DEF DrainWaits
            <4> QED BY <4>2, <4>3
        <3> QED BY <1>0, <3>1, <3>2 DEF OnlyDrain
    <2>4. ~Crash
        BY <1>0, <1>5 DEF Crash, IdleDrain
    <2>5. UNCHANGED drain \/ BeginsDrain \/ (\E r \in Sessions : DrainStep(r)) \/ Crash
        BY Movers DEF MovedByTheirSteps
    <2> QED BY <2>1, <2>2, <2>3, <2>4, <2>5
<1>6. ASSUME session' = session, drain'[session].pc = "start"
      PROVE  HeldNext(drain'[session].claiming.update)
    <2> DEFINE s == session
    <2>1. DrainMoves(s)
        BY <1>0, <1>6, DrainMovesFacts
    <2>2. CASE drain'[s] = drain[s]
        BY <1>3, <1>6, <2>2 DEF At
    <2>3. CASE ClaimUpdate(s) /\ drain'[s].claiming.update = drain[s].claiming.update
        <3>1. drain[s].claiming.update \in UpdateIds
            BY <1>0, <2>3 DEF ClaimUpdate, At, Starting, TypeOK
        <3>2. spool' = [spool EXCEPT ![drain[s].claiming.update] =
                           [status |-> "claimed", token |-> spool[drain[s].claiming.update].token + 1]]
            BY <2>3 DEF ClaimUpdate
        <3> QED BY <1>0, <2>3, <3>1, <3>2 DEF TypeOK
    <2> HIDE DEF HeldNext
    <2> QED BY <1>6, <2>1, <2>2, <2>3 DEF DrainMoves, Scanned
<1>7. session' = session \/ drain'[session'].pc = "idle"
    BY <1>0, NewSessionIdle DEF IdleDrain
<1> QED BY <1>4, <1>5, <1>6, <1>7 DEF RecordsHeld, Held, Stray, At

\* A claim is the drain's own or was there when it listed the claims.
LEMMA ClaimsKnownStep ==
    ASSUME OrderInv, [Next]_vars
    PROVE  ClaimsKnown'
<1>0. TypeOK /\ SessionInv /\ ClaimsKnown /\ session \in Sessions /\ strayLanes \subseteq strayLanes'
    BY StraysTyped DEF OrderInv, IngressInv, LaneInv, SessionInv, TypeOK
<1>s. session' = session \/ drain'[session'].pc = "idle"
    BY <1>0, NewSessionIdle DEF IdleDrain
<1> DEFINE s == session
<1> SUFFICES ASSUME session' = session, drain'[s].pc \in {"list", "claim", "start"},
                    NEW v \in UpdateIds, spool'[v].status = "claimed", Lane[v] \notin strayLanes'
             PROVE  \/ Lane[v] \in drain'[s].claimedLanes
                    \/ drain'[s].pc = "start" /\ v = drain'[s].claiming.update
    BY <1>s DEF ClaimsKnown, At, Stray
<1> DEFINE Goal == \/ Lane[v] \in drain'[s].claimedLanes
                   \/ drain'[s].pc = "start" /\ v = drain'[s].claiming.update
<1>1. spool[v].status = "claimed" \/ (ClaimUpdate(s) /\ v = drain[s].claiming.update)
    <2>1. \/ spool[v].status = "claimed"
          \/ \E r \in Sessions : ClaimUpdate(r) /\ v = drain[r].claiming.update
        BY <1>0, SpoolTyped DEF RecordSteps
    <2>2. ASSUME NEW r \in Sessions, ClaimUpdate(r), r # session, v = drain[r].claiming.update
          PROVE  FALSE
        <3>1. StartLane(r) \in strayLanes'
            BY <1>0, <2>2, StraysNoted
        <3> QED BY <2>2, <3>1 DEF StartLane
    <2>3. ASSUME NEW r \in Sessions, ClaimUpdate(r), v = drain[r].claiming.update
          PROVE  ClaimUpdate(s) /\ v = drain[s].claiming.update
        <3>1. r = session
            BY <2>2, <2>3
        <3>2. ClaimUpdate(session)
            BY <2>3, <3>1
        <3>3. v = drain[session].claiming.update
            BY <2>3, <3>1
        <3> QED BY <3>2, <3>3
    <2> QED BY <2>1, <2>3
<1>2. ~Stray(v)
    BY <1>0 DEF Stray
<1>3. DrainMoves(s)
    BY <1>0, DrainMovesFacts
<1>4. ASSUME drain'[s] = drain[s] PROVE Goal
    <2>1. ~ClaimUpdate(s)
        BY <1>0, <1>4, ClaimMoves DEF At
    <2> QED BY <1>0, <1>1, <1>2, <1>4, <2>1 DEF ClaimsKnown, At
<1>5. ASSUME ListClaims(s),
             \A w \in UpdateIds : spool[w].status = "claimed" => Lane[w] \in drain'[s].claimedLanes
      PROVE  Goal
    BY <1>5 DEF ListClaims
<1>6. ASSUME At(s, "claim"), ClaimUpdate(s), drain'[s].pc = "start",
             drain'[s].claiming.update = drain[s].claiming.update,
             drain'[s].claimedLanes = drain[s].claimedLanes
      PROVE  Goal
    BY <1>0, <1>1, <1>2, <1>6 DEF ClaimsKnown, At
<1>7. ASSUME At(s, "list"), ListPending(s), drain'[s].claimedLanes = drain[s].claimedLanes
      PROVE  Goal
    <2>1. UNCHANGED spool
        BY <1>7 DEF ListPending
    <2> QED BY <1>0, <1>2, <1>7, <2>1 DEF ClaimsKnown, At
<1>8. ASSUME (At(s, "claim") /\ ClaimMisses(s)) \/ (At(s, "start") /\ StartHandler(s)),
             drain'[s].claimedLanes = drain[s].claimedLanes \cup {Lane[drain[s].claiming.update]}
      PROVE  Goal
    <2>1. UNCHANGED spool
        BY <1>8 DEF ClaimMisses, StartHandler
    <2> QED BY <1>0, <1>2, <1>8, <2>1 DEF ClaimsKnown, At
<1> HIDE DEF Goal
<1>9. Goal
    <2>1. drain'[s].pc # "timeouts"
        OBVIOUS
    <2> QED BY <1>3, <1>4, <1>5, <1>6, <1>7, <1>8, <2>1 DEF DrainMoves, Scanned
<1> QED BY <1>9 DEF Goal

\* What a drain passed over it knows to be claimed, or met guarded.
LEMMA PassesKnown ==
    ASSUME OrderInv, [Next]_vars, NEW s \in Sessions, s = session, session' = session,
           drain[s].pc \in {"list", "claim", "start"}, UNCHANGED spool,
           NEW listed \in SUBSET UpdateIds, NEW claimed, NEW busy,
           drain[s].claimedLanes \subseteq claimed,
           At(s, "start") => Lane[drain[s].claiming.update] \in claimed,
           busy \subseteq ActiveLanes \cup claimed,
           Scanned(drain'[s], listed, claimed, drain[s].blocked, busy),
           NEW v \in listed, drain'[s].pc = "claim"
    PROVE  \/ v \in drain'[s].list \cup {drain'[s].claiming.update}
           \/ Lane[v] \in claimed
           \/ MetGuarded(s, Lane[v])'
           \/ Stray(v)
<1>0. TypeOK /\ HandlersRegistered /\ RecordsHeld /\ ClaimsKnown /\ handlers \subseteq HandlerType
    BY DEF OrderInv, IngressInv, LaneInv, SessionInv, TypeOK
<1> DEFINE x == drain'[s].claiming.update
<1>1. x \in listed /\ (v < x => Lane[v] \in (busy \cap drain'[s].blocked) \cup claimed)
      /\ (v > x <=> v \in drain'[s].list)
    BY DEF Scanned
<1>2. v \in Nat /\ x \in Nat
    BY <1>1
<1> HIDE DEF x
<1>3. v < x \/ v = x \/ v > x
    BY <1>2
<1>4. ASSUME Lane[v] \in ActiveLanes, Lane[v] \notin claimed, Lane[v] \in drain'[s].blocked,
             ~Stray(v)
      PROVE  MetGuarded(s, Lane[v])'
    <2>1. PICK h \in handlers : Lane[h.update] = Lane[v]
        BY <1>0, <1>4 DEF ActiveLanes, HandlersRegistered
    <2>2. h.update \in UpdateIds /\ spool[h.update].status \in {"claimed", "failed"}
        BY <1>0, <1>4, <2>1 DEF HandlerType, RecordsHeld, Held, Stray
    <2>3. spool[h.update].status # "claimed"
        BY <1>0, <1>4, <2>1, <2>2 DEF ClaimsKnown, Stray
    <2>4. spool'[h.update].status = "failed"
        BY <2>2, <2>3
    <2> QED BY <1>4, <2>1, <2>2, <2>4 DEF MetGuarded
<1> QED BY <1>1, <1>3, <1>4 DEF x

LEMMA PassedKnownStep ==
    ASSUME OrderInv, [Next]_vars
    PROVE  PassedKnown'
<1>0. /\ TypeOK /\ SessionInv /\ ClaimsKnown /\ PassedKnown /\ SpooledInOrder
      /\ drain \in [Sessions -> DrainType] /\ session \in Sessions
      /\ strayLanes \subseteq strayLanes'
    BY StraysTyped DEF OrderInv, IngressInv, LaneInv, SessionInv, TypeOK
<1>s. session' = session \/ drain'[session'].pc = "idle"
    BY <1>0, NewSessionIdle DEF IdleDrain
<1>t. \A v : Stray(v) => Stray(v)'
    BY <1>0 DEF Stray
<1> SUFFICES ASSUME NEW s \in Sessions, s = session, session' = session,
                    drain'[s].pc \in {"claim", "start"}
             PROVE  /\ Lane[drain'[s].claiming.update] \notin drain'[s].claimedLanes
                    /\ \A v \in drain'[s].list : v > drain'[s].claiming.update
                    /\ \A x \in drain'[s].list \cup {drain'[s].claiming.update} :
                       \A v \in UpdateIds \ (EverHandled' \cup dropped') :
                          v < x /\ spool'[v].status = "pending" =>
                             \/ v \in drain'[s].list \cup {drain'[s].claiming.update}
                             \/ Lane[v] \in drain'[s].claimedLanes
                             \/ MetGuarded(s, Lane[v])' \/ Stray(v)'
    BY <1>0, <1>s DEF PassedKnown, Starting
<1> DEFINE d == drain[s]
           n == drain'[s]
           u == d.claiming.update
           ahead == d.list \cup {u}
           Goal == /\ Lane[n.claiming.update] \notin n.claimedLanes
                   /\ \A v \in n.list : v > n.claiming.update
                   /\ \A x \in n.list \cup {n.claiming.update} :
                      \A v \in UpdateIds \ (EverHandled' \cup dropped') :
                         v < x /\ spool'[v].status = "pending" =>
                            \/ v \in n.list \cup {n.claiming.update}
                            \/ Lane[v] \in n.claimedLanes
                            \/ MetGuarded(s, Lane[v])' \/ Stray(v)'
<1>1. DrainMoves(s)
    BY <1>0, DrainMovesFacts
<1>2. ASSUME NEW v \in UpdateIds, v \notin EverHandled' \cup dropped'
      PROVE  v \notin EverHandled \cup dropped
    BY <1>0, <1>2, DoneGrows
<1>3. ASSUME NEW l, MetGuarded(s, l), d.blocked \subseteq n.blocked
      PROVE  l \in n.blocked /\ \E w \in UpdateIds : Lane[w] = l /\ spool'[w].status = "failed"
    BY <1>0, <1>3, SpoolTyped DEF MetGuarded, RecordSteps
<1>4. ASSUME Starting(s), n.list = d.list, n.claiming.update = u, n.claimedLanes = d.claimedLanes,
             n.blocked = d.blocked
      PROVE  Goal
    <2>1. Lane[u] \notin d.claimedLanes /\ \A v \in d.list : v > u
        BY <1>0, <1>4 DEF PassedKnown
    <2>2. ASSUME NEW x \in ahead, NEW v \in UpdateIds, v \notin EverHandled' \cup dropped',
                 v < x, spool'[v].status = "pending"
          PROVE  \/ v \in ahead \/ Lane[v] \in d.claimedLanes
                 \/ MetGuarded(s, Lane[v]) \/ Stray(v)
        <3>1. v \notin EverHandled \cup dropped
            BY <1>2, <2>2
        <3>2. CASE spool[v].status = "pending"
            BY <1>0, <1>4, <2>2, <3>1, <3>2 DEF PassedKnown
        <3>3. CASE spool[v].status = "claimed"
            BY <1>0, <1>4, <3>3 DEF ClaimsKnown, Starting, At
        <3>4. spool[v].status # "none" \/ Stray(v)
            <4>1. KeptUpTo(x)
                BY <1>0, <1>4, <2>2 DEF SpooledInOrder
            <4>2. v <= x
                <5>1. v \in Nat /\ x \in Nat
                    BY <1>0, <1>4, <2>2 DEF TypeOK, DrainType
                <5> QED BY <2>2, <5>1
            <4> QED BY <3>1, <4>1, <4>2 DEF KeptUpTo, KeptIds
        <3>5. spool[v].status \in {"pending", "claimed"} \/ Stray(v)
            BY <1>0, <2>2, <3>4, SpoolTyped DEF RecordSteps, TypeOK, RecordType
        <3> QED BY <3>2, <3>3, <3>5
    <2> HIDE DEF d, n, u, ahead
    <2>3. \A x \in ahead : \A v \in UpdateIds \ (EverHandled' \cup dropped') :
             v < x /\ spool'[v].status = "pending" =>
                v \in ahead \/ Lane[v] \in d.claimedLanes \/ Stray(v)'
                \/ (Lane[v] \in n.blocked
                    /\ \E w \in UpdateIds : Lane[w] = Lane[v] /\ spool'[w].status = "failed")
        <3> SUFFICES ASSUME NEW x \in ahead, NEW v \in UpdateIds \ (EverHandled' \cup dropped'),
                            v < x, spool'[v].status = "pending"
                     PROVE  \/ v \in ahead \/ Lane[v] \in d.claimedLanes \/ Stray(v)'
                            \/ (Lane[v] \in n.blocked
                                /\ \E w \in UpdateIds : Lane[w] = Lane[v] /\ spool'[w].status = "failed")
            OBVIOUS
        <3>1. v \in ahead \/ Lane[v] \in d.claimedLanes \/ MetGuarded(s, Lane[v]) \/ Stray(v)
            BY <2>2
        <3>2. d.blocked \subseteq n.blocked
            BY <1>4
        <3>3. Stray(v) => Stray(v)'
            BY <1>t
        <3>4. MetGuarded(s, Lane[v]) =>
                 /\ Lane[v] \in n.blocked
                 /\ \E w \in UpdateIds : Lane[w] = Lane[v] /\ spool'[w].status = "failed"
            BY <1>3, <3>2
        <3> QED BY <3>1, <3>3, <3>4
    <2>4. n.list \cup {n.claiming.update} = ahead
        BY <1>4 DEF ahead
    <2>5. Lane[n.claiming.update] \notin n.claimedLanes /\ \A v \in n.list : v > n.claiming.update
        BY <1>4, <2>1
    <2>6. \A l : MetGuarded(s, l)' <=>
              l \in n.blocked /\ \E w \in UpdateIds : Lane[w] = l /\ spool'[w].status = "failed"
        BY DEF MetGuarded, n
    <2> QED BY <1>4, <2>3, <2>4, <2>5, <2>6
<1>5. ASSUME d.pc \in {"list", "claim", "start"}, UNCHANGED spool,
             NEW listed \in SUBSET UpdateIds, NEW claimed, NEW busy,
             d.claimedLanes \subseteq claimed,
             At(s, "start") => Lane[u] \in claimed,
             busy \subseteq ActiveLanes \cup claimed,
             Scanned(n, listed, claimed, d.blocked, busy),
             \A x \in listed : \A v \in UpdateIds \ (EverHandled \cup dropped) :
                v < x /\ spool[v].status = "pending" =>
                   v \in listed \/ Lane[v] \in claimed \/ MetGuarded(s, Lane[v]) \/ Stray(v)
      PROVE  Goal
    <2>1. n.pc = "claim"
        BY <1>5 DEF Scanned
    <2>2. /\ n.claimedLanes = claimed /\ d.blocked \subseteq n.blocked
          /\ Lane[n.claiming.update] \notin claimed
          /\ n.list \cup {n.claiming.update} \subseteq listed
          /\ \A v \in n.list : v > n.claiming.update
        BY <1>5, <2>1 DEF Scanned
    <2>3. ASSUME NEW v \in listed
          PROVE  \/ v \in n.list \cup {n.claiming.update} \/ Lane[v] \in claimed
                 \/ MetGuarded(s, Lane[v])' \/ Stray(v)
        BY <1>5, <2>1, <2>3, PassesKnown
    <2>4. ASSUME NEW x \in n.list \cup {n.claiming.update},
                 NEW v \in UpdateIds \ (EverHandled' \cup dropped'),
                 v < x, spool'[v].status = "pending"
          PROVE  \/ v \in n.list \cup {n.claiming.update} \/ Lane[v] \in claimed
                 \/ MetGuarded(s, Lane[v])' \/ Stray(v)
        <3>1. v \in listed \/ Lane[v] \in claimed \/ MetGuarded(s, Lane[v]) \/ Stray(v)
            BY <1>2, <1>5, <2>2, <2>4
        <3>2. MetGuarded(s, Lane[v]) => MetGuarded(s, Lane[v])'
            BY <1>3, <2>2 DEF MetGuarded
        <3> QED BY <2>3, <3>1, <3>2
    <2> QED BY <1>t, <2>2, <2>4
<1> HIDE DEF Goal
<1>6. ASSUME At(s, "list"), ListPending(s),
             Scanned(n, {v \in UpdateIds : spool[v].status = "pending"}, d.claimedLanes,
                     d.blocked, ActiveLanes)
      PROVE  Goal
    <2> DEFINE listed == {v \in UpdateIds : spool[v].status = "pending"}
    <2>1. UNCHANGED spool /\ d.pc = "list" /\ ~At(s, "start")
        BY <1>6 DEF ListPending, At
    <2>2. listed \in SUBSET UpdateIds
        OBVIOUS
    <2>3. \A v \in UpdateIds : spool[v].status = "pending" => v \in listed
        OBVIOUS
    <2> HIDE DEF listed
    <2> QED BY <1>5, <1>6, <2>1, <2>2, <2>3 DEF listed
<1>7. ASSUME NEW busy,
             \/ At(s, "claim") /\ ClaimMisses(s) /\ busy = ActiveLanes
             \/ At(s, "start") /\ StartHandler(s) /\ busy = ActiveLanes \cup {Lane[u]},
             Scanned(n, d.list, d.claimedLanes \cup {Lane[u]}, d.blocked, busy)
      PROVE  Goal
    <2> DEFINE claimed == d.claimedLanes \cup {Lane[u]}
    <2>1. UNCHANGED spool /\ d.pc \in {"claim", "start"} /\ Starting(s)
        BY <1>7 DEF ClaimMisses, StartHandler, At, Starting
    <2>2. d.list \in SUBSET UpdateIds
        BY <1>0 DEF DrainType
    <2>3. /\ d.claimedLanes \subseteq claimed /\ Lane[u] \in claimed
          /\ busy \subseteq ActiveLanes \cup claimed
        BY <1>7
    <2>4. \A x \in d.list : \A v \in UpdateIds \ (EverHandled \cup dropped) :
             v < x /\ spool[v].status = "pending" =>
                v \in d.list \/ Lane[v] \in claimed \/ MetGuarded(s, Lane[v]) \/ Stray(v)
        BY <1>0, <2>1 DEF PassedKnown
    <2>5. Scanned(n, d.list, claimed, d.blocked, busy)
        BY <1>7
    <2> HIDE DEF claimed
    <2> QED BY <1>5, <2>1, <2>2, <2>3, <2>4, <2>5
<1>8. Goal
    <2>1. Starting(s) <=> d.pc \in {"claim", "start"}
        BY DEF Starting
    <2>2. CASE n = d
        BY <1>4, <2>1, <2>2
    <2>3. CASE At(s, "claim") /\ ClaimUpdate(s) /\ n.claiming.update = u
               /\ n.list = d.list /\ n.claimedLanes = d.claimedLanes /\ n.blocked = d.blocked
        BY <1>4, <2>1, <2>3 DEF At
    <2> QED BY <1>1, <1>6, <1>7, <2>2, <2>3 DEF DrainMoves
<1> QED BY <1>8 DEF Goal

LEMMA OrderInvInit == Init => OrderInv
<1> SUFFICES ASSUME Init PROVE OrderInv
    OBVIOUS
<1>1. handlers = {} /\ drain[session].pc = "idle"
    BY DEF Init, IdleDrain, Sessions
<1> QED BY <1>1, IngressInvInit DEF OrderInv, RecordsHeld, ClaimsKnown, PassedKnown, At, Starting

LEMMA OrderInvStep == OrderInv /\ [Next]_vars => OrderInv'
<1> SUFFICES ASSUME OrderInv, [Next]_vars PROVE OrderInv'
    OBVIOUS
<1>1. IngressInv'
    BY IngressInvStep DEF OrderInv
<1> QED BY <1>1, HeldStep, ClaimsKnownStep, PassedKnownStep DEF OrderInv

\* The updates of a lane start in the order of their ids, but for one that the drain met
\* guarded by a dead-lettered run, and on lanes that the drain of a replaced session worked
\* on.  When a handler starts, an earlier update that waits would still be on the drain's
\* list, which is worked off in order, and an earlier one that is claimed would have its lane
\* among those the drain leaves alone: the claims are listed before the pending updates, the
\* spool fills in order, and whatever becomes pending again in between was claimed when the
\* claims were listed.
THEOREM LanesStartInOrder == Spec => LaneInOrder
<1>1. ASSUME OrderInv, [Next]_vars, NEW h \in handlers' \ handlers, h.stage = "handling",
             Lane[h.update] \notin strayLanes,
             NEW v \in UpdateIds \ (EverHandled \cup dropped),
             v < h.update, Lane[v] = Lane[h.update], spool[v].status \in {"pending", "claimed"}
      PROVE  MetGuarded(h.session, Lane[v])
    <2>0. TypeOK /\ ClaimsKnown /\ PassedKnown /\ StrayStarts /\ ~Stray(v)
        BY <1>1 DEF OrderInv, IngressInv, LaneInv, SessionInv, Stray
    <2>1. PICK s \in Sessions : StartHandler(s) /\ Starts(s, h)
        BY <1>1, <2>0, NewHandlers
    <2> DEFINE u == drain[s].claiming.update
    <2>2. h.session = s /\ h.update = u /\ u \in UpdateIds
        BY <2>1 DEF Starts
    <2>3. At(s, "start") /\ Starting(s) /\ drain[s].pc = "start" /\ s = session
        BY <1>1, <2>0, <2>1, <2>2 DEF StartHandler, At, Starting, StrayStarts, StartLane
    <2>4. Lane[v] \notin drain[s].claimedLanes
        BY <1>1, <2>0, <2>2, <2>3 DEF PassedKnown
    <2>5. v \in Nat /\ u \in Nat /\ v < u
        BY <1>1, <2>2
    <2>6. v # u /\ v \notin drain[s].list
        <3>1. \A w \in drain[s].list : w > u
            BY <2>0, <2>3 DEF PassedKnown
        <3> QED BY <2>5, <3>1
    <2>7. spool[v].status # "claimed"
        BY <2>0, <2>3, <2>4, <2>6 DEF ClaimsKnown
    <2> QED BY <1>1, <2>0, <2>2, <2>3, <2>4, <2>6, <2>7 DEF PassedKnown
<1>2. OrderInv /\ [Next]_vars =>
         [\A h \in handlers' \ handlers :
             h.stage = "handling" /\ Lane[h.update] \notin strayLanes =>
                 \A v \in UpdateIds \ (EverHandled \cup dropped) :
                     (v < h.update /\ Lane[v] = Lane[h.update]
                         /\ spool[v].status \in {"pending", "claimed"})
                     => MetGuarded(h.session, Lane[v])]_vars
    BY <1>1
<1> USE OrderInvInit, OrderInvStep
<1> QED BY <1>2, PTL DEF Spec, LaneInOrder
=============================================================================
