-------------------------- MODULE PollingLeaseProofs --------------------------
(***************************************************************************)
(* Proofs about the polling lease, for any number of pollers.               *)
(*                                                                         *)
(* LiveHoldsLease is not inductive by itself: a poller that replaces the    *)
(* entry it waited for must know that the entry's poller was told to stop,  *)
(* and so must stopAccount before it drops one.  WaitsForStopping adds it.  *)
(***************************************************************************)
EXTENDS PollingLease, TLAPS

\* Whoever waits, or has waited, waits for a poller that was told to stop.
WaitsForStopping ==
    /\ \A p \in Pollers : pc[p] \in {"waiting", "released", "timeout"} => existing[p] \in aborted
    /\ \A s \in Stops : stopPc[s] # "idle" => existing[s] \in aborted

LeaseInv == TypeOK /\ LeaseIsHeld /\ LiveHoldsLease /\ WaitsForStopping

\* The components keep their types.
LEMMA TypeInit == Init => TypeOK
<1> SUFFICES ASSUME Init PROVE TypeOK
    OBVIOUS
<1> QED BY DEF Init, TypeOK, Callers

LEMMA TypeStep == TypeOK /\ WaitsForStopping /\ [Next]_vars => TypeOK'
<1> SUFFICES ASSUME TypeOK, WaitsForStopping, [Next]_vars PROVE TypeOK'
    OBVIOUS
<1> USE DEF TypeOK, Callers
<1>1. ASSUME NEW p \in Pollers, TryAcquire(p), UNCHANGED <<stopPc, aborted, done>>
      PROVE TypeOK'
    BY <1>1 DEF TryAcquire, CreateLease, Move
<1>2. CASE \E p \in Pollers : Acquire(p) \/ WaitReleased(p) \/ WaitTimesOut(p) \/ WaitAborted(p)
    BY <1>1, <1>2 DEF Acquire, WaitReleased, WaitTimesOut, WaitAborted, Move
<1>3. CASE \E p \in Pollers : ResumeAcquire(p)
    BY <1>1, <1>3 DEF ResumeAcquire, CreateLease, Move
<1>4. CASE \E p \in Pollers : Abort(p) \/ EndPolling(p)
    BY <1>4 DEF Abort, EndPolling, Move
<1>5. CASE \E s \in Stops : (\E p \in Pollers : StopAccount(s, Account[p])) \/ StopWaited(s)
    BY <1>5 DEF StopAccount, StopWaited
<1>6. CASE \E s \in Stops : StopResumes(s)
    <2> PICK s \in Stops : StopResumes(s)
        BY <1>6
    <2>1. existing[s] \in Pollers
        BY DEF StopResumes, WaitsForStopping
    <2> QED BY <2>1 DEF StopResumes
<1>7. CASE UNCHANGED vars
    BY <1>7 DEF vars
<1> QED BY <1>2, <1>3, <1>4, <1>5, <1>6, <1>7 DEF Next

\* Abort signals are never taken back, and an entry is noted only when it is stopping.
LEMMA WaitingStep == TypeOK /\ WaitsForStopping /\ [Next]_vars => WaitsForStopping'
<1> SUFFICES ASSUME TypeOK, WaitsForStopping, [Next]_vars PROVE WaitsForStopping'
    OBVIOUS
<1> USE DEF TypeOK, Callers, WaitsForStopping
<1>1. ASSUME NEW p \in Pollers, TryAcquire(p), UNCHANGED <<stopPc, aborted, done>>
      PROVE WaitsForStopping'
    <2>1. \A s \in Stops : existing'[s] = existing[s]
        BY <1>1, LeaseAssumption DEF TryAcquire, CreateLease
    <2>2. \A q \in Pollers \ {p} : existing'[q] = existing[q] /\ pc'[q] = pc[q]
        BY <1>1 DEF TryAcquire, CreateLease, Move
    <2>3. pc'[p] = "waiting" => existing'[p] \in aborted
        BY <1>1 DEF TryAcquire, CreateLease, Move
    <2>4. pc'[p] \in {"polling", "refused", "waiting"}
        BY <1>1 DEF TryAcquire, CreateLease, Move
    <2> QED BY <1>1, <2>1, <2>2, <2>3, <2>4
<1>2. CASE \E p \in Pollers : Acquire(p) \/ WaitReleased(p) \/ WaitTimesOut(p) \/ WaitAborted(p)
    BY <1>1, <1>2 DEF Acquire, WaitReleased, WaitTimesOut, WaitAborted, Move
<1>3. CASE \E p \in Pollers : ResumeAcquire(p)
    BY <1>1, <1>3 DEF ResumeAcquire, CreateLease, Move
<1>4. CASE \E p \in Pollers : Abort(p) \/ EndPolling(p)
    BY <1>4 DEF Abort, EndPolling, Move
<1>5. CASE \E s \in Stops : \E p \in Pollers : StopAccount(s, Account[p])
    BY <1>5, LeaseAssumption DEF StopAccount
<1>6. CASE \E s \in Stops : StopWaited(s) \/ StopResumes(s)
    BY <1>6 DEF StopWaited, StopResumes
<1>7. CASE UNCHANGED vars
    BY <1>7 DEF vars
<1> QED BY <1>2, <1>3, <1>4, <1>5, <1>6, <1>7 DEF Next

\* What holding the lease needs of a step.
LEMMA HoldingStep == LeaseInv /\ [Next]_vars => (LeaseIsHeld /\ LiveHoldsLease)'
<1> SUFFICES ASSUME LeaseInv, [Next]_vars PROVE (LeaseIsHeld /\ LiveHoldsLease)'
    OBVIOUS
<1> USE LeaseAssumption DEF LeaseInv, TypeOK, Callers, LeaseIsHeld, LiveHoldsLease, Live
<1>1. ASSUME NEW p \in Pollers, CreateLease(p), registry = None \/ registry \in aborted,
             UNCHANGED <<stopPc, aborted, done>>
      PROVE (LeaseIsHeld /\ LiveHoldsLease)'
    BY <1>1 DEF CreateLease, Move
<1>2. ASSUME NEW p \in Pollers, TryAcquire(p), pc[p] # "polling",
             UNCHANGED <<stopPc, aborted, done>>
      PROVE (LeaseIsHeld /\ LiveHoldsLease)'
    BY <1>1, <1>2 DEF TryAcquire, Move
<1>3. CASE \E p \in Pollers : Acquire(p) \/ WaitReleased(p) \/ WaitTimesOut(p) \/ WaitAborted(p)
    BY <1>2, <1>3 DEF Acquire, WaitReleased, WaitTimesOut, WaitAborted, Move
<1>4. CASE \E p \in Pollers : ResumeAcquire(p)
    BY <1>1, <1>2, <1>4 DEF ResumeAcquire, WaitsForStopping
<1>5. CASE \E p \in Pollers : Abort(p)
    BY <1>5 DEF Abort
<1>6. CASE \E p \in Pollers : EndPolling(p)
    BY <1>6 DEF EndPolling, Move
<1>7. CASE \E s \in Stops : (\E p \in Pollers : StopAccount(s, Account[p])) \/ StopWaited(s)
    BY <1>7 DEF StopAccount, StopWaited
<1>8. CASE \E s \in Stops : StopResumes(s)
    <2> PICK s \in Stops : StopResumes(s)
        BY <1>8
    <2>1. existing[s] \in aborted
        BY DEF StopResumes, WaitsForStopping
    <2> QED BY <2>1 DEF StopResumes
<1>9. CASE UNCHANGED vars
    BY <1>9 DEF vars
<1> QED BY <1>3, <1>4, <1>5, <1>6, <1>7, <1>8, <1>9 DEF Next

\* The inductive invariant holds of every behaviour.
LEMMA LeaseInvariance == Spec => []LeaseInv
<1>1. Init => LeaseInv
    <2> SUFFICES ASSUME Init PROVE LeaseInv
        OBVIOUS
    <2> QED BY TypeInit DEF Init, LeaseInv, LeaseIsHeld, LiveHoldsLease, Live, WaitsForStopping
<1>2. LeaseInv /\ [Next]_vars => LeaseInv'
    BY TypeStep, WaitingStep, HoldingStep DEF LeaseInv
<1> QED BY <1>1, <1>2, PTL DEF Spec

\* A live poller never loses the lease, whatever replaced pollers release late and
\* whatever stopAccount drops; and a registered entry is always that of a poller at
\* work, so none can keep the token from later pollers for ever.
THEOREM LeaseIsKept == Spec => []LeaseMatchesPollers
<1>1. LeaseInv => LeaseMatchesPollers
    BY DEF LeaseInv, LeaseMatchesPollers
<1> QED BY LeaseInvariance, <1>1, PTL

\* Of all the pollers of a token, at most one has not been told to stop.
THEOREM NoDuplicatePoller == Spec => []OneLivePoller
<1>1. LeaseMatchesPollers => OneLivePoller
    BY DEF LeaseMatchesPollers, LiveHoldsLease, OneLivePoller
<1> QED BY LeaseIsKept, <1>1, PTL
-----------------------------------------------------------------------------
(***************************************************************************)
(* The lease implements the exclusive right to poll.  A start that creates  *)
(* an entry finds none, or one of a stopping poller: by LiveHoldsLease no    *)
(* live poller is at work then.  A refusal finds the entry of a live poller, *)
(* which by LeaseIsHeld is at work, or its own abort.                        *)
(***************************************************************************)

\* The abstract state of a poller follows its program counter.
LEMMA MappedStates ==
    ASSUME TypeOK, NEW p \in Pollers
    PROVE  /\ (StateOf(p) = "working") <=> (pc[p] = "polling")
           /\ (StateOf(p) = "over") <=> (pc[p] = "ended")
           /\ (StateOf(p) = "refused") <=> (pc[p] = "refused")
           /\ (StateOf(p) = "off") <=> (pc[p] \in {"idle", "waiting", "released", "timeout"})
BY DEF TypeOK, StateOf

\* A poller that goes on to work, or is refused, or still waits, takes that step abstractly.
LEMMA MappedMove ==
    ASSUME TypeOK, NEW p \in Pollers, NEW to, Move(p, to), UNCHANGED aborted,
           to \in {"waiting", "released", "timeout", "polling", "refused", "ended"}
    PROVE  [q \in Pollers |-> StateOf(q)]' =
               [[q \in Pollers |-> StateOf(q)] EXCEPT ![p] =
                   CASE to = "polling" -> "working"
                     [] to = "ended" -> "over"
                     [] to = "refused" -> "refused"
                     [] OTHER -> "off"]
BY DEF TypeOK, StateOf, Move

\* A wait changes nothing abstractly.
LEMMA WaitingIsOff ==
    ASSUME TypeOK, NEW p \in Pollers, NEW to, Move(p, to), UNCHANGED aborted,
           StateOf(p) = "off", to \in {"waiting", "released", "timeout"}
    PROVE  UNCHANGED Exclusive!vars
BY MappedMove DEF Exclusive!vars

\* An entry is created only when no live poller is at work.
LEMMA CreationBegins ==
    ASSUME LeaseInv, NEW p \in Pollers, StateOf(p) = "off", CreateLease(p),
           registry = None \/ registry \in aborted, UNCHANGED aborted
    PROVE  Exclusive!Begin(p)
<1>1. Exclusive!Working \subseteq aborted
    <2>1. \A q \in Pollers : StateOf(q) = "working" => pc[q] = "polling"
        BY MappedStates DEF LeaseInv
    <2>2. \A q \in Pollers : pc[q] = "polling" => q \in aborted
        BY LeaseAssumption DEF LeaseInv, LiveHoldsLease, Live, CreateLease, TypeOK
    <2> QED BY <2>1, <2>2 DEF Exclusive!Working
<1>2. [q \in Pollers |-> StateOf(q)]' = [[q \in Pollers |-> StateOf(q)] EXCEPT ![p] = "working"]
    BY MappedMove DEF CreateLease, LeaseInv
<1> QED BY <1>1, <1>2 DEF Exclusive!Begin, Exclusive!Turn

\* A refusal has its reason.
LEMMA RefusalRefuses ==
    ASSUME LeaseInv, NEW p \in Pollers, StateOf(p) = "off", Move(p, "refused"),
           p \in aborted \/ (registry # None /\ registry \notin aborted), UNCHANGED aborted
    PROVE  Exclusive!Refuse(p)
<1>1. p \in aborted \/ ~(Exclusive!Working \subseteq aborted)
    BY MappedStates DEF LeaseInv, TypeOK, Exclusive!Working, LeaseIsHeld
<1>2. [q \in Pollers |-> StateOf(q)]' = [[q \in Pollers |-> StateOf(q)] EXCEPT ![p] = "refused"]
    BY MappedMove DEF LeaseInv
<1> QED BY <1>1, <1>2 DEF Exclusive!Refuse, Exclusive!Turn

\* One turn of the acquisition loop.
LEMMA TryMaps ==
    ASSUME LeaseInv, NEW p \in Pollers, StateOf(p) = "off", TryAcquire(p), UNCHANGED aborted
    PROVE  [Exclusive!Next]_Exclusive!vars
<1>1. CASE registry = None /\ CreateLease(p)
    BY <1>1, CreationBegins DEF Exclusive!Next
<1>2. CASE registry # None /\ registry \notin aborted /\ Move(p, "refused")
    BY <1>2, RefusalRefuses DEF Exclusive!Next
<1>3. CASE registry \in aborted /\ Move(p, IF p \in aborted THEN "refused" ELSE "waiting")
    <2>1. CASE p \in aborted
        BY <1>3, <2>1, RefusalRefuses DEF Exclusive!Next
    <2>2. CASE p \notin aborted
        BY <1>3, <2>2, WaitingIsOff DEF LeaseInv
    <2> QED BY <2>1, <2>2
<1> QED BY <1>1, <1>2, <1>3 DEF TryAcquire

\* Every step maps to a step of the exclusive right, or to none.
LEMMA StepMaps == LeaseInv /\ [Next]_vars => [Exclusive!Next]_Exclusive!vars
<1> SUFFICES ASSUME LeaseInv, [Next]_vars PROVE [Exclusive!Next]_Exclusive!vars
    OBVIOUS
<1>1. CASE \E p \in Pollers : Acquire(p)
    BY <1>1, TryMaps, MappedStates DEF LeaseInv, Acquire
<1>2. CASE \E p \in Pollers : WaitReleased(p) \/ WaitTimesOut(p)
    BY <1>2, WaitingIsOff, MappedStates DEF LeaseInv, WaitReleased, WaitTimesOut
<1>3. CASE \E p \in Pollers : WaitAborted(p)
    BY <1>3, RefusalRefuses, MappedStates DEF LeaseInv, WaitAborted, Exclusive!Next
<1>4. CASE \E p \in Pollers : ResumeAcquire(p)
    BY <1>4, TryMaps, CreationBegins, MappedStates
       DEF LeaseInv, ResumeAcquire, WaitsForStopping, Exclusive!Next
<1>5. CASE \E p \in Pollers : Abort(p)
    BY <1>5 DEF Abort, Exclusive!Next, Exclusive!Tell, StateOf
<1>6. CASE \E p \in Pollers : EndPolling(p)
    BY <1>6, MappedMove, MappedStates
       DEF LeaseInv, EndPolling, Exclusive!Next, Exclusive!End, Exclusive!Turn
<1>7. CASE \E s \in Stops : \/ \E p \in Pollers : StopAccount(s, Account[p])
                            \/ StopWaited(s) \/ StopResumes(s)
    BY <1>7 DEF StopAccount, StopWaited, StopResumes, Exclusive!vars, StateOf
<1>8. CASE UNCHANGED vars
    BY <1>8 DEF vars, Exclusive!vars, StateOf
<1> QED BY <1>1, <1>2, <1>3, <1>4, <1>5, <1>6, <1>7, <1>8 DEF Next

\* The registry with its waits, timeouts, late releases and stopAccount calls implements
\* an exclusive right to poll: who begins, who is refused and why.
THEOREM LeaseIsExclusive == Spec => ImplementsExclusivePolling
<1>1. Init => Exclusive!Init
    BY DEF Init, Exclusive!Init, StateOf
<1>2. LeaseInv /\ [Next]_vars => [Exclusive!Next]_Exclusive!vars
    BY StepMaps
<1> QED BY LeaseInvariance, <1>1, <1>2, PTL DEF Spec, Exclusive!Spec, ImplementsExclusivePolling
=============================================================================
