----------------------------- MODULE PollingLease -----------------------------
(***************************************************************************)
(* The polling lease of one Telegram bot token (polling-lease.ts).          *)
(*                                                                         *)
(* Only one getUpdates poller may work for a token.  A poller (one run of   *)
(* monitorTelegramProvider) registers an entry; a newcomer is refused while *)
(* the registered poller is live, and waits for it, for a bounded time,     *)
(* when that poller has been told to stop.  A poller that does not stop in  *)
(* time is replaced and may still be polling.  stopAccount drops the entry  *)
(* of an account's stopping poller after the same wait.                     *)
(*                                                                         *)
(* Steps run from await to await.  A wait that is over is resumed in a      *)
(* later microtask: other steps may come between.  Leases of different      *)
(* tokens share nothing.                                                    *)
(***************************************************************************)
EXTENDS Naturals

CONSTANTS
    Pollers, \* calls of acquireTelegramPollingLease, by poller
    Stops,   \* calls of releaseStoppedTelegramPollingLease
    Account, \* the account each poller works for
    None     \* no entry

ASSUME LeaseAssumption ==
    /\ None \notin Pollers
    /\ Pollers \cap Stops = {}
    /\ DOMAIN Account = Pollers

VARIABLES
    registry, \* the poller whose entry is registered for the token
    pc,       \* where each poller is
    stopPc,   \* where each stopAccount call is
    existing, \* the entry a waiting call saw
    aborted,  \* pollers whose abort signal has fired
    done      \* entries whose "done" promise is resolved

vars == <<registry, pc, stopPc, existing, aborted, done>>

Callers == Pollers \cup Stops

Init ==
    /\ registry = None
    /\ pc = [p \in Pollers |-> "idle"]
    /\ stopPc = [s \in Stops |-> "idle"]
    /\ existing = [c \in Callers |-> None]
    /\ aborted = {}
    /\ done = {}

-----------------------------------------------------------------------------
(* Acquiring *)

Move(p, to) == pc' = [pc EXCEPT ![p] = to]

\* createLease: the new entry replaces whatever is registered.
CreateLease(p) ==
    /\ registry' = p
    /\ Move(p, "polling")
    /\ UNCHANGED existing

\* One turn of the loop up to its await: take a free token, refuse a live poller's,
\* wait for a stopping one's.
TryAcquire(p) ==
    \/ registry = None /\ CreateLease(p)
    \/ /\ registry # None /\ registry \notin aborted
       /\ Move(p, "refused")
       /\ UNCHANGED <<registry, existing>>
    \/ /\ registry # None /\ registry \in aborted
       /\ existing' = [existing EXCEPT ![p] = registry]
       /\ Move(p, IF p \in aborted THEN "refused" ELSE "waiting")
       /\ UNCHANGED registry

Acquire(p) ==
    /\ pc[p] = "idle"
    /\ TryAcquire(p)
    /\ UNCHANGED <<stopPc, aborted, done>>

\* The race between the release and the timer is decided.
WaitReleased(p) ==
    /\ pc[p] = "waiting"
    /\ existing[p] \in done
    /\ Move(p, "released")
    /\ UNCHANGED <<registry, stopPc, existing, aborted, done>>

\* Mutant: only a poller of the same account is given up on.
WaitTimesOutOnOwnAccount(p) ==
    /\ pc[p] = "waiting"
    /\ p \notin aborted
    /\ Account[existing[p]] = Account[p]
    /\ Move(p, "timeout")
    /\ UNCHANGED <<registry, stopPc, existing, aborted, done>>

WaitTimesOut(p) ==
    /\ pc[p] = "waiting"
    /\ p \notin aborted
    /\ Move(p, "timeout")
    /\ UNCHANGED <<registry, stopPc, existing, aborted, done>>

\* The caller's own signal ends the wait: the acquisition throws.
WaitAborted(p) ==
    /\ pc[p] = "waiting"
    /\ p \in aborted
    /\ Move(p, "refused")
    /\ UNCHANGED <<registry, stopPc, existing, aborted, done>>

\* Mutant: the registry is not looked at again after the wait.
ResumeAcquireBlindly(p) ==
    /\ \/ pc[p] = "timeout" /\ CreateLease(p)
       \/ pc[p] = "released" /\ TryAcquire(p)
    /\ UNCHANGED <<stopPc, aborted, done>>

\* The wait is over: replace the poller waited for if it is still the registered one,
\* else start again.
ResumeAcquire(p) ==
    /\ \/ pc[p] = "timeout" /\ registry = existing[p] /\ CreateLease(p)
       \/ pc[p] = "timeout" /\ registry # existing[p] /\ TryAcquire(p)
       \/ pc[p] = "released" /\ TryAcquire(p)
    /\ UNCHANGED <<stopPc, aborted, done>>

-----------------------------------------------------------------------------
(* Ending *)

\* The poller is told to stop; it may take any time to do so.
Abort(p) ==
    /\ p \notin aborted
    /\ aborted' = aborted \cup {p}
    /\ UNCHANGED <<registry, pc, stopPc, existing, done>>

\* The polling session returns or throws, and the lease is released.
EndPolling(p) ==
    /\ pc[p] = "polling"
    /\ Move(p, "ended")
    /\ registry' = IF registry = p THEN None ELSE registry
    /\ done' = done \cup {p}
    /\ UNCHANGED <<stopPc, existing, aborted>>

\* stopAccount waits for the account's registered poller if it is stopping.
StopAccount(s, account) ==
    /\ stopPc[s] = "idle"
    /\ registry # None /\ Account[registry] = account /\ registry \in aborted
    /\ stopPc' = [stopPc EXCEPT ![s] = "waiting"]
    /\ existing' = [existing EXCEPT ![s] = registry]
    /\ UNCHANGED <<registry, pc, aborted, done>>

StopWaited(s) ==
    /\ stopPc[s] = "waiting"
    /\ \/ existing[s] \in done /\ stopPc' = [stopPc EXCEPT ![s] = "released"]
       \/ stopPc' = [stopPc EXCEPT ![s] = "timeout"]
    /\ UNCHANGED <<registry, pc, existing, aborted, done>>

\* Mutant: whichever entry is registered after the wait is dropped.
StopResumesBlindly(s) ==
    /\ stopPc[s] \in {"released", "timeout"}
    /\ stopPc' = [stopPc EXCEPT ![s] = "idle"]
    /\ IF stopPc[s] = "timeout"
       THEN registry' = None /\ done' = done \cup {existing[s]}
       ELSE UNCHANGED <<registry, done>>
    /\ UNCHANGED <<pc, existing, aborted>>

\* The entry is dropped, and its waiters released, if it is still registered.
StopResumes(s) ==
    /\ stopPc[s] \in {"released", "timeout"}
    /\ stopPc' = [stopPc EXCEPT ![s] = "idle"]
    /\ IF stopPc[s] = "timeout" /\ registry = existing[s]
       THEN registry' = None /\ done' = done \cup {existing[s]}
       ELSE UNCHANGED <<registry, done>>
    /\ UNCHANGED <<pc, existing, aborted>>

Next ==
    \/ \E p \in Pollers :
          \/ Acquire(p) \/ WaitReleased(p) \/ WaitTimesOut(p) \/ WaitAborted(p)
          \/ ResumeAcquire(p) \/ Abort(p) \/ EndPolling(p)
    \/ \E s \in Stops :
          \/ \E p \in Pollers : StopAccount(s, Account[p])
          \/ StopWaited(s) \/ StopResumes(s)

Spec == Init /\ [][Next]_vars

\* Timers fire and microtasks run; nothing makes a poller stop.
FairSpec ==
    /\ Spec
    /\ \A p \in Pollers : /\ WF_vars(WaitTimesOut(p) \/ WaitAborted(p))
                           /\ WF_vars(ResumeAcquire(p))

-----------------------------------------------------------------------------
(* Properties *)

TypeOK ==
    /\ registry \in Pollers \cup {None}
    /\ pc \in [Pollers -> {"idle", "waiting", "released", "timeout", "polling",
                           "refused", "ended"}]
    /\ stopPc \in [Stops -> {"idle", "waiting", "released", "timeout"}]
    /\ existing \in [Callers -> Pollers \cup {None}]
    /\ aborted \subseteq Pollers
    /\ done \subseteq Pollers

Live(p) == pc[p] = "polling" /\ p \notin aborted

\* The registered entry is that of a poller still at work: an entry nobody will
\* release would keep the token from every later poller.
LeaseIsHeld == registry # None => pc[registry] = "polling"

\* A poller that has not been told to stop holds the lease: neither a replaced
\* poller's late release nor a stopAccount that waited for another entry drops it.
LiveHoldsLease == \A p \in Pollers : Live(p) => registry = p

\* The lease is where it belongs, whatever releases, takeovers and stopAccount interleave.
LeaseMatchesPollers == LeaseIsHeld /\ LiveHoldsLease

\* Two pollers work for one token only while all but one have been told to stop
\* ("refusing duplicate poller").
OneLivePoller == \A p, q \in Pollers : Live(p) /\ Live(q) => p = q

\* The lease is an exclusive right to poll: a start goes through only when every poller
\* at work was told to stop, and is refused only because of a live poller or at its own
\* abort, however releases, timeouts and stopAccount calls interleave
\* (acquireTelegramPollingLease, releaseStoppedTelegramPollingLease).
StateOf(p) ==
    CASE pc[p] = "polling" -> "working"
      [] pc[p] = "ended" -> "over"
      [] pc[p] = "refused" -> "refused"
      [] OTHER -> "off"

Exclusive == INSTANCE ExclusivePolling
                WITH state <- [p \in Pollers |-> StateOf(p)], told <- aborted

ImplementsExclusivePolling == Exclusive!Spec

\* A start that waits for a stopping poller is decided, though that poller may never
\* stop.
StartIsDecided ==
    \A p \in Pollers : (pc[p] = "waiting") ~> (pc[p] \in {"polling", "refused", "ended"})
=============================================================================
