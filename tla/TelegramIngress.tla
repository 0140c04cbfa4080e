--------------------------- MODULE TelegramIngress ---------------------------
(***************************************************************************)
(* Isolated Telegram ingress: a worker thread long-polls getUpdates and     *)
(* hands every update to the main thread, which writes it to a durable      *)
(* spool; a drain claims spooled updates lane by lane and runs the bot on   *)
(* them; a handler deletes, requeues or dead-letters its update.            *)
(*                                                                         *)
(* Polling sessions follow each other in one process (stall, worker exit,   *)
(* handler timeout); handlers and a drain of the previous session may still *)
(* run beside the new one.  A session whose worker failed for good throws,  *)
(* and no other follows it in this process.  A crash leaves the spool and   *)
(* the stored offset.  Each step runs from one await of the code to the     *)
(* next.  The spool itself is a service behind the plugin SDK; it is        *)
(* modelled from how telegram-ingress-spool.ts uses it: mutations that      *)
(* carry a claim token act only on that claim.                              *)
(***************************************************************************)
EXTENDS UpdateTrackerOps

CONSTANTS
    Lane,             \* the sequential key of every update
    MaxSessions,      \* bound: polling sessions, over all processes
    MaxCrashes,       \* bound: crashes of the process
    MaxHandlerErrors, \* bound: handler runs that throw
    MaxPollErrors,    \* bound: getUpdates requests refused for good
    MaxSpoolErrors,   \* bound: spool operations that throw
    MaxTimeouts       \* bound: handlers that run into the handler timeout

ASSUME IngressAssumption ==
    /\ DOMAIN Lane = UpdateIds
    /\ MaxSessions \in Nat \ {0}
    /\ {MaxCrashes, MaxHandlerErrors, MaxPollErrors, MaxSpoolErrors, MaxTimeouts} \subseteq Nat

Lanes == {Lane[u] : u \in UpdateIds}
Sessions == 1..MaxSessions
NoKey == [update |-> NoId, token |-> 0]
NoHandler == [update |-> NoId, token |-> 0, timedOut |-> FALSE]

VARIABLES
    serverOffset, \* Telegram has forgotten every update below this id
    worker,       \* the polling thread: state, last, batch, waiting
    orphanWrites, \* spool writes begun for the worker of an earlier session
    spool,        \* the record of each update: status and claim token
    session,      \* the session that polls
    drain,        \* the drain of each session
    handlers,     \* handler runs that have not settled
    active,       \* activeSpooledUpdateHandlersByLane
    tracker,      \* the update tracker of each session's bot
    lastUpdateId, \* monitor.ts
    durable,      \* the update offset store
    handled,      \* history: updates the bot completed, by session
    dropped,      \* history: updates removed from the spool unseen by any handler
    strayLanes,   \* history: lanes that a drain of a replaced session worked on
    budget        \* what is left of the bounds

vars == <<serverOffset, worker, orphanWrites, spool, session, drain, handlers, active,
          tracker, lastUpdateId, durable, handled, dropped, strayLanes, budget>>

spoolVars == <<serverOffset, worker, orphanWrites>>
sessionVars == <<session, lastUpdateId, durable>>

IdleDrain == [pc |-> "idle", snapshot |-> {}, claimedLanes |-> {}, blocked |-> {},
              list |-> {}, claiming |-> NoKey]

NewWorker(last) == [state |-> "polling", last |-> last, batch |-> {}, waiting |-> NoId]

Init ==
    /\ serverOffset = 0
    /\ worker = NewWorker(NoId)
    /\ orphanWrites = {}
    /\ spool = [u \in UpdateIds |-> [status |-> "none", token |-> 0]]
    /\ session = 1
    /\ drain = [s \in Sessions |-> IdleDrain]
    /\ handlers = {}
    /\ active = [l \in Lanes |-> NoHandler]
    /\ tracker = [s \in Sessions |-> NewTracker(NoId, NoId)]
    /\ lastUpdateId = NoId
    /\ durable = NoId
    /\ handled = [s \in Sessions |-> {}]
    /\ dropped = {}
    /\ strayLanes = {}
    /\ budget = [crash |-> MaxCrashes, error |-> MaxHandlerErrors,
                 poll |-> MaxPollErrors, spool |-> MaxSpoolErrors, timeout |-> MaxTimeouts]

Lowest(S) == CHOOSE u \in S : \A v \in S : u <= v
Spend(kind) == budget[kind] > 0 /\ budget' = [budget EXCEPT ![kind] = @ - 1]
\* Mutant: spool mutations name the update only.
ClaimedById(key) == spool[key.update].status # "none"

Claimed(key) ==
    spool[key.update].status = "claimed" /\ spool[key.update].token = key.token

\* Mutant: a session knows the lanes of its own handlers only.
ActiveLanesOfSession ==
    {l \in Lanes : \E h \in handlers : h.session = session /\ Lane[h.update] = l}

ActiveLanes == {l \in Lanes : active[l] # NoHandler}
FirstStep == [IdleDrain EXCEPT !.pc = "recover", !.snapshot = ActiveLanes]
SetDrain(s, d) == drain' = [drain EXCEPT ![s] = d]
At(s, pc) == drain[s].pc = pc
SetStatus(u, status) == spool' = [spool EXCEPT ![u].status = status]

-----------------------------------------------------------------------------
(* The polling thread and the spool writes *)

\* The worker sends the first update of a batch and waits for its spool-ack.
SendNext(last, batch) ==
    [state |-> "polling", last |-> last,
     batch |-> {u \in batch : \E v \in batch : v < u},
     waiting |-> IF batch = {} THEN NoId ELSE Lowest(batch)]

Polls == worker.state = "polling" /\ worker.waiting = NoId

\* The worker has thrown for good: the session clears its timers, drains a last time
\* unless a drain is under way or it waits to be restarted, and throws in its turn.
EndSession ==
    /\ worker' = [NewWorker(NoId) EXCEPT !.state = "ended"]
    /\ IF At(session, "idle") THEN SetDrain(session, FirstStep) ELSE UNCHANGED drain

\* getUpdates: the request's offset makes Telegram forget what is below it; the
\* answer is a batch of the oldest updates left, as many as have arrived.
Poll ==
    /\ Polls
    /\ serverOffset' = Later(worker.last + 1, serverOffset)
    /\ \E newest \in {NoId} \cup UpdateIds :
          worker' = SendNext(worker.last, (serverOffset'..newest) \cap UpdateIds)
    /\ UNCHANGED <<orphanWrites, spool, session, drain, handlers, active, tracker,
                   lastUpdateId, durable, handled, dropped, strayLanes, budget>>

\* The request is refused with an error that is not the network's: the worker rethrows
\* it and exits.
PollFails ==
    /\ Polls
    /\ Spend("poll")
    /\ EndSession
    /\ UNCHANGED <<serverOffset, orphanWrites, spool, session, handlers, active, tracker,
                   lastUpdateId, durable, handled, dropped, strayLanes>>

\* Enqueueing an id the spool holds changes nothing.
Enqueue(u) ==
    spool' = IF spool[u].status = "none" THEN [spool EXCEPT ![u].status = "pending"] ELSE spool

\* The write commits; the ack advances the worker, which sends its next update.
SpoolUpdate ==
    /\ worker.waiting # NoId
    /\ Enqueue(worker.waiting)
    /\ worker' = SendNext(Later(worker.waiting, worker.last), worker.batch)
    /\ UNCHANGED <<serverOffset, orphanWrites, session, drain, handlers, active, tracker,
                   lastUpdateId, durable, handled, dropped, strayLanes, budget>>

\* The write throws, and the worker gives the batch up.  It polls again when the error
\* reads like one of the network, or when it has been told to stop; else it rethrows.
SpoolFails ==
    /\ worker.waiting # NoId
    /\ Spend("spool")
    /\ \/ worker' = NewWorker(worker.last) /\ UNCHANGED drain
       \/ ~At(session, "restart") /\ EndSession
    /\ UNCHANGED <<serverOffset, orphanWrites, spool, session, handlers, active, tracker,
                   lastUpdateId, durable, handled, dropped, strayLanes>>

SpoolOrphan(u) ==
    /\ u \in orphanWrites
    /\ orphanWrites' = orphanWrites \ {u}
    /\ Enqueue(u)
    /\ UNCHANGED <<serverOffset, worker, session, drain, handlers, active, tracker,
                   lastUpdateId, durable, handled, dropped, strayLanes, budget>>

-----------------------------------------------------------------------------
(* The drain of a session, from await to await *)

\* The drain of session s works on these lanes; strayLanes notes it when s is replaced.
NoteLanes(s, lanes) ==
    strayLanes' = IF s = session THEN strayLanes ELSE strayLanes \cup lanes

\* The interval timer of the session that polls fires and no drain is under way.
StartDrain ==
    /\ worker.state # "ended"
    /\ At(session, "idle")
    /\ SetDrain(session, FirstStep)
    /\ UNCHANGED <<spoolVars, spool, sessionVars, handlers, active, tracker, handled, dropped, strayLanes, budget>>

\* Mutant: a live process never recovers its own claims.
RecoverClaimsOfOthers(s) ==
    /\ At(s, "recover")
    /\ SetDrain(s, [drain[s] EXCEPT !.pc = "claims"])
    /\ UNCHANGED <<spoolVars, spool, sessionVars, handlers, active, tracker, handled, dropped, strayLanes, budget>>

\* Claims on lanes without a handler are requeued, whoever of this process or of
\* a dead one holds them.
RecoverClaims(s) ==
    LET stale == {u \in UpdateIds : spool[u].status = "claimed" /\ Lane[u] \notin drain[s].snapshot}
    IN  /\ At(s, "recover")
        /\ spool' = [u \in UpdateIds |->
                        IF u \in stale THEN [spool[u] EXCEPT !.status = "pending"] ELSE spool[u]]
        /\ SetDrain(s, [drain[s] EXCEPT !.pc = "claims", !.snapshot = {}])
        /\ NoteLanes(s, {Lane[u] : u \in stale})
        /\ UNCHANGED <<spoolVars, sessionVars, handlers, active, tracker, handled, dropped, budget>>

\* Mutant: lanes with a claimed update are not held.
ListClaimsIgnored(s) ==
    /\ At(s, "claims")
    /\ SetDrain(s, [drain[s] EXCEPT !.pc = "list"])
    /\ UNCHANGED <<spoolVars, spool, sessionVars, handlers, active, tracker, handled, dropped, strayLanes, budget>>

ListClaims(s) ==
    /\ At(s, "claims")
    /\ SetDrain(s, [drain[s] EXCEPT
           !.pc = "list",
           !.claimedLanes = {Lane[u] : u \in {v \in UpdateIds : spool[v].status = "claimed"}}])
    /\ UNCHANGED <<spoolVars, spool, sessionVars, handlers, active, tracker, handled, dropped, strayLanes, budget>>

\* The loop runs over the listed updates, in the order of their ids, to the next one
\* it may claim; with none left the drain looks for a handler that timed out.
Scan(d, busy) ==
    LET claimable == {u \in d.list : Lane[u] \notin busy \cup d.claimedLanes}
        next == IF claimable = {} THEN NoId ELSE Lowest(claimable)
        passed == {u \in d.list : next = NoId \/ u < next}
    IN  [d EXCEPT !.pc = IF next = NoId THEN "timeouts" ELSE "claim",
                  !.claimedLanes = IF next = NoId THEN {} ELSE @,
                  !.blocked = @ \cup ({Lane[u] : u \in passed} \cap busy),
                  !.list = @ \ (passed \cup {next}),
                  !.claiming = [update |-> next, token |-> 0]]

ListPending(s) ==
    /\ At(s, "list")
    /\ SetDrain(s, Scan([drain[s] EXCEPT
                            !.list = {u \in UpdateIds : spool[u].status = "pending"}],
                        ActiveLanes))
    /\ UNCHANGED <<spoolVars, spool, sessionVars, handlers, active, tracker, handled, dropped, strayLanes, budget>>

\* Mutant: a claim takes the update off the spool.
ClaimUpdateDequeues(s) ==
    LET u == drain[s].claiming.update
        token == spool[u].token + 1
    IN  /\ At(s, "claim")
        /\ spool[u].status = "pending"
        /\ spool' = [spool EXCEPT ![u] = [status |-> "none", token |-> token]]
        /\ SetDrain(s, [drain[s] EXCEPT !.pc = "start", !.claiming.token = token])
        /\ NoteLanes(s, {Lane[u]})
        /\ UNCHANGED <<spoolVars, sessionVars, handlers, active, tracker, handled, dropped, budget>>

ClaimUpdate(s) ==
    LET u == drain[s].claiming.update
        token == spool[u].token + 1
    IN  /\ At(s, "claim")
        /\ spool[u].status = "pending"
        /\ spool' = [spool EXCEPT ![u] = [status |-> "claimed", token |-> token]]
        /\ SetDrain(s, [drain[s] EXCEPT !.pc = "start", !.claiming.token = token])
        /\ NoteLanes(s, {Lane[u]})
        /\ UNCHANGED <<spoolVars, sessionVars, handlers, active, tracker, handled, dropped, budget>>

\* The claim finds no pending record, or throws: the lane is left for a later drain.
ClaimMisses(s) ==
    LET u == drain[s].claiming.update
    IN  /\ At(s, "claim")
        /\ \/ spool[u].status # "pending" /\ UNCHANGED budget
           \/ Spend("spool")
        /\ SetDrain(s, Scan([drain[s] EXCEPT !.claimedLanes = @ \cup {Lane[u]}], ActiveLanes))
        /\ UNCHANGED <<spoolVars, spool, sessionVars, handlers, active, tracker, handled, dropped, strayLanes>>

\* Recovering or listing throws: this drain is over, a later one tries again.
DrainFails(s) ==
    /\ drain[s].pc \in {"recover", "claims", "list"}
    /\ Spend("spool")
    /\ SetDrain(s, IdleDrain)
    /\ UNCHANGED <<spoolVars, spool, sessionVars, handlers, active, tracker, handled, dropped, strayLanes>>

EverHandled == UNION {handled[s] : s \in Sessions}

\* Updates some handler has completed or is working on.
Reached == EverHandled \cup {h.update : h \in {g \in handlers : g.stage = "handling"}}

\* The claim's continuation calls bot.handleUpdate, whose first middleware asks the
\* tracker at once; a rejected update counts as handled though no handler saw it.
StartHandler(s) ==
    LET u == drain[s].claiming.update
        accepts == ~Rejects(tracker[s], u)
    IN  /\ At(s, "start")
        /\ handlers' = handlers \cup {[update |-> u, token |-> drain[s].claiming.token,
                                       session |-> s,
                                       stage |-> IF accepts THEN "handling" ELSE "deleting"]}
        /\ active' = [active EXCEPT ![Lane[u]] =
                        [update |-> u, token |-> drain[s].claiming.token, timedOut |-> FALSE]]
        /\ tracker' = IF accepts THEN [tracker EXCEPT ![s] = Begin(@, u)] ELSE tracker
        /\ dropped' = IF accepts \/ u \in Reached THEN dropped ELSE dropped \cup {u}
        /\ SetDrain(s, Scan([drain[s] EXCEPT !.claimedLanes = @ \cup {Lane[u]}],
                            ActiveLanes \cup {Lane[u]}))
        /\ UNCHANGED <<spoolVars, spool, sessionVars, handled, strayLanes, budget>>

\* A blocked lane's handler has run for the handler timeout: it is marked, and the
\* drain waits for its claim to be dead-lettered.
DetectTimeout(s) ==
    \E l \in drain[s].blocked :
        /\ At(s, "timeouts")
        /\ active[l] # NoHandler
        /\ ~active[l].timedOut
        /\ Spend("timeout")
        /\ active' = [active EXCEPT ![l].timedOut = TRUE]
        /\ SetDrain(s, [IdleDrain EXCEPT !.pc = "fail", !.claiming = [update |-> active[l].update,
                                                              token |-> active[l].token]])
        /\ UNCHANGED <<spoolVars, spool, sessionVars, handlers, tracker, handled, dropped, strayLanes>>

NoTimeout(s) ==
    /\ At(s, "timeouts")
    /\ SetDrain(s, IdleDrain)
    /\ UNCHANGED <<spoolVars, spool, sessionVars, handlers, active, tracker, handled, dropped, strayLanes, budget>>

\* The claim is dead-lettered; its reply work is aborted and given a grace period.
DeadLetterTimedOut(s) ==
    LET key == drain[s].claiming
    IN  /\ At(s, "fail")
        /\ \/ Claimed(key) /\ SetStatus(key.update, "failed")
              /\ SetDrain(s, [drain[s] EXCEPT !.pc = "grace"])
              /\ UNCHANGED budget
           \/ ~Claimed(key) /\ SetDrain(s, IdleDrain) /\ UNCHANGED <<spool, budget>>
           \/ Spend("spool") /\ SetDrain(s, IdleDrain) /\ UNCHANGED spool
        /\ UNCHANGED <<spoolVars, sessionVars, handlers, active, tracker, handled, dropped, strayLanes>>

Settled(key) == ~\E h \in handlers : h.update = key.update /\ h.token = key.token

\* The handler stopped: this session stops polling and drains no more.
GraceMet(s) ==
    /\ At(s, "grace")
    /\ Settled(drain[s].claiming)
    /\ SetDrain(s, [IdleDrain EXCEPT !.pc = "restart"])
    /\ UNCHANGED <<spoolVars, spool, sessionVars, handlers, active, tracker, handled, dropped, strayLanes, budget>>

\* It did not: its lane stays guarded until it does.
GraceElapsed(s) ==
    /\ At(s, "grace")
    /\ ~Settled(drain[s].claiming)
    /\ SetDrain(s, IdleDrain)
    /\ UNCHANGED <<spoolVars, spool, sessionVars, handlers, active, tracker, handled, dropped, strayLanes, budget>>

-----------------------------------------------------------------------------
(* Handler runs *)

Stage(h, stage) == handlers' = (handlers \ {h}) \cup {[h EXCEPT !.stage = stage]}

\* The middleware finishes the update; its ack asks to persist the safe id, and
\* persistUpdateId notes the offset it is about to write.
Completes(h) ==
    /\ h.stage = "handling"
    /\ Stage(h, "deleting")
    /\ tracker' = [tracker EXCEPT ![h.session] = PersistAfterAck(Complete(@, h.update))]
    /\ lastUpdateId' = Later(tracker'[h.session].writing, lastUpdateId)
    /\ handled' = [handled EXCEPT ![h.session] = @ \cup {h.update}]
    /\ UNCHANGED <<spoolVars, spool, session, drain, active, durable, dropped, strayLanes, budget>>

\* The handler throws, with an error that may be retried or not.
Throws(h) ==
    /\ h.stage = "handling"
    /\ Spend("error")
    /\ \E next \in {"releasing", "failing"} : Stage(h, next)
    /\ tracker' = [tracker EXCEPT ![h.session] = Fail(@, h.update)]
    /\ UNCHANGED <<spoolVars, spool, sessionVars, drain, active, handled, dropped, strayLanes>>

\* The claim's last operation settles the run; only the run that is registered on
\* its lane frees the lane.
Settles(h) ==
    /\ handlers' = handlers \ {h}
    /\ active' = [active EXCEPT ![Lane[h.update]] =
                     IF @.update = h.update /\ @.token = h.token THEN NoHandler ELSE @]

\* Delete, release or fail the claim: nothing if the claim is no longer this run's.
ClaimOutcome(h) ==
    CASE h.stage = "deleting" -> "none" [] h.stage = "releasing" -> "pending" [] OTHER -> "failed"

FinishClaim(h) ==
    /\ h.stage # "handling"
    /\ Settles(h)
    /\ IF Claimed(h) THEN SetStatus(h.update, ClaimOutcome(h)) ELSE UNCHANGED spool
    /\ UNCHANGED <<spoolVars, sessionVars, drain, tracker, handled, dropped, strayLanes, budget>>

\* The operation throws: the record stays claimed, except that a failed dead-letter
\* falls back to a release.
FinishClaimFails(h) ==
    /\ h.stage # "handling"
    /\ Spend("spool")
    /\ IF h.stage = "failing" THEN Stage(h, "releasing") /\ UNCHANGED active ELSE Settles(h)
    /\ UNCHANGED <<spoolVars, spool, sessionVars, drain, tracker, handled, dropped, strayLanes>>

-----------------------------------------------------------------------------
(* The offset store, and sessions *)

WriteOffset(s) ==
    /\ tracker[s].writing # NoId
    /\ durable' = tracker[s].writing
    /\ tracker' = [tracker EXCEPT ![s] = WriteSettled(@, TRUE)]
    /\ lastUpdateId' = Later(tracker'[s].writing, lastUpdateId)
    /\ UNCHANGED <<spoolVars, spool, session, drain, handlers, active, handled, dropped, strayLanes, budget>>

BeginSession(offset, trackers) ==
    /\ session < MaxSessions
    /\ session' = session + 1
    /\ tracker' = [trackers EXCEPT ![session + 1] = NewTracker(NoId, offset)]
    /\ worker' = NewWorker(offset)
    /\ UNCHANGED <<serverOffset, spool, durable, handled, dropped>>

\* The worker of this session has stopped for a stall, an error of the network or a
\* timed-out handler, and the next session begins.  Handlers that outlive their grace run
\* on, and so does a drain: the drainOnce that the stop awaits returns at once when a
\* drain is under way.
RestartSession ==
    /\ worker.state # "ended"
    /\ BeginSession(lastUpdateId, tracker)
    /\ orphanWrites' = IF worker.waiting = NoId THEN orphanWrites
                       ELSE orphanWrites \cup {worker.waiting}
    /\ strayLanes' = IF At(session, "start")
                     THEN strayLanes \cup {Lane[drain[session].claiming.update]} ELSE strayLanes
    /\ UNCHANGED <<drain, handlers, active, lastUpdateId, budget>>

\* The process dies and is started again.
Crash ==
    /\ Spend("crash")
    /\ BeginSession(durable, [s \in Sessions |-> NewTracker(NoId, NoId)])
    /\ lastUpdateId' = durable
    /\ orphanWrites' = {}
    /\ drain' = [s \in Sessions |-> IdleDrain]
    /\ handlers' = {}
    /\ active' = [l \in Lanes |-> NoHandler]
    /\ UNCHANGED strayLanes

DrainStep(s) ==
    \/ RecoverClaims(s) \/ ListClaims(s) \/ ListPending(s)
    \/ ClaimUpdate(s) \/ ClaimMisses(s) \/ StartHandler(s)
    \/ DetectTimeout(s) \/ NoTimeout(s) \/ DeadLetterTimedOut(s)
    \/ GraceMet(s) \/ GraceElapsed(s) \/ DrainFails(s)

Next ==
    \/ Poll \/ PollFails \/ SpoolUpdate \/ SpoolFails
    \/ \E u \in UpdateIds : SpoolOrphan(u)
    \/ StartDrain
    \/ \E s \in Sessions : DrainStep(s) \/ WriteOffset(s)
    \/ \E h \in handlers : Completes(h) \/ Throws(h) \/ FinishClaim(h) \/ FinishClaimFails(h)
    \/ RestartSession
    \/ Crash

Spec == Init /\ [][Next]_vars

\* The drain timer keeps firing, awaited spool operations settle, a session that asked
\* for a restart gets one, and the bot's handlers end.
Fairness ==
    /\ WF_vars(StartDrain)
    /\ \A s \in Sessions : WF_vars(DrainStep(s))
    /\ \A u \in UpdateIds :
          WF_vars(\E h \in handlers : h.update = u /\ (Completes(h) \/ FinishClaim(h)))
    /\ WF_vars(At(session, "restart") /\ RestartSession)

FairSpec == Spec /\ Fairness

-----------------------------------------------------------------------------
(* Properties *)

\* Telegram is told to forget only what the spool took over, by this worker or by the
\* offset a new session or process polls from: every update below them is still spooled,
\* was handled, or was dropped by the watermark (worker offset after spool-ack;
\* persistUpdateId after finishUpdate).  Not promised of a lane that the drain of a
\* replaced session worked on, where two runs may hold one update.
ForgottenIsKept ==
    \A u \in UpdateIds :
        u < serverOffset \/ u <= Later(lastUpdateId, durable)
            => \/ spool[u].status # "none"
               \/ u \in Reached \cup dropped
               \/ Lane[u] \in strayLanes

\* Lanes are exclusive and none leaks: handlers on one lane never overlap, unless the drain
\* of a replaced session worked on it; and every lane is blocked only by a run that has
\* not settled, whichever way the run, its spool operations, its session and the process
\* end.
LaneHeldByRun ==
    /\ \A g, h \in handlers :
          (g.stage = "handling" /\ h.stage = "handling" /\ Lane[g.update] = Lane[h.update])
              => g = h \/ Lane[h.update] \in strayLanes
    /\ \A l \in Lanes : active[l] # NoHandler =>
          \E h \in handlers : /\ Lane[h.update] = l
                              /\ h.update = active[l].update /\ h.token = active[l].token

\* The drain met the lane busy, guarded by the handler of a dead-lettered update.
MetGuarded(s, lane) ==
    /\ lane \in drain[s].blocked
    /\ \E w \in UpdateIds : Lane[w] = lane /\ spool[w].status = "failed"

\* Updates of a lane start in the order of their ids: none starts while an earlier one,
\* neither handled nor dropped yet, is waiting in the spool or claimed.  The exception: a
\* drain passes an update over behind a dead-lettered handler, the handler ends while the
\* drain claims for another lane, and the drain comes to a later update of the lane.  As
\* above, lanes that the drain of a replaced session worked on are left out.
LaneInOrder ==
    [][\A h \in handlers' \ handlers :
          h.stage = "handling" /\ Lane[h.update] \notin strayLanes =>
              \A v \in UpdateIds \ (EverHandled \cup dropped) :
                  (v < h.update /\ Lane[v] = Lane[h.update]
                      /\ spool[v].status \in {"pending", "claimed"})
                  => MetGuarded(h.session, Lane[v])]_vars

\* A dead-lettered update stays dead-lettered, whatever its late handler does.
DeadLetterFinal ==
    [][\A u \in UpdateIds : spool[u].status = "failed" => spool'[u].status = "failed"]_vars

\* Within a session a completed update is not handled again, though its claim could
\* not be removed and was recovered.
HandledOncePerSession ==
    [][\A s \in Sessions : \A h \in handlers' \ handlers :
          h.session = s /\ h.stage = "handling" => h.update \notin handled[s]]_vars

\* The session asked for a restart that the bound on sessions does not grant.
SessionsUsedUp == session = MaxSessions /\ At(session, "restart")

\* The session has thrown; nothing in this process begins another.
SessionEnded == worker.state = "ended"

\* Every update the spool took over leaves it in the end, as long as sessions go on:
\* claims whose run could not remove, release or dead-letter them do not stay behind.  So
\* again and again it is not there, or dead-lettered.
SpoolDrains ==
    \A u \in UpdateIds :
        []<>(spool[u].status \in {"none", "failed"} \/ SessionsUsedUp \/ SessionEnded)

\* A spooled update is "kept for retry" until the bot has handled it or it is
\* dead-lettered; in particular one whose claim failed.
KeptForRetry == dropped = {}
=============================================================================
