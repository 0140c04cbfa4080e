------------------------------ MODULE ActiveRuns ------------------------------
(***************************************************************************)
(* The registry of active embedded agent runs (embedded-agent-runner's      *)
(* runs.ts) and those who use it: run attempts that register, rotate their  *)
(* transcript, time out and clear themselves (run/attempt.ts, run.ts), and  *)
(* callers that abort a session's run, wait for its end and clear it by     *)
(* force.                                                                   *)
(*                                                                         *)
(* A run here is one attempt with one handle.  Attempts of a session are    *)
(* serialised by the session's lane, but the lane gives a task up some time *)
(* after the run's deadline, whether or not the run has ended.  Every       *)
(* operation of the registry runs without an await.  Reply runs             *)
(* (reply-run-registry) are not in the repository and are left out.         *)
(***************************************************************************)
EXTENDS Naturals, FiniteSets

CONSTANTS
    Runs, SessionIds, SessionKeys, SessionFiles,
    Session,    \* the session id of a run
    Key,        \* its session key, or None
    File,       \* the transcript it starts with
    Callers,    \* calls of waitForEmbeddedAgentRunEnd and abortAndDrainEmbeddedAgentRun
    Noted,      \* bound: the sessions that are given snapshots and model switch requests
    None        \* null

\* An abandonment mark: what it takes to clear the indexes that lead to it.
Marks == [key : SessionKeys \cup {None}, file : SessionFiles]

ASSUME RunsAssumption ==
    /\ Session \in [Runs -> SessionIds]
    /\ Key \in [Runs -> SessionKeys \cup {None}]
    /\ File \in [Runs -> SessionFiles]
    /\ Noted \subseteq SessionIds
    /\ None \notin Runs \cup SessionIds \cup SessionKeys \cup SessionFiles
    /\ None \notin Marks

\* A session id runs under one session key, if it has one.
ASSUME SessionKeyAssumption ==
    \A a, b \in Runs : Session[a] = Session[b] => Key[a] = Key[b]

\* Attempts of a session key wait for each other; without a key, those of a session id.
LaneOf(h) == IF Key[h] = None THEN Session[h] ELSE Key[h]
Lanes == {LaneOf(h) : h \in Runs}

VARIABLES
    r,       \* the registry: the maps of run-state.ts
    run,     \* each run: its stage, deadline, and whether it timed out
    lane,    \* the run each session lane is busy with
    caller,  \* each caller: its stage, session and whether it drains
    latest   \* history: the run last registered under each session key

vars == <<r, run, lane, caller, latest>>

Empty ==
    [active |-> [s \in SessionIds |-> None],
     idByKey |-> [k \in SessionKeys |-> None],
     idByFile |-> [f \in SessionFiles |-> None],
     snapshots |-> {},
     switches |-> {},
     waiters |-> [s \in SessionIds |-> {}],
     abandoned |-> [s \in SessionIds |-> None],
     abandonedByKey |-> [k \in SessionKeys |-> None],
     abandonedByFile |-> [f \in SessionFiles |-> None]]

Init ==
    /\ r = Empty
    /\ run = [h \in Runs |->
                [stage |-> "queued", deadline |-> "ahead", timedOut |-> FALSE]]
    /\ lane = [l \in Lanes |-> None]
    /\ caller = [c \in Callers |-> [stage |-> "idle", session |-> None, drains |-> FALSE]]
    /\ latest = [k \in SessionKeys |-> None]

-----------------------------------------------------------------------------
(* The registry's operations *)

\* An index without the entries that lead from one of xs to s.
Without(index, xs, s) ==
    [x \in DOMAIN index |-> IF x \in xs /\ index[x] = s THEN None ELSE index[x]]

Entered(index, x, s) == IF x = None THEN index ELSE [index EXCEPT ![x] = s]

ForgetMark(g, s) ==
    IF g.abandoned[s] = None THEN g
    ELSE [g EXCEPT !.abandoned[s] = None,
                   !.abandonedByKey = Without(@, {g.abandoned[s].key}, s),
                   !.abandonedByFile = Without(@, {g.abandoned[s].file}, s)]

ForgetMarkAt(g, s) == IF s = None THEN g ELSE ForgetMark(g, s)

\* clearEmbeddedRunAbandonment: the marks of the session id, of its key, of its file.
ClearAbandonment(g, s, k, f) ==
    LET byId == ForgetMark(g, s)
        byKey == IF k = None THEN byId ELSE ForgetMarkAt(byId, byId.abandonedByKey[k])
    IN  ForgetMarkAt(byKey, byKey.abandonedByFile[f])

MarkAbandoned(g, s, k, f) ==
    LET cleared == ClearAbandonment(g, s, k, f)
    IN  [cleared EXCEPT !.abandoned[s] = [key |-> k, file |-> f],
                        !.abandonedByKey = Entered(@, k, s),
                        !.abandonedByFile = Entered(@, f, s)]

\* markActiveEmbeddedRunAbandoned: only the run that is registered now.
MarkActiveAbandoned(g, h) ==
    IF g.active[Session[h]] = h THEN MarkAbandoned(g, Session[h], Key[h], File[h]) ELSE g

\* clearActiveRunSessionFiles(sessionId), then setActiveRunSessionFile.
FileReplaced(g, s, f) == [g EXCEPT !.idByFile = Entered(Without(@, SessionFiles, s), f, s)]

\* setActiveEmbeddedRun.
Registered(g, h) ==
    LET s == Session[h]
        fresh == ClearAbandonment(g, s, Key[h], File[h])
    IN  FileReplaced([fresh EXCEPT !.active[s] = h, !.idByKey = Entered(@, Key[h], s)], s, File[h])

\* Mutant: as for a given key, whatever session the key leads to.
RemovedWithKey(g, s, k) ==
    [g EXCEPT !.active[s] = None,
              !.snapshots = @ \ {s},
              !.switches = @ \ {s},
              !.idByKey = Entered(@, k, None),
              !.idByFile = Without(@, SessionFiles, s),
              !.waiters[s] = {}]

\* Mutant: without a key, no key of the session goes.
RemovedGivenKeyOnly(g, s, k) ==
    [g EXCEPT !.active[s] = None,
              !.snapshots = @ \ {s},
              !.switches = @ \ {s},
              !.idByKey = Without(@, {k}, s),
              !.idByFile = Without(@, SessionFiles, s),
              !.waiters[s] = {}]

\* Mutant: the waiters are not answered.
RemovedSilently(g, s, k) ==
    [g EXCEPT !.active[s] = None,
              !.snapshots = @ \ {s},
              !.switches = @ \ {s},
              !.idByKey = Without(@, IF k = None THEN SessionKeys ELSE {k}, s),
              !.idByFile = Without(@, SessionFiles, s)]

\* What a run that ends takes with it; its waiters are answered (see Answered).  Without
\* a key, every key of the session goes.
Removed(g, s, k) ==
    [g EXCEPT !.active[s] = None,
              !.snapshots = @ \ {s},
              !.switches = @ \ {s},
              !.idByKey = Without(@, IF k = None THEN SessionKeys ELSE {k}, s),
              !.idByFile = Without(@, SessionFiles, s),
              !.waiters[s] = {}]

\* A caller that has its answer wants nothing more of the session.
Told(stage) == [stage |-> stage, session |-> None, drains |-> FALSE]

\* Callers whose waiter was resolved with true.
Answered(g) ==
    [c \in Callers |->
        IF caller[c].stage = "waiting" /\ c \notin g.waiters[caller[c].session]
        THEN Told("ended")
        ELSE caller[c]]

-----------------------------------------------------------------------------
(* Runs *)

Stage(h, stage) == run' = [run EXCEPT ![h].stage = stage]

\* The session lane comes to the run's task; what it does before it registers changes
\* nothing here but takes time.
StartRun(h) ==
    /\ run[h].stage = "queued"
    /\ lane[LaneOf(h)] = None
    /\ lane' = [lane EXCEPT ![LaneOf(h)] = h]
    /\ Stage(h, "starting")
    /\ UNCHANGED <<r, caller, latest>>

RegisterRun(h) ==
    /\ run[h].stage = "starting"
    /\ Stage(h, "running")
    /\ r' = Registered(r, h)
    /\ latest' = Entered(latest, Key[h], h)
    /\ UNCHANGED <<lane, caller>>

\* The prompt is about to be sent; the registry does not ask whose snapshot it is.
UpdateSnapshot(h) ==
    /\ run[h].stage = "running"
    /\ Session[h] \in Noted \ r.snapshots
    /\ r.active[Session[h]] # None
    /\ r' = [r EXCEPT !.snapshots = @ \cup {Session[h]}]
    /\ UNCHANGED <<run, lane, caller, latest>>

\* Compaction rotated the transcript to another file; not done by a run that timed out.
RotateFile(h, f) ==
    /\ run[h].stage \in {"running", "cleared"}
    /\ ~run[h].timedOut
    /\ r.active[Session[h]] # None
    /\ r.idByFile[f] # Session[h]
    /\ r' = FileReplaced(r, Session[h], f)
    /\ UNCHANGED <<run, lane, caller, latest>>

\* The deadline passes while the session compacts: it is moved once.
ExtendDeadline(h) ==
    /\ run[h].stage = "running"
    /\ run[h].deadline = "ahead"
    /\ run' = [run EXCEPT ![h].deadline = "extended"]
    /\ UNCHANGED <<r, lane, caller, latest>>

\* The abort timer fires until the run's finally clears it.
PassDeadline(h) ==
    /\ run[h].stage \in {"running", "cleared"}
    /\ run[h].deadline # "passed"
    /\ run' = [run EXCEPT ![h].deadline = "passed", ![h].timedOut = TRUE]
    /\ r' = MarkActiveAbandoned(r, h)
    /\ UNCHANGED <<lane, caller, latest>>

\* The model's answer stays out.
TimeOutIdle(h) ==
    /\ run[h].stage = "running"
    /\ ~run[h].timedOut
    /\ run' = [run EXCEPT ![h].timedOut = TRUE]
    /\ r' = MarkActiveAbandoned(r, h)
    /\ UNCHANGED <<lane, caller, latest>>

\* The lane counts from the task's last progress and adds its own grace to the run's
\* timeout, so it does not give up before the deadline of a registered run.
LaneGivesUp(h) ==
    /\ lane[LaneOf(h)] = h
    /\ run[h].stage = "starting" \/ run[h].deadline # "ahead"
    /\ lane' = [lane EXCEPT ![LaneOf(h)] = None]
    /\ UNCHANGED <<r, run, caller, latest>>

\* Mutant: whichever run is registered.
ClearUnconditionally(h) ==
    /\ IF r.active[Session[h]] # None THEN r' = Removed(r, Session[h], Key[h]) ELSE UNCHANGED r
    /\ caller' = Answered(r')

\* Mutant: a replaced run answers the waiters all the same.
ClearAndAnswer(h) ==
    /\ r' = IF r.active[Session[h]] = h THEN Removed(r, Session[h], Key[h])
            ELSE [r EXCEPT !.waiters[Session[h]] = {}]
    /\ caller' = Answered(r')

\* clearActiveEmbeddedRun: a run that was replaced clears nothing.
ClearOwn(h) ==
    /\ IF r.active[Session[h]] = h THEN r' = Removed(r, Session[h], Key[h]) ELSE UNCHANGED r
    /\ caller' = Answered(r')

\* Before the terminal lifecycle event, unless asynchronous tasks are still awaited.
ClearEarly(h) ==
    /\ run[h].stage = "running"
    /\ Stage(h, "cleared")
    /\ ClearOwn(h)
    /\ UNCHANGED <<lane, latest>>

\* Nothing depends on the timers of a run that ended.
Over == [stage |-> "ended", deadline |-> "ahead", timedOut |-> FALSE]

\* The run's finally, and the end of its lane task.
FinishRun(h) ==
    /\ run[h].stage \in {"running", "cleared"}
    /\ run' = [run EXCEPT ![h] = Over]
    /\ ClearOwn(h)
    /\ lane' = IF lane[LaneOf(h)] = h THEN [lane EXCEPT ![LaneOf(h)] = None] ELSE lane
    /\ UNCHANGED latest

\* An attempt that fails before it registers.
FailStart(h) ==
    /\ run[h].stage = "starting"
    /\ Stage(h, "ended")
    /\ lane' = IF lane[LaneOf(h)] = h THEN [lane EXCEPT ![LaneOf(h)] = None] ELSE lane
    /\ UNCHANGED <<r, caller, latest>>

-----------------------------------------------------------------------------
(* Callers *)

\* requestLiveSessionModelSwitch: only when there was a run to abort.
RequestSwitch(s) ==
    /\ s \in Noted \ r.switches
    /\ r.active[s] # None
    /\ r' = [r EXCEPT !.switches = @ \cup {s}]
    /\ UNCHANGED <<run, lane, caller, latest>>

\* consumeLiveSessionModelSwitch.
ConsumeSwitch(s) ==
    /\ s \in r.switches
    /\ r' = [r EXCEPT !.switches = @ \ {s}]
    /\ UNCHANGED <<run, lane, caller, latest>>

\* waitForEmbeddedAgentRunEnd, or abortAndDrainEmbeddedAgentRun once it has aborted the
\* session's run, which ends in its own time.
Wait(c, s, drains) ==
    /\ caller[c].stage = "idle"
    /\ r.active[s] # None
    /\ caller' = [caller EXCEPT ![c] = [stage |-> "waiting", session |-> s, drains |-> drains]]
    /\ r' = [r EXCEPT !.waiters[s] = @ \cup {c}]
    /\ UNCHANGED <<run, lane, latest>>

WaitTimesOut(c) ==
    /\ caller[c].stage = "waiting"
    /\ caller' = [caller EXCEPT ![c] = IF @.drains THEN [@ EXCEPT !.stage = "undrained"]
                                      ELSE Told("undrained")]
    /\ r' = [r EXCEPT !.waiters[caller[c].session] = @ \ {c}]
    /\ UNCHANGED <<run, lane, latest>>

\* The abort threw: there is nothing to wait for.
AbortThrows(c, s) ==
    /\ caller[c].stage = "idle"
    /\ r.active[s] # None
    /\ caller' = [caller EXCEPT ![c] = [stage |-> "undrained", session |-> s, drains |-> TRUE]]
    /\ UNCHANGED <<r, run, lane, latest>>

\* forceClearEmbeddedAgentRun by a caller that may drain by force: whatever run the
\* session has now.  The caller gives the session's key or none.
ForceClear(c, k) ==
    LET s == caller[c].session
        gone == IF r.active[s] = None THEN r ELSE Removed(r, s, k)
    IN  /\ caller[c].stage = "undrained"
        /\ caller[c].drains
        /\ k \in {None} \cup {Key[h] : h \in {g \in Runs : Session[g] = s}}
        /\ r' = gone
        /\ caller' = [Answered(gone) EXCEPT ![c] = Told("forced")]
        /\ UNCHANGED <<run, lane, latest>>

Next ==
    \/ \E h \in Runs :
          \/ StartRun(h)
          \/ RegisterRun(h)
          \/ UpdateSnapshot(h)
          \/ \E f \in SessionFiles : RotateFile(h, f)
          \/ ExtendDeadline(h)
          \/ PassDeadline(h)
          \/ TimeOutIdle(h)
          \/ LaneGivesUp(h)
          \/ ClearEarly(h)
          \/ FinishRun(h)
          \/ FailStart(h)
    \/ \E s \in SessionIds :
          \/ RequestSwitch(s)
          \/ ConsumeSwitch(s)
          \/ \E c \in Callers, drains \in BOOLEAN : Wait(c, s, drains)
          \/ \E c \in Callers : AbortThrows(c, s)
    \/ \E c \in Callers :
          \/ WaitTimesOut(c)
          \/ \E k \in SessionKeys \cup {None} : ForceClear(c, k)

Spec == Init /\ [][Next]_vars

-----------------------------------------------------------------------------
(* Properties *)

\* A session whose run is gone leaves nothing behind: however the run went, by its own
\* clear or by force, every waiter was answered (notifyEmbeddedRunEnded), and no snapshot
\* or model switch request is left for the session's next run.  Those still waiting are in
\* the session's set, and nobody else is.
NothingOutlivesRuns ==
    /\ \A c \in Callers :
          caller[c].stage = "waiting" =>
              /\ c \in r.waiters[caller[c].session]
              /\ r.active[caller[c].session] # None
    /\ \A s \in SessionIds : \A c \in r.waiters[s] :
          caller[c].stage = "waiting" /\ caller[c].session = s
    /\ \A s \in r.snapshots \cup r.switches : r.active[s] # None

\* A waiter is told "ended" only at a moment its session has no run: neither the
\* replacement of a run nor a late clear by a replaced one answers it.
EndedMeansNoRun ==
    [][\A c \in Callers :
          (caller[c].stage = "waiting" /\ caller'[c].stage = "ended") =>
              r'.active[caller[c].session] = None]_vars

\* The indexes agree with the runs and the marks they stand for, whatever was replaced,
\* rotated, timed out or cleared by force: key and file never lead to a session without a
\* run, a session is found by one transcript at most, and asking for an abandoned run by
\* session id, key or file finds the same mark.
IndexesAgree ==
    /\ \A k \in SessionKeys : r.idByKey[k] # None => r.active[r.idByKey[k]] # None
    /\ \A f \in SessionFiles : r.idByFile[f] # None => r.active[r.idByFile[f]] # None
    /\ \A f, g \in SessionFiles : (r.idByFile[f] # None /\ r.idByFile[f] = r.idByFile[g]) => f = g
    /\ \A s \in SessionIds : r.abandoned[s] # None =>
          /\ r.abandoned[s].key # None => r.abandonedByKey[r.abandoned[s].key] = s
          /\ r.abandonedByFile[r.abandoned[s].file] = s
    /\ \A k \in SessionKeys : LET s == r.abandonedByKey[k] IN
          s # None => r.abandoned[s] # None /\ r.abandoned[s].key = k
    /\ \A f \in SessionFiles : LET s == r.abandonedByFile[f] IN
          s # None => r.abandoned[s] # None /\ r.abandoned[s].file = f

\* As long as the run last registered under a key is registered, the key leads to its
\* session: older runs of the key, under whatever session id, do not take it along
\* when they end (clearActiveRunSessionKeys).
KeyLeadsToLatest ==
    \A k \in SessionKeys :
        (latest[k] # None /\ r.active[Session[latest[k]]] = latest[k]) =>
            r.idByKey[k] = Session[latest[k]]

\* A run disappears from the registry without a successor only by clearing itself or by
\* a caller's force: a replaced run that ends late takes nothing with it.
RegisteredUntilOwnEnd ==
    [][\A s \in SessionIds :
          (r.active[s] # None /\ r'.active[s] = None) =>
              \/ run'[r.active[s]] # run[r.active[s]]
              \/ \E c \in Callers : caller[c].session = s /\ caller[c].stage # "forced"
                                        /\ caller'[c].stage = "forced"]_vars

\* A session key is reported abandoned only until a new run of it starts: while the run
\* last registered under the key is registered and has not timed out, announcements to
\* the key are not refused.
NewRunNotAbandoned ==
    \A k \in SessionKeys :
        (latest[k] # None /\ r.active[Session[latest[k]]] = latest[k] /\ ~run[latest[k]].timedOut)
            => r.abandonedByKey[k] = None
=============================================================================
