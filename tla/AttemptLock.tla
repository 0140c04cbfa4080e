------------------------------ MODULE AttemptLock ------------------------------
(***************************************************************************)
(* The session lock of an embedded attempt (run/attempt.session-lock.ts)    *)
(* for one session file.                                                    *)
(*                                                                         *)
(* Attempts of the file take turns by the file's owner entry.  An attempt's *)
(* controller holds the session write lock while it works, gives it up      *)
(* while a stream is requested and takes it again afterwards; a fence (the  *)
(* file's fingerprint at the release) tells whether somebody else changed   *)
(* the file meanwhile.  Writes either share the lock the controller holds   *)
(* or take one of their own.  The request, an abort, the cleanup and the    *)
(* end of the attempt drain those who share it before they give it up.      *)
(*                                                                         *)
(* An attempt is several tasks: its flow (attempt.ts), the agent that works *)
(* on the prompt, the release after an abort, which nobody awaits, and the  *)
(* writers.  The flow awaits the agent unless the attempt is aborted: then  *)
(* the agent goes on in the background.                                     *)
(*                                                                         *)
(* Steps run from await to await.  A read of the file that is awaited       *)
(* returns what the file was at some moment since it was asked for.  A      *)
(* fingerprint is the number of writes the file has seen.  The write lock   *)
(* itself (session-write-lock.ts) is a mutual exclusion with a timeout, and *)
(* everybody else who writes the file takes it.                             *)
(***************************************************************************)
EXTENDS Naturals, Sequences, FiniteSets

CONSTANTS
    Attempts,
    Writers,     \* calls of withSessionWriteLock from outside the attempt's own flow
    WriterOf,    \* the attempt a writer belongs to
    Publishing,  \* writers that publish what they write (publishOwnedWrite)
    OtherKinds,  \* what others write: "mirror", "migration" or "foreign"
    Abortable,   \* bound: attempts that may be aborted
    MaxStreams,  \* bound: streams an attempt requests
    MaxOthers,   \* bound: writes of others
    None,        \* undefined
    Other        \* whoever else holds the lock

ASSUME AttemptLockAssumption ==
    /\ WriterOf \in [Writers -> Attempts]
    /\ Publishing \subseteq Writers
    /\ OtherKinds \subseteq {"mirror", "migration", "foreign"}
    /\ Abortable \subseteq Attempts
    /\ MaxStreams \in [Attempts -> Nat] /\ MaxOthers \in Nat

Flow(a) == <<a, "flow">>
Agent(a) == <<a, "agent">>
AbortOf(a) == <<a, "abort">>
WriterTask(w) == <<WriterOf[w], w>>
Tasks == {Flow(a) : a \in Attempts} \cup {Agent(a) : a \in Attempts}
             \cup {AbortOf(a) : a \in Attempts} \cup {WriterTask(w) : w \in Writers}

\* The values that name things are different things.
ASSUME TaskAssumption ==
    /\ Writers \cap {"flow", "agent", "abort"} = {}
    /\ {None, Other} \cap Tasks = {} /\ None # Other

VARIABLES
    log,       \* the writes the file has seen, by kind
    lock,      \* the task that acquired the session write lock, if somebody holds it
    owner,     \* the attempt that owns the file
    ctl,       \* each attempt's controller
    at,        \* where each task is, and its local variables
    trusted,   \* trustedSessionFileStates; base: the first state trusted (history)
    published, \* ownedSessionFileWrites
    lastGen,   \* ownedSessionFileWriteGeneration
    streams,   \* streams each attempt requested
    intruded   \* history: attempts under whose controller a foreign write was made

vars == <<log, lock, owner, ctl, at, trusted, published, lastGen, streams, intruded>>

Version == Len(log)

NoFence == [active |-> FALSE, fp |-> 0, snap |-> 0, text |-> FALSE, gen |-> 0]
Task == [pc |-> "idle", then |-> "idle", since |-> 0, read |-> 0, seen |-> 0, key |-> None]

Init ==
    /\ log = <<>>
    /\ lock = None
    /\ owner = None
    /\ ctl = [a \in Attempts |-> [held |-> None, fence |-> NoFence, takeover |-> FALSE,
                                  users |-> {}, drain |-> None]]
    /\ at = [t \in Tasks |-> Task]
    /\ trusted = [ver |-> 0, gen |-> 0, base |-> 0]
    /\ published = [ver |-> 0, gen |-> 0]
    /\ lastGen = 0
    /\ streams = [a \in Attempts |-> 0]
    /\ intruded = {}

-----------------------------------------------------------------------------
(* Tasks *)

\* Task t goes on at pc, with no use for what it had read.
At(t, pc) == at' = [at EXCEPT ![t] = [Task EXCEPT !.pc = pc]]

ReadBy(t) == at[t].since..Version

Becomes(a, c) == ctl' = [ctl EXCEPT ![a] = c]

\* The lock that task k acquired is released, once.
Unlock(k) == lock' = IF lock = k THEN None ELSE lock

FileKept == UNCHANGED <<log, intruded>>
TrustKept == UNCHANGED <<trusted, published, lastGen>>
RestKept == UNCHANGED <<owner, streams>>

\* trustSessionFileState: the first state seen is trusted, later ones only if they are
\* the trusted one.
Trust(v) ==
    IF trusted.gen = 0
    THEN /\ trusted' = [ver |-> v, gen |-> lastGen + 1, base |-> v]
         /\ lastGen' = lastGen + 1
    ELSE UNCHANGED <<trusted, lastGen>>

\* The generation it returns, or the one given.
TrustedGen(v, gen) ==
    IF trusted.gen = 0 THEN lastGen + 1 ELSE IF trusted.ver = v THEN trusted.gen ELSE gen

-----------------------------------------------------------------------------
(* The fence *)

\* assertSessionFileFence for task t with the lock of k; t goes on at pc if the fence holds.
Fenced(t, k, pc) ==
    at' = [at EXCEPT ![t] = [Task EXCEPT !.pc = IF ctl[t[1]].fence.active THEN "assert" ELSE pc,
                                         !.then = pc, !.since = Version, !.key = k]]

FenceHolds(t) ==
    at' = [at EXCEPT ![t] = [Task EXCEPT !.pc = at[t].then, !.since = Version, !.key = at[t].key]]

\* Mutant: whatever the added lines are.
AddedAnything(v, n, kinds) == v < n /\ kinds # {}

\* Lines added after version v, up to version n, that leave the transcript's own turns alone.
Added(v, n, kinds) == v < n /\ \A i \in v + 1..n : log[i] \in kinds

\* Mutant: the use is not given back when the session was taken over.
WriteEndsUnlessThrown(t, c) ==
    /\ Becomes(t[1], IF c.takeover THEN c ELSE [c EXCEPT !.users = @ \ {t}])
    /\ IF t \in c.users THEN UNCHANGED lock ELSE Unlock(t)
    /\ At(t, IF t = Flow(t[1]) THEN "cleanup" ELSE "done")

\* The end of a write: the shared use is given back, or the lock of its own.
WriteEnds(t, c) ==
    /\ Becomes(t[1], [c EXCEPT !.users = @ \ {t}])
    /\ IF t \in c.users THEN UNCHANGED lock ELSE Unlock(t)
    /\ At(t, IF t = Flow(t[1]) THEN "cleanup" ELSE "done")

\* Mutant: the cleanup keeps its lock when the assertion throws.
FenceFailsInCleanup(t) ==
    LET c == [ctl[t[1]] EXCEPT !.takeover = TRUE]
    IN  \/ at[t].then = "stat" /\ WriteEnds(t, c)
        \/ at[t].then = "turn" /\ Becomes(t[1], [c EXCEPT !.held = None]) /\ Unlock(t) /\ At(t, "turn")
        \/ at[t].then = "flush" /\ Becomes(t[1], c) /\ UNCHANGED lock /\ At(t, "dispose")

\* What the caller of the assertion does when it throws.
FenceFails(t) ==
    LET c == [ctl[t[1]] EXCEPT !.takeover = TRUE]
    IN  \/ at[t].then = "stat" /\ WriteEnds(t, c)
        \/ at[t].then = "turn" /\ Becomes(t[1], [c EXCEPT !.held = None]) /\ Unlock(t) /\ At(t, "turn")
        \/ at[t].then = "flush" /\ Becomes(t[1], c) /\ Unlock(at[t].key) /\ At(t, "dispose")

\* The fingerprint is read: it is the fence's, or one this process published since, or
\* lines were appended that may be.
Assert(t) ==
    LET a == t[1]
        fence == ctl[a].fence
    IN  /\ at[t].pc = "assert"
        /\ \E v \in ReadBy(t) :
              \/ v = fence.fp /\ FenceHolds(t) /\ UNCHANGED ctl
              \/ /\ v # fence.fp /\ published.gen > fence.gen /\ published.ver = v
                 /\ Becomes(a, [ctl[a] EXCEPT !.fence = [active |-> TRUE, fp |-> v, snap |-> v,
                                                         text |-> FALSE, gen |-> published.gen]])
                 /\ FenceHolds(t)
              \/ /\ v # fence.fp /\ ~(published.gen > fence.gen /\ published.ver = v)
                 /\ at' = [at EXCEPT ![t].pc = IF Added(fence.snap, v, {"mirror"})
                                               THEN "adopt" ELSE "compare",
                                     ![t].since = Version, ![t].read = v]
                 /\ UNCHANGED ctl
        /\ UNCHANGED lock /\ FileKept /\ TrustKept /\ RestKept

\* Else the whole file is compared with the text of the fence's snapshot, as it is now.
Compare(t) ==
    LET fence == ctl[t[1]].fence
    IN  /\ at[t].pc = "compare"
        /\ IF fence.text
           THEN /\ at' = [at EXCEPT ![t].pc = "rewrite", ![t].since = Version,
                                    ![t].seen = fence.snap]
                /\ UNCHANGED <<ctl, lock>>
           ELSE FenceFails(t)
        /\ FileKept /\ TrustKept /\ RestKept

CompareRewrite(t) ==
    /\ at[t].pc = "rewrite"
    /\ \E v \in ReadBy(t) :
          IF Added(at[t].seen, v, {"mirror", "migration"})
          THEN at' = [at EXCEPT ![t].pc = "adopt", ![t].since = Version] /\ UNCHANGED <<ctl, lock>>
          ELSE FenceFails(t)
    /\ FileKept /\ TrustKept /\ RestKept

\* The change was benign: the fence moves to the file as it is now.
Adopt(t) ==
    LET a == t[1]
        gen == TrustedGen(at[t].read, ctl[a].fence.gen)
    IN  /\ at[t].pc = "adopt"
        /\ \E s \in ReadBy(t) :
              Becomes(a, [ctl[a] EXCEPT !.fence = [active |-> TRUE, fp |-> s, snap |-> s,
                                                   text |-> TRUE, gen |-> gen]])
        /\ Trust(at[t].read)
        /\ FenceHolds(t)
        /\ UNCHANGED <<lock, published>> /\ FileKept /\ RestKept

-----------------------------------------------------------------------------
(* Giving the lock up *)

\* releaseHeldLockWithFence for task t, which goes on at pc.
Release(t, pc) ==
    at' = [at EXCEPT ![t] = [Task EXCEPT !.pc = IF ctl[t[1]].held # None THEN "drain" ELSE "drained",
                                         !.then = pc]]

\* There is nothing to give up, but a drain may be under way.
AwaitDrain(t) ==
    /\ at[t].pc = "drained"
    /\ ctl[t[1]].drain = None
    /\ At(t, at[t].then)
    /\ UNCHANGED <<lock, ctl>> /\ FileKept /\ TrustKept /\ RestKept

\* beginHeldLockDrain, by the release, the cleanup or the end of the attempt: also by one that
\* waited for another drain, which gave the lock up.
BeginDrain(t) ==
    /\ at[t].pc = "drain"
    /\ ctl[t[1]].drain = None
    /\ Becomes(t[1], [ctl[t[1]] EXCEPT !.drain = t])
    /\ at' = [at EXCEPT ![t].pc = "idle users"]
    /\ UNCHANGED lock /\ FileKept /\ TrustKept /\ RestKept

\* Mutant: those who share the lock are not waited for.
NotWaitedFor(c) == c.users # None

\* waitForRetainedLockIdle.
Idle(c) == c.users = {}

\* Without a lock to give up, only the cleanup has to take one.
Onward(t) == IF at[t].then = "flush" THEN "lock cleanup" ELSE at[t].then

\* Once nobody shares the lock: the release goes on to set the fence, the cleanup keeps the
\* lock, the end of the attempt frees it.
TakeHeld(t) ==
    LET a == t[1]
        k == ctl[a].held
        taken == [ctl[a] EXCEPT !.held = None]
        over == [taken EXCEPT !.drain = None]
    IN  /\ at[t].pc = "idle users"
        /\ Idle(ctl[a])
        /\ \/ /\ at[t].then = "flush" /\ k # None
              /\ Becomes(a, over) /\ Fenced(t, k, "flush") /\ UNCHANGED lock
           \/ /\ at[t].then = "over" /\ k # None
              /\ Becomes(a, over) /\ At(t, "over") /\ Unlock(k)
           \/ /\ at[t].then \notin {"flush", "over"} /\ k # None
              /\ Becomes(a, taken) /\ UNCHANGED lock
              /\ at' = [at EXCEPT ![t].pc = "set fence", ![t].key = k, ![t].since = Version]
           \/ /\ k = None
              /\ Becomes(a, over) /\ At(t, Onward(t)) /\ UNCHANGED lock
        /\ FileKept /\ TrustKept /\ RestKept

SetFence(t) ==
    LET a == t[1]
    IN  /\ at[t].pc = "set fence"
        /\ \E v \in ReadBy(t) :
              /\ Becomes(a, [ctl[a] EXCEPT !.fence.fp = v])
              /\ Trust(v)
              /\ at' = [at EXCEPT ![t].pc = "free", ![t].since = Version,
                                  ![t].read = IF published.gen > 0 /\ published.ver = v
                                              THEN published.gen
                                              ELSE TrustedGen(v, ctl[a].fence.gen)]
        /\ UNCHANGED <<lock, published>> /\ FileKept /\ RestKept

Free(t) ==
    LET a == t[1]
    IN  /\ at[t].pc = "free"
        /\ \E s \in ReadBy(t) :
              Becomes(a, [ctl[a] EXCEPT !.drain = None,
                             !.fence = [@ EXCEPT !.active = TRUE, !.snap = s, !.text = TRUE,
                                                 !.gen = at[t].read]])
        /\ Unlock(at[t].key)
        /\ At(t, at[t].then)
        /\ FileKept /\ TrustKept /\ RestKept
-----------------------------------------------------------------------------
(* Writing *)

\* withSessionWriteLock, by a writer or by the attempt's own flow.
BeginWrite(t) ==
    /\ ~ctl[t[1]].takeover
    /\ At(t, "write")

\* acquireWriteLock: what the controller holds is shared.
ShareOrAcquire(t) ==
    LET a == t[1]
    IN  /\ at[t].pc = "write"
        /\ ctl[a].drain = None
        /\ IF ctl[a].held # None
           THEN Becomes(a, [ctl[a] EXCEPT !.users = @ \cup {t}]) /\ Fenced(t, ctl[a].held, "stat")
           ELSE At(t, "lock write") /\ UNCHANGED ctl
        /\ UNCHANGED lock /\ FileKept /\ TrustKept /\ RestKept

LockForWrite(t) ==
    /\ at[t].pc = "lock write"
    /\ \/ lock = None /\ lock' = t /\ Fenced(t, t, "stat") /\ UNCHANGED ctl
       \/ /\ lock # None
          /\ Becomes(t[1], [ctl[t[1]] EXCEPT !.takeover = TRUE])
          /\ At(t, IF t = Flow(t[1]) THEN "cleanup" ELSE "done")
          /\ UNCHANGED lock
    /\ FileKept /\ TrustKept /\ RestKept

\* The fingerprint before the write, and the write begins.
StatBefore(t) ==
    /\ at[t].pc = "stat"
    /\ \E v \in ReadBy(t) :
          at' = [at EXCEPT ![t] = [Task EXCEPT !.pc = "running", !.read = v, !.key = at[t].key]]
    /\ UNCHANGED <<lock, ctl>> /\ FileKept /\ TrustKept /\ RestKept

\* The writer writes, or does not, and is done.  A message the session manager persists
\* moves the fence at once (refreshAfterOwnedSessionWrite).
RunWrite(t) ==
    LET a == t[1]
        c == ctl[a]
        persisted == t[2] \notin Publishing /\ c.fence.active /\ ~c.takeover
    IN  /\ at[t].pc = "running"
        /\ \/ /\ log' = Append(log, "own")
              /\ IF persisted
                 THEN Becomes(a, [c EXCEPT !.fence = [@ EXCEPT !.fp = Version + 1,
                                                        !.snap = Version + 1, !.text = FALSE]])
                 ELSE UNCHANGED ctl
           \/ UNCHANGED <<log, ctl>>
        /\ at' = [at EXCEPT ![t].pc = IF c.takeover THEN "over taken" ELSE "ran",
                            ![t].since = Len(log')]
        /\ UNCHANGED <<lock, intruded>> /\ TrustKept /\ RestKept

\* publishOwnedSessionFileFence and refreshSessionFileFence look no further once the session was
\* taken over.
EndAfterTakeover(t) ==
    /\ at[t].pc = "over taken"
    /\ WriteEnds(t, ctl[t[1]])
    /\ FileKept /\ TrustKept /\ RestKept

\* refreshSessionFileFence.
Refresh(t) ==
    LET c == ctl[t[1]]
    IN  /\ at[t].pc = "ran" /\ t[2] \notin Publishing
        /\ \E s \in ReadBy(t) :
              WriteEnds(t, IF s # at[t].read /\ c.fence.active
                           THEN [c EXCEPT !.fence = [@ EXCEPT !.fp = s, !.snap = s, !.text = TRUE]]
                           ELSE c)
        /\ FileKept /\ TrustKept /\ RestKept

\* Mutant: whatever state was written over.
PublishUntrusted(t) ==
    LET c == ctl[t[1]]
        gen == lastGen + 1
    IN  /\ at[t].pc = "ran" /\ t[2] \in Publishing
        /\ \E v \in ReadBy(t) :
              IF v # at[t].read
              THEN /\ published' = [ver |-> v, gen |-> gen]
                   /\ trusted' = [trusted EXCEPT !.ver = v, !.gen = gen]
                   /\ lastGen' = gen
                   /\ IF c.fence.active
                      THEN /\ Becomes(t[1], [c EXCEPT !.fence.fp = v])
                           /\ at' = [at EXCEPT ![t].pc = "published", ![t].since = Version,
                                               ![t].read = gen]
                           /\ UNCHANGED lock
                      ELSE WriteEnds(t, c)
              ELSE WriteEnds(t, c) /\ TrustKept
        /\ FileKept /\ RestKept

\* publishOwnedSessionFileFence: a change of a trusted state is published.
Publish(t) ==
    LET c == ctl[t[1]]
        gen == lastGen + 1
    IN  /\ at[t].pc = "ran" /\ t[2] \in Publishing
        /\ \E v \in ReadBy(t) :
              IF v # at[t].read /\ trusted.gen > 0 /\ trusted.ver = at[t].read
              THEN /\ published' = [ver |-> v, gen |-> gen]
                   /\ trusted' = [trusted EXCEPT !.ver = v, !.gen = gen]
                   /\ lastGen' = gen
                   /\ IF c.fence.active
                      THEN /\ Becomes(t[1], [c EXCEPT !.fence.fp = v])
                           /\ at' = [at EXCEPT ![t].pc = "published", ![t].since = Version,
                                               ![t].read = gen]
                           /\ UNCHANGED lock
                      ELSE WriteEnds(t, c)
              ELSE WriteEnds(t, c) /\ TrustKept
        /\ FileKept /\ RestKept

SnapshotPublished(t) ==
    /\ at[t].pc = "published"
    /\ \E s \in ReadBy(t) :
          WriteEnds(t, [ctl[t[1]] EXCEPT !.fence = [@ EXCEPT !.snap = s, !.text = TRUE,
                                                              !.gen = at[t].read]])
    /\ FileKept /\ TrustKept /\ RestKept
-----------------------------------------------------------------------------
(* An attempt *)

Aborted(a) == at[AbortOf(a)].pc # "idle"

Created(a) == at[Flow(a)].pc \notin {"idle", "create", "over"}

\* acquireEmbeddedAttemptSessionFileOwner: when the file has no owner; waiters try again
\* at every release.
OwnFile(a) ==
    /\ at[Flow(a)].pc = "idle"
    /\ owner = None
    /\ owner' = a
    /\ At(Flow(a), "create")
    /\ UNCHANGED <<lock, ctl, streams>> /\ FileKept /\ TrustKept

\* The wait for the owner times out or is aborted.
GiveUpFile(a) ==
    /\ at[Flow(a)].pc = "idle"
    /\ owner # None
    /\ At(Flow(a), "over")
    /\ UNCHANGED <<lock, ctl>> /\ FileKept /\ TrustKept /\ RestKept

\* createEmbeddedAttemptSessionLockController.
Create(a) ==
    /\ at[Flow(a)].pc = "create"
    /\ \/ /\ lock = None
          /\ lock' = Flow(a)
          /\ Becomes(a, [ctl[a] EXCEPT !.held = Flow(a)])
          /\ At(Flow(a), "prepare")
       \/ lock # None /\ At(Flow(a), "over") /\ UNCHANGED <<lock, ctl>>
    /\ FileKept /\ TrustKept /\ RestKept

\* The prompt is handed to the agent.
Submit(a) ==
    /\ at[Flow(a)].pc = "prepare"
    /\ at' = [at EXCEPT ![Flow(a)].pc = "prompt", ![Agent(a)].pc = "turn"]
    /\ UNCHANGED <<lock, ctl>> /\ FileKept /\ TrustKept /\ RestKept

FailPrepare(a) ==
    /\ at[Flow(a)].pc = "prepare"
    /\ At(Flow(a), "cleanup")
    /\ UNCHANGED <<lock, ctl>> /\ FileKept /\ TrustKept /\ RestKept

\* The agent awaits those who write what its events say, and a tool or a stream awaits what
\* it publishes.
Settled(a) ==
    \A w \in Writers : WriterOf[w] = a => at[WriterTask(w)].pc \in {"idle", "done"}

\* A writer of the attempt begins.  Only what a stream publishes is written before the stream
\* is there; once the session is disposed of, the agent's events go unheard.
BeginWriter(w) ==
    LET t == WriterTask(w)
        a == t[1]
    IN  /\ at[t].pc = "idle"
        /\ \/ at[Agent(a)].pc = "turn" /\ at[Flow(a)].pc \notin {"dispose", "over"}
           \/ at[Agent(a)].pc \in {"turn", "stream"} /\ w \in Publishing
        /\ BeginWrite(t)
        /\ UNCHANGED <<lock, ctl>> /\ FileKept /\ TrustKept /\ RestKept

\* The agent requests a stream without the lock, the aborted one too.
RequestStream(a) ==
    /\ at[Agent(a)].pc = "turn"
    /\ Settled(a)
    /\ streams[a] < MaxStreams[a]
    /\ streams' = [streams EXCEPT ![a] = @ + 1]
    /\ Release(Agent(a), "stream")
    /\ UNCHANGED <<lock, ctl, owner>> /\ FileKept /\ TrustKept

\* The stream is there: reacquireAfterPrompt.
Reacquire(a) ==
    /\ at[Agent(a)].pc = "stream"
    /\ Settled(a)
    /\ ctl[a].drain = None
    /\ At(Agent(a), IF ctl[a].takeover \/ ctl[a].held # None THEN "turn" ELSE "lock turn")
    /\ UNCHANGED <<lock, ctl>> /\ FileKept /\ TrustKept /\ RestKept

LockForTurn(a) ==
    /\ at[Agent(a)].pc = "lock turn"
    /\ \/ /\ lock = None
          /\ lock' = Agent(a)
          /\ Becomes(a, [ctl[a] EXCEPT !.held = Agent(a)])
          /\ Fenced(Agent(a), Agent(a), "turn")
       \/ lock # None /\ At(Agent(a), "turn") /\ UNCHANGED <<lock, ctl>>
    /\ FileKept /\ TrustKept /\ RestKept

FinishTurn(a) ==
    /\ at[Agent(a)].pc = "turn"
    /\ Settled(a)
    /\ At(Agent(a), "done")
    /\ UNCHANGED <<lock, ctl>> /\ FileKept /\ TrustKept /\ RestKept

\* The agent is done, or the attempt is aborted: the lock is given up.
EndPrompt(a) ==
    /\ at[Flow(a)].pc = "prompt"
    /\ at[Agent(a)].pc = "done" \/ Aborted(a)
    /\ Release(Flow(a), "results")
    /\ UNCHANGED <<lock, ctl>> /\ FileKept /\ TrustKept /\ RestKept

\* The attempt's results are written, unless it is aborted while it waits for more.
WriteResults(a) ==
    /\ at[Flow(a)].pc = "results"
    /\ \/ BeginWrite(Flow(a))
       \/ (ctl[a].takeover \/ Aborted(a)) /\ At(Flow(a), "cleanup")
    /\ UNCHANGED <<lock, ctl>> /\ FileKept /\ TrustKept /\ RestKept

\* acquireForCleanup.
StartCleanup(a) ==
    /\ at[Flow(a)].pc = "cleanup"
    /\ IF ctl[a].takeover THEN At(Flow(a), "dispose")
       ELSE at' = [at EXCEPT ![Flow(a)].pc = IF ctl[a].held # None THEN "drain" ELSE "lock cleanup",
                             ![Flow(a)].then = "flush"]
    /\ UNCHANGED <<lock, ctl>> /\ FileKept /\ TrustKept /\ RestKept

LockForCleanup(a) ==
    /\ at[Flow(a)].pc = "lock cleanup"
    /\ ctl[a].drain = None
    /\ \/ lock = None /\ lock' = Flow(a) /\ Fenced(Flow(a), Flow(a), "flush") /\ UNCHANGED ctl
       \/ /\ lock # None
          /\ Becomes(a, [ctl[a] EXCEPT !.takeover = TRUE])
          /\ At(Flow(a), "dispose")
          /\ UNCHANGED lock
    /\ FileKept /\ TrustKept /\ RestKept

\* cleanupEmbeddedAttemptResources: pending tool results are written, unless the session was
\* taken over, and the lock is released.
Flush(a) ==
    /\ at[Flow(a)].pc = "flush"
    /\ \/ ~ctl[a].takeover /\ log' = Append(log, "own")
       \/ UNCHANGED log
    /\ Unlock(at[Flow(a)].key)
    /\ At(Flow(a), "dispose")
    /\ UNCHANGED <<ctl, intruded>> /\ TrustKept /\ RestKept

\* disposeHeldLockAfterRetainedIdle.
Dispose(a) ==
    /\ at[Flow(a)].pc = "dispose"
    /\ Release(Flow(a), "over")
    /\ UNCHANGED <<lock, ctl>> /\ FileKept /\ TrustKept /\ RestKept

\* The owner entry is removed when the attempt is over, and only its own.
Disown(a) ==
    /\ at[Flow(a)].pc = "over"
    /\ owner = a
    /\ owner' = None
    /\ UNCHANGED <<lock, ctl, at, streams>> /\ FileKept /\ TrustKept

\* The run is aborted or times out; nobody awaits the release.
Abort(a) ==
    /\ a \in Abortable
    /\ at[AbortOf(a)].pc = "idle"
    /\ Created(a)
    /\ Release(AbortOf(a), "done")
    /\ UNCHANGED <<lock, ctl>> /\ FileKept /\ TrustKept /\ RestKept

-----------------------------------------------------------------------------
(* Others who write the file *)

OthersWrites == Cardinality({i \in 1..Version : log[i] # "own"})

OtherLocks ==
    /\ lock = None
    /\ OthersWrites < MaxOthers
    /\ lock' = Other
    /\ UNCHANGED <<ctl, at>> /\ FileKept /\ TrustKept /\ RestKept

\* Delivery mirrors add lines that leave the turns alone, sometimes with a migration of the
\* whole file; anybody else changes it.
OtherWrites(kind) ==
    /\ lock = Other
    /\ lock' = None
    /\ log' = Append(log, kind)
    /\ intruded' = IF kind # "foreign" THEN intruded
                   ELSE intruded \cup {a \in Attempts : at[Flow(a)].pc \notin {"idle", "create"}}
    /\ UNCHANGED <<ctl, at>> /\ TrustKept /\ RestKept

-----------------------------------------------------------------------------

StepOf(t) ==
    \/ Assert(t) \/ Compare(t) \/ CompareRewrite(t) \/ Adopt(t)
    \/ AwaitDrain(t) \/ BeginDrain(t) \/ TakeHeld(t) \/ SetFence(t) \/ Free(t)
    \/ ShareOrAcquire(t) \/ LockForWrite(t) \/ StatBefore(t) \/ RunWrite(t)
    \/ EndAfterTakeover(t) \/ Refresh(t) \/ Publish(t) \/ SnapshotPublished(t)

FlowStep(a) ==
    \/ OwnFile(a) \/ GiveUpFile(a) \/ Create(a)
    \/ Submit(a) \/ FailPrepare(a) \/ EndPrompt(a) \/ WriteResults(a)
    \/ StartCleanup(a) \/ LockForCleanup(a) \/ Flush(a) \/ Dispose(a) \/ Disown(a)

AgentStep(a) ==
    \/ RequestStream(a) \/ Reacquire(a) \/ LockForTurn(a) \/ FinishTurn(a)

Next ==
    \/ \E t \in Tasks : StepOf(t)
    \/ \E a \in Attempts : FlowStep(a) \/ AgentStep(a) \/ Abort(a)
    \/ \E w \in Writers : BeginWriter(w)
    \/ OtherLocks
    \/ \E kind \in OtherKinds : OtherWrites(kind)

Spec == Init /\ [][Next]_vars

-----------------------------------------------------------------------------
(* Properties *)

\* The flow of an aborted attempt went on while the agent may still work.
Left(a) == Aborted(a) /\ at[Flow(a)].pc # "prompt"

\* Whoever writes does so under the write lock: under its own, or under the one its
\* controller holds, which neither an abort nor a stream, the cleanup or the end of the
\* attempt takes away under the writer (waitForRetainedLockIdle).  Not so when the flow
\* does not await the agent any more.
WritesUnderLock ==
    \A t \in Tasks :
        at[t].pc \in {"running", "flush"} => lock = at[t].key \/ Left(t[1])

\* What others did to the session while the lock was given up is noticed before the attempt
\* writes again (assertSessionFileFence), as long as nobody aborts it.
ForeignNoticed ==
    \A a \in intruded : \A t \in Tasks :
        t[1] = a /\ at[t].pc \in {"running", "flush"} => Aborted(a)

\* An attempt that is over holds nothing: not what its flow acquired and, unless its agent
\* works on after an abort, no lock that only the watchdog would free and no drain for which
\* a late writer would wait for ever.
NothingHeldAfterwards ==
    \A a \in Attempts :
        at[Flow(a)].pc = "over" =>
            /\ lock # Flow(a)
            /\ ~Aborted(a) => lock # Agent(a) /\ ctl[a].held = None /\ ctl[a].drain = None

\* Only what this process wrote under the lock is ever published as its own: no change of
\* others slips in between the first state it trusted and the last one.
PublishedIsOwn == \A i \in trusted.base + 1..trusted.ver : log[i] = "own"

\* No task waits for ever on another: on a drain nobody ends, on a use of the lock nobody
\* gives back.  Every step of the model is bounded, so that when nothing can move any more,
\* every attempt is over and the file is free for the next one.
NobodyWaitsForEver ==
    \/ ENABLED Next
    \/ owner = None /\ \A a \in Attempts : at[Flow(a)].pc = "over"
=============================================================================
