# NestifyClaw: specifications and proofs

TLA+ specifications of the parts of NestifyClaw (`nestify-claw`) whose correctness depends on
the order of events, with TLC configurations that check them on small instances and TLAPS
proofs that hold for every instance. Source paths below are relative to the repository root;
`T/` stands for `src/connectors/telegram/extension/src/`, `E/` for
`src/core/openclaw/agents/embedded-agent-runner/`, `C/` for `src/core/openclaw/agent-core/src/`.

To check a run: `tlc -config X.cfg M`, with the module `M` that `PROJECT.json` names for it.
To check the proofs: `tlapm ServerProofs.tla`, and likewise for the other `*Proofs` modules.

1. [The system](#1-the-system)
2. [Plan](#2-plan)
3. [Modules and code](#3-modules-and-code)
4. [Runs, bounds and fairness](#4-runs-bounds-and-fairness)
5. [Proofs](#5-proofs)
6. [Findings](#6-findings)
7. [What is not modelled](#7-what-is-not-modelled)

## 1. The system

NestifyClaw is a NestJS server in three layers: *connectors* (Telegram, WhatsApp), the
*gateway* (message pipeline) and the *core* (agent runtime). Its own code is small: the
gateway, two host adapters and a stub of the agent runtime. The bulk of the repository is
vendored OpenClaw code: a Telegram and a WhatsApp channel extension, the agent runtime
(`src/core/openclaw/agents`) and its loop (`agent-core`). The README of the repository says
that the vendored parts are "present but not wired" yet; they are specified as the code they
are. `src/common/openclaw/plugin-sdk` holds generated stubs of packages that are not in the
repository; where a component relies on one (the keyed store behind the spool, the command
queue behind session lanes), it is modelled from how the component uses it.

Everything runs on Node's event loop: code between two `await`s is atomic, and anything may
happen at an `await`. The exceptions are the Telegram polling worker, a thread that talks to
the main one by messages, and processes that share files.

| Component | State it keeps | Operations | What is hard, and what makes it correct |
|---|---|---|---|
| Gateway pipeline (`src/gateway`) | sessions, in an in-memory map | `handleInbound`: commands, inbound, routing, load, media, turn, deliveries, save | no queue per conversation, an await at every step, any port may reject. Conversations do not mix, though keys join ids that may have colons; a session is not lost, and is not saved for a turn that was not delivered |
| Telegram host adapter (`src/connectors/telegram/host`) | bot, runner | `start`, `stop` | wiring only |
| WhatsApp host adapter (`src/connectors/whatsapp/host`) | socket, `stopping` | `start`, `connect`, `stop`, connection events | `stop` and close events come while `connect` waits. One connection; none after a log-out; a lost one is made again |
| Telegram update tracker (`T/bot-update-tracker.ts`) | pending, failed, completed and recent updates; accepted, completed and persisted watermarks; a write queue of one | begin, finish, handler dispatch, persist | updates finish in any order, writes are asynchronous. The stored offset must cover finished updates only, and all of them in the end |
| Telegram isolated ingress (`T/polling-session.ts`, `T/telegram-ingress-*.ts`) | worker offset, spool records with claims, active lanes, session, offset store | poll, spool, drain, claim, handle, delete, release, dead-letter, time out, restart | crash at any point; spool failures; a worker that throws; stale snapshots; handlers and drains that outlive their session. No update is lost, none overtakes another of its chat, dead letters stay dead, no lane stays blocked |
| Telegram polling lease (`T/polling-lease.ts`) | registry by token, entries with abort signal and `done` promise | acquire, release, release of a stopped account | takeover after a wait; late releases. A live poller keeps its lease; an ended one never blocks the token |
| Telegram reply fence (`T/telegram-reply-fence.ts`, used by `T/bot-message-dispatch.ts`) | fences by key (generation, count, abort controllers), index by lane | begin, supersede, supersede a lane, end, queue and complete a follow-up | newer turns overtake older reply work; fences are dropped and made anew. Counts are exact; what is superseded stays so; every reply can be aborted |
| Telegram dispatch dedupe (`T/message-dispatch-dedupe.ts`) | in-flight claims, buckets in a keyed store, bucket locks with a time to live | claim, commit, release | lock lost by a slow writer; a message is dispatched once |
| Telegram message dispatch, drafts, thread bindings, message cache, webhook, sending | previews, bindings, caches | | throttling and expiry; mostly conversions and I/O |
| WhatsApp extension (`src/connectors/whatsapp/extension/src`) | connection epochs, backoff, dedupe claims, credential saves | connect, watchdog, receive, save | reconnects against late events of older sockets; a message is handled once across restarts |
| Active embedded runs (`E/runs.ts`, `E/run-state.ts`) | runs by session id, indexes by key and by transcript, waiters, abandonment marks, snapshots, model switches | set, clear, force-clear, abort and drain, wait, mark abandoned, rotate transcript | runs replace each other while older ones still end. Waiters are answered exactly when no run is left; indexes lead to runs; a late clear takes nothing of the newer run |
| Session write lock and attempt lock (`src/core/openclaw/agents/session-write-lock.ts`, `E/run/attempt.session-lock.ts`) | lock files; held lock and those who share it, fence (fingerprint and snapshot), takeover flag, trusted and published file states | acquire, release, clean up; give up for the prompt, take again, share, publish, clean up the attempt | stale locks judged and removed by several processes; the transcript changes while the lock is given up. Writes happen under the lock; a foreign change is noticed; nothing is held afterwards |
| Subagent registry, announcement, orphan recovery | run records, delivery state | register, complete, announce with retries, sweep, recover | completion races cleanup; restart between the steps |
| Auth profiles, model fallback | cooldowns, failure counts, OAuth credentials, refresh queues | order, mark, refresh, pick a candidate | a refresh token may be spent once; cooldown windows |
| Agent loop and steering (`C/agent.ts`, `C/agent-loop.ts`, `src/core/openclaw/agents/sessions/agent-session.ts`, `E/run/attempt.queue-message.ts`) | transcript, the loop's context, steering and follow-up queues, abort signal, retry and overflow state, callers that wait for a commit | turn, tool batch, steer, follow up, retry, compact, abort, wait for the commit | messages come at any await and are taken exactly once, in order; results follow their calls; a retried or compacted transcript is still the one the model is asked with; callers are told the truth |
| Process and sandbox registries, tool loop detection, tool result guard, compaction | records, ring buffers, transcripts | | caps; pairing of tool calls and results |

How they interact: the worker posts updates to the main thread, which spools them and
acknowledges; a drain claims a spooled update and calls the bot; the bot's middleware asks
the tracker whether to run it, tells it the outcome, and the tracker's watermark is written
to the offset store, which the next session polls from. A message handler takes a reply fence;
a handler timeout of the drain supersedes the fences of its lane. A polling session starts
only with the lease of its token. The gateway is called by connectors (not wired yet) and
calls the agent runtime. A run attempt registers itself among the active runs; commands,
subagent announcements and restarts ask for, wait for and abort what is registered there.

`PROJECT.json` lists, under `hazards`, the places in the code where this can go wrong, and the
properties that would show it.

## 2. Plan

Done, in the order of the plan:

1. `UpdateTrackerOps`, `UpdateTracker`, and `UpdateTrackerProofs`: what is never lost hangs on
   the offset.
2. `TelegramIngress`: composes the tracker's operations with worker, spool, drain, sessions
   and crashes; `TelegramIngressProofs`.
3. `PollingLease` with `PollingLeaseProofs`, `ReplyFence` with `ReplyFenceProofs`: the other two
   guards of the Telegram extension.
4. `WhatsappHost` and `Gateway`, with `ServerProofs` about both: the repository's own
   code.
5. `ActiveRuns` with `ActiveRunsProofs`: the core's shared registry.
6. `ExclusivePolling`: what a polling lease promises, implemented by `PollingLease`.
7. `AttemptLock` with `AttemptLockProofs`: the attempt's lock controller over the session write lock.
8. `AgentSession` with `AgentSessionProofs`: turns, tool batches, steering, follow-ups, retries and
   compactions.

Next:

9. `DispatchDedupe`: claims and bucket locks, with two processes and lock expiry; abstract
   specification "a message is dispatched at most once per commit".
10. `SessionLock`: acquisition, stale removal and re-entrance of the lock files, which
    `AttemptLock` takes as a mutual exclusion with a timeout; it should implement that.
11. `WhatsappConnection`, `WhatsappInbound`: connection epochs, backoff, dedupe across restarts.
12. `SubagentRuns`: registry, announcement with retries, orphan recovery after a restart.
13. `AuthProfiles`, `ModelFallback`: cooldown windows and candidate order (as pure functions
    checked against a reference definition), OAuth refresh queue and lock.
14. Abstract specifications: *at-least-once delivery* (every update is with Telegram, kept, or
    handled), implemented by `TelegramIngress`; *a lane is a mutex that serves in order*,
    implemented by its drain.

Theorems worth proving next: the refinements of item 14, for which `OrderInv` of `TelegramIngressProofs` has
most of what they need.

## 3. Modules and code

`PROJECT.json` maps every definition to the lines it stands for. Operators whose comment begins
with "Mutant" are not part of a specification: each is a changed form of the definition that
follows it, which the listed property must refuse.

**UpdateTrackerOps** holds the tracker as a record and its operations as operators on it, one
per function of `T/bot-update-tracker.ts`: `Rejects` and `Begin` (beginUpdate), `TakeDispatch`
and `SkipsDispatch` (the handler dispatch guard), `Complete`, `Fail` (finishUpdate),
`SafeCompleted` (resolveSafeCompletedUpdateId), `RequestPersist`, `StartWrite`, `WriteSettled`
(the persist queue). **UpdateTracker** runs one tracker under its environment: updates that
arrive, handlers that run concurrently and complete or throw, acknowledgements, offset writes
that succeed or are refused. `Isolated` selects how updates arrive: in getUpdates order from
the in-process runner, starting from the stored offset, or in any order from the spool, where
the bot starts without a watermark.

**TelegramIngress** has one action per stretch of code between two awaits. `worker` is the polling thread
(its offset, the rest of its batch, the update whose spool-ack it waits for); `spool` the durable record of
each update with its claim token; `drain[s]` the drain of each session with the snapshot of busy lanes it
took; `handlers` the handler runs that have not settled, each at the stage its awaits are in; `active` the
lane map, which belongs to the process and outlives a session; `tracker[s]` the tracker of the session's
bot. `RestartSession` begins the next session, and the handlers and the drain of the old one live on: the
stop awaits `drainOnce`, which returns at once while a drain is under way (`T/polling-session.ts:847-850`,
972-976). `strayLanes` notes the lanes such a drain then works on. A poll or a spool write that fails with
an error that is not the network's makes the worker throw (`PollFails`, `SpoolFails`); the session clears
its timers, drains a last time and throws in its turn (`EndSession`, `T/polling-session.ts:930-935`,
964-977), and nothing in the process polls or drains this spool again. `Crash` leaves `spool`, `durable` and
Telegram.

**PollingLease** is one token: `registry` the entry, `pc` each `acquireTelegramPollingLease`
call up to its end of polling, `stopPc` each `releaseStoppedTelegramPollingLease` call. A wait
that is over and the code that resumes after it are separate actions, since other callbacks
may run in between.

**ExclusivePolling** is the promise without registry, timers and microtasks: each poller is off, at
work, refused or over, and some were told to stop. A poller begins only when all that are at work
were told, and is refused only because one was not, or because it was told itself. `PollingLease`
implements it with `StateOf` and its abort signals as the mapping (`ImplementsExclusivePolling`).

**ReplyFence** is the map of fences and the lane index, with the dispatches that use them.
`Start` is beginTelegramReplyFence with everything it supersedes; `End` releases the dispatch;
`QueueFollowup` and `CompleteFollowup` are the life of a queued room-event reply;
`TimeOutLane` is the supersession of a lane. Which messages interrupt is a free choice.

**WhatsappHost** is the host adapter: `loading` and `reading` count the calls of `connect` at
its two awaits, `socket` is the life of every socket, `sock` the one the service knows.

**Gateway** is `GatewayService.handleInbound` for every message: `stage` is the await its call is at, `seen`
the session its turn is given, `store` the state store behind `SessionsService`. The session is read when
`load` is called and written when `save` is called, since the store's map is accessed before the promise
settles. An id is the sequence of its parts between colons, and `SessionKey` joins the parts of agent,
channel and chat as routing joins the texts, which by itself does not tell two ids apart; a channel id is
one part, the name of its extension's folder, and a WhatsApp chat id may have several, as a JID may name a
device. Of a session only the message whose turn saved it is kept. The other ports are their contracts:
`tryHandle` may answer either way, `classify` any kind, every port may reject.

**ActiveRuns** is the registry as one record `r` (the maps of `E/run-state.ts`) with one operator
per exported function of `E/runs.ts`, the run attempts that register, rotate, time out and
clear themselves, the session lane that gives an attempt up some time after its deadline,
and the callers that wait and drain.

**AttemptLock** is the controller of `E/run/attempt.session-lock.ts` in the attempts of one session file.
A task `<<attempt, "flow">>`, `"agent"`, `"abort"` or a writer is at a program counter `at[t].pc`, with
the local variables it keeps over its awaits; `ctl[a]` is the controller (held lock, fence, takeover,
the tasks that share the lock, the drain under way); `lock` the session write lock, `owner` the
file's owner entry, `trusted`, `published` and `lastGen` the module's maps of file states. The file
itself is `log`, the kinds of its writes in order, and a fingerprint is its length. An awaited
stat or read returns any version since it was asked for (`ReadBy`). Each operator is named for a
function or a stretch of one: `Assert`, `Compare`, `CompareRewrite`, `Adopt` are
assertSessionFileFence; `BeginDrain`, `TakeHeld`, `SetFence`, `Free` a release, which waits for those who
share the lock even when another release took it already; `ShareOrAcquire` to
`SnapshotPublished` a write; the rest is the order in which `E/run/attempt.ts` uses the controller.
`WriteResults` is one write for the several the flow makes after the prompt, one after the other, each in a
withSessionWriteLock of its own that asserts the fence first.
Others write the file under the lock: delivery mirrors, a migration of the whole file, or
anything (`OtherWrites`).

**AgentSession** is one session. `run` is the active run of the agent: `pc` the await of the loop, `context`
the loop's copy of the transcript, `pending` the messages it took and has not put in yet, `calls` the stage
of each call of a tool batch. `transcript` is the agent's messages, `saved` the entries of the session
manager and `written` those of them its file has: nothing before there is an answer, then all (`Persisted`);
`steering`, `followUps` and `mode` its queues; `sess` what the session waits for between runs. `Commit` puts
a message into the transcript. The listeners of message_end run in order: the agent's own entry, the caller
that waits, which is told, further listeners, then the session manager's append and its file. One of them
may throw before the caller is told, between that and the append, or in the write of the file
(`RecordThrows`); after each the run fails, and the message is noted in `unheard`. `FirstPoll`,
`PollSteering` and `PollFollowUps` are the places where the loop asks for messages; `Respond` an answer,
`BeginCall`, `EndTool`, `CommitResult` and `BatchOver` a tool batch, sequential or parallel; `AfterRun`,
`SleepOver` and `CompactionEnds` what the session does between two runs. A listener may throw wherever else
one is awaited, too (`Throw`).

## 4. Runs, bounds and fairness

`ActiveRuns_run`, which has no liveness, takes the runs of a session that are configured alike as symmetric
(`RunsAlike`); no other run uses symmetry, and none a state constraint. Every bound is a constant of the
module, used in a guard, and named "bound" where it is declared. `CHECK_DEADLOCK FALSE` is said where the
system stops once the bounded messages, runs, sessions or failures are used up; the tracker run checks
deadlock, as the recent-updates cache and repeated deliveries keep it going.

| Run | Instance | Shows |
|---|---|---|
| `UpdateTracker_run` | 4 updates in getUpdates order, stored offset none or 2, one refused write | the stored offset covers only finished updates, never moves back and reaches all it may; the watermark rejects nothing new; nothing completed runs again |
| `TelegramIngress_session` | 3 updates on 2 lanes, 1 session, one throwing handler, one failing spool operation, one poll that makes the worker throw, one handler timeout | a lane starts in order; no update is handled twice or, while the session lives, stays in the spool for ever; dead letters stay dead |
| `TelegramIngress_crash` | 2 updates on a lane, 2 sessions whose drains may overlap, a crash, a poll that makes the worker throw | what Telegram was told to forget is kept until it was handled; a lane is held by a run, and by one only unless it is stray, across sessions and crashes |
| `TelegramIngress_kept` | 2 updates on 2 lanes, a failed claim | finding 1 |
| `PollingLease_run` | 3 pollers of 2 accounts, 2 stopAccount calls | the lease is the live poller's, and no ended poller's; polling is exclusive (refinement); a waiting start is decided |
| `ReplyFence_run` | 3 dispatches, 2 lanes, 1 session, a lane timeout | counts, supersession, aborts |
| `WhatsappHost_run` | 1 start, 10 sockets | one connection, the known one; none after a log-out; a lost one is made again |
| `ActiveRuns_run` | 2 runs of a session and 1 of its successor under the same key, 2 transcripts, 1 caller, snapshots and model switches of one session | indexes, waiters, late clears, what must not outlive a run |
| `ActiveRuns_abandoned` | the same without a caller | finding 2 |
| `AttemptLock_run` | 2 attempts on a file, one of which requests a stream and may be aborted and has a publishing writer; one write of others, a migration or a foreign one | writes happen under the lock; foreign changes are noticed; nothing is held afterwards; nobody waits for ever |
| `AgentSession_run` | 2 prompts, 2 steering messages (the caller of one waits), 1 follow-up, up to 2 tool calls, 1 retry, 4 events | messages are taken once and in order; the model is asked with the whole transcript; callers are told the truth, but for a throw after they were told; prompts return |
| `Gateway_pipeline` | 4 messages: 2 of chat `7:2@lid`, 1 of chat `7` of that channel, 1 of `7:2@lid` of another; up to 2 replies | sessions and deliveries |

The tracker of an isolated bot, which is fed from the spool in any order, is checked as part of
`TelegramIngress`; the proofs of section 5 hold for both kinds of delivery.

Why these sizes. The tracker's decisions compare one update with the lowest unfinished one and the
watermark: four ids give an update below, at, between and above. A lane needs two updates for order, a
second lane for the watermark that all lanes share. A fence needs one dispatch that is superseded, one that
supersedes and one that keeps the fence alive. A stale clear needs a run, its replacement and one that
follows. Two sessions give the one restart or crash whose two sides matter; each budget of failures is one
because every failure is followed by all later behaviour, and failures of different kinds combine in
`TelegramIngress_session`. A handler
timeout followed by a second session is beyond the time of a run: the instance of `TelegramIngress_crash` with
a timeout instead of the failing poll (6.6 million states) was checked apart, and the theorems cover it. The four messages of the gateway are a pair that overlaps, a chat id that is the
beginning of another, and the same chat id in two channels. Ten sockets allow nine reconnects in a row. A
fence of the attempt lock needs one release and one return with a writer and a stranger in between, and a
second attempt to inherit what is left behind. `MaxEvents` of `AgentSession` is one budget for everything
that is not the loop's or the session's own doing (messages given, errors, compactions, aborts, listeners
that throw): any four of them, in any order and at any await, among them a prompt, its failure, and two
messages steered around it.

Two limits are worth knowing. When the drain of a replaced session goes on beside the drain of the new one,
it recovers claims and starts handlers by a snapshot of busy lanes that knows nothing of what the other
drain does. On a lane where it does so (`strayLanes`) two handlers may run at once, updates may start out of
order, and a record may be deleted by one run while the other one fails: `LaneHeldByRun`, `LaneInOrder` and
`ForgottenIsKept` claim exclusivity, order and keeping for all other lanes. TLC refutes the first two for
stray lanes on the instance of `TelegramIngress_crash`, and the third as soon as a handler may throw there
as well. That no lane stays blocked by a run that has settled, that dead letters stay dead and that a
session handles nothing twice is claimed for all. `SessionKeyAssumption` of `ActiveRuns` says that a session
id runs under one key.

Fairness. `UpdateTracker`: acknowledgements are delivered and a started write settles, since both are
promise callbacks; nothing makes an update arrive or a handler end. `FinishedGetsStored` excuses a refused
write, which the code only logs. `TelegramIngress`: the drain timer keeps firing and awaited spool
operations settle, a session that asked for a restart gets it, and handlers end (a handler that does not is
what the timeout, which is not required to fire, is for). `SpoolDrains` excuses a session whose worker
threw, since nothing in the process drains the spool after it, and the case where the bound on sessions
denies a restart. `PollingLease`: timers fire and microtasks run; nothing makes the previous poller stop.
`WhatsappHost`: loading and reading settle; connections and errors come as they like. `AgentSession`:
requests are answered (the stream function settles, also when it is aborted), tools end, delays and
compactions end; nothing makes a caller give up or anybody abort. `AttemptLock` needs no fairness: its
behaviours are finite, so `NobodyWaitsForEver` says with an invariant that they end where they should.
`ReplyFence`, `Gateway` and `ActiveRuns` claim no liveness: their code has no queue of its own that must
move.

Every property of a passing run is refuted by a mutant: a changed definition, as an ordinary
slip in that code would change it, under the same configuration (`mutants` in
`PROJECT.json`).

## 5. Proofs

All constants are arbitrary within the named assumptions: any finite or infinite set of update
ids (positive numbers), any sets of pollers, stop calls, messages and conversations, any
bounds.

**UpdateTrackerProofs** (`TypeCorrect`, `OffsetSafe`, `NothingAcceptedIsLost`, `OffsetMonotone`,
`NothingForgotten`, `DoneStaysDone`, `OnlyUndoneAccepted`). `OffsetBehindUnfinished` alone is not inductive:
a write may be in flight, and another one waiting, when an update is accepted or fails. `IInv` adds that the
watermarks are ordered (stored, requested, completed, accepted: `Ordered`), that everything in the persist
queue is behind unfinished updates as well (`Behind`, `QueueOrdered`), and that what is below the accepted
watermark is finished or held (`Accounted`). The key lemma, `SafeCompletedIsGreatest`, says that the offset
resolveSafeCompletedUpdateId computes is the greatest one that reaches neither an unfinished update nor
beyond the completed watermark; it rests on the well-foundedness of the naturals. What decides over
acceptance is another invariant, `Remembered`: while updates are fed in order, all from the initial floor to
the accepted watermark were accepted, and one that is done is neither among the failed ones, which may come
back, nor a replay below the floor that was not noted. So no completed update comes in again, in either mode
and also when the cache of recent updates has dropped it; `OnlyUndoneAccepted` needs `~Isolated`, that is
updates in the order of getUpdates.

**PollingLeaseProofs** (`LeaseIsKept`, `NoDuplicatePoller`, `LeaseIsExclusive`). The invariant is
both halves of `LeaseMatchesPollers` with the fact that a waiting call waits for an entry already told to stop
(`WaitsForStopping`): so whatever it drops or replaces when it resumes is not a live
poller's. `OneLivePoller` follows, and with it the guards of
`ExclusivePolling`: `LeaseIsExclusive` maps every step to a step of it or to a stutter.

**ServerProofs**, on the gateway (`GatewayTypes`, `OnlyAnsweredIsSaved`, `ChatsDoNotMix`,
`NoConversationForgotten`). `JoinTells` and `KeyTellsChats` say why equal keys come of equal ids: joined
sequences with beginnings of one length have the same beginning and the same rest, and a channel id is one
part (`GatewayAssumption`), so it does not matter how many colons a chat id has. `IInv` adds that a session
is stored under the key of the message that saved it (`StoredUnderOwnKey`), that a known conversation keeps
its session (`StillKnown`), and that the count of sent replies follows the stage of the turn (`Counting`);
`SaveKeepsInv` treats the two ways a turn comes to save.

**ServerProofs**, on the WhatsApp host (`ConnectionsFollowStarts`, `OneStartOneConnection`). A start to come, a
connect under way and a live socket are one right to be connected, which every step hands on
or gives up: their number never exceeds `MaxStarts`, for any number of reconnects. From it
follows `OneConnection`, on the assumption `MaxStarts <= 1`, which is what NestJS's life cycle
does; two calls of `start` do make two connections.

**ReplyFenceProofs** (`CountIsExact`, `SupersessionAborts`, `WorkIsReached`, `StaysSuperseded`,
`NewTurnSupersedes`). `FenceInv` says how the three notes a fence keeps of a dispatch belong together: the
count is that of the running dispatches (`Counted`), the controllers are those of its own
dispatches and follow-ups (`InUse`), one that is in use is in the fence exactly until it is
aborted (`Signalled`), and the generation leaves a dispatch behind in the same moment
(`Generations`). The last is what makes it safe to drop a fence and make it anew: generations
start again at 0, but a fence is dropped only when no dispatch is left to compare.

**ActiveRunsProofs** (`NothingIsLeft`, `MapsAgree`, `LatestIsFound`, `EndIsAnswered`, `NoForeignClear`).
`RunsInv` adds to the checked invariants that every index entry leads to a session with a run of
that key (`IndexesLead`) and that marks and their two indexes are each other's inverse
(`MarksAgree`): without it, forgetting a mark could take the entry of another one. The lemmas
treat each registry function once (registering, removing, replacing a transcript, forgetting
and making a mark). `RunsAssumption` says that `None` is not a mark.

**TelegramIngressProofs**, for any updates, lanes, sessions, crashes, failures and timeouts. Four
invariants, each part of the next.

- `SessionInv`: types, and that the tracker of a session that may still drain remembers all that session
  completed. It proves `DeadLettersAreFinal` and `SessionsHandleOnce`.
- `LaneInv`: the lane a replaced session's drain is about to start on is stray (`StrayStarts`); of the other
  lanes, the one the session's own drain claims on is free (`LaneFree`), and the handlers that have not
  settled are those registered (`HandlersRegistered`). It proves `LanesAreHeld`.
- `IngressInv`: a handler that deletes a record does so for an update that is done (`RemovedAreDone`), and
  the spool is filled in the order of ids: what is spooled, listed, claimed, handled, completed or written
  as an offset has only kept updates, or stray ones, below it (`WorkerInOrder`, `SpooledInOrder`,
  `OffsetsInOrder`). It proves `ForgottenAreKept`.
- `OrderInv`: on lanes that are not stray, a handler's record is claimed or dead-lettered (`RecordsHeld`),
  the session's drain knows every lane with a claim (`ClaimsKnown`), and of the pending updates below one it
  may start it has every one still on its list (`PassedKnown`). It proves `LanesStartInOrder`.

No assumption is made on when a drain ends. Lanes only ever become stray, and a drain marks its lane in the
step that takes a claim or gives one back, before it can disturb a handler there; so each clause is kept by
the session's own drain as if it were alone. `LanesStartInOrder` is the reason for the exception in
`LaneInOrder`. The plain property, that no update starts before an earlier one of its lane, holds on every
instance with three updates and is not inductive, nor true with four: a drain passes an update over because
the lane is guarded by the run of a dead-lettered one, that run ends while the drain awaits a claim for
another lane, and the drain, which does not add busy lanes to the lanes it leaves alone
(`T/polling-session.ts:581`), starts a later update of the lane. Nothing in the repository promises
otherwise, so it is no finding; `MetGuarded` names the case, and the theorem says that it is the only one beside the stray lanes.
The update that is passed over in this way is then rejected by the watermark of that session, like that of
finding 1.

**AttemptLockProofs**, for any attempts, writers, streams, aborts and writes of others. Three inductive
invariants, each used by the next.

- `Locks`: types, and for every attempt `LockInv`, which says where its tasks can be (`Placed`,
  `Phases`) and in whose hands what they acquired is: with the controller (`Controlled`), shared by
  tasks that write under it (`Shared`), with the one task that drains and sets the fence
  (`Drained`), with the cleanup (`Cleaned`), or in a write of its own. `Freed` says that a lock the
  attempt acquired is always in one of these places, `GaveUp` what the flow has left when it is over. An
  agent that is aborted while it asserts the fence can have its lock taken and
  freed by itself at once; `Lost` and `InHand` name that case, and it is why `WritesUnderLock` excuses
  what an aborted attempt left behind. It proves `WritesUnderLockHolds` and `NothingHeldAfterwardsHolds`.
- `Publishes`: what is remembered is a version there was (`Pasts`), the published version is the
  trusted one (`Trusts`), and since the version a writer read under the lock there are only own
  writes (`WritersOwn`). It proves `PublishedIsOwnHolds`.
- `Notices`: while the lock is given up a fence is set (`FenceSet`), and an attempt under whose
  controller a foreign write was made is aborted, past its last write, or has a fence `Behind`
  that write, together with everything it reads to assert it: so neither an own write that was
  published nor an append that looks benign brings the fence over it. It proves `ForeignNoticedHolds`.

Every action is first shown to be a `Step` of one task (`NextSteps`): one of thirteen ways to treat the
lock (`LockStep`: to begin a drain, to take the lock for the cleanup, to throw, ...), with what it does to the
task's reads, the fence and the trusted state; the invariants are then proved over those ways,
and attempts a step does not touch keep theirs (`LockInvUntouched`). `TaskAssumption` says that the
values that name writers, roles and "nobody" differ.

**AgentSessionProofs** (`TypeCorrect`, `MessagesOnce`, `CallersToldTheTruth`, `NothingIsLeftBehind`,
`AskedWithEverything`), for any messages, any number of tool calls, answers, retries and compactions, and
any failures and aborts. The actions between two runs, many in the code, are first shown to be one relation
(`SessionStep`): the session goes on with the transcript, with what the file has, or with either
without its last answer, and with no run, or one that begins with the prompt, with nothing, or with
what a queue gave (`Between`). The invariants:

- `TypeOK` and `Alternate`: the session and the loop take turns, and the loop holds messages only while it
  puts them in.
- `Places`: a message is in one place at a time (`Apart`) and somewhere from when it is given (`Somewhere`);
  those steered lie in the order they were given along the way from transcript over loop to queue
  (`Ordered`); transcript and file are both whole and differ by what the file did not hear (`Filed`), which
  makes a compaction, after which the file becomes the transcript, safe. It proves `MessagesOnce`.
- `Truthful`, what the waiting callers were told, and `Kept`: once the file has anything it has every
  message of the session manager but those whose write threw. `FileMoves` shows that each action records an
  entry, fails to and notes it, or leaves both alone; `KeptStep` follows from that alone. Together they
  prove `CallersToldTheTruth`.
- `Polled`: what a queue has left when the loop has looked there came after it. It proves
  `NothingIsLeftBehind`.
- `Contexts`: the loop's copy of the transcript is ahead of it by the prompts it has still to put in
  (`Ahead`), equal to it, or behind it by the results of the batch under way (`Behind`), and each answer
  since the run began has its results right after it (`Complete`). It proves `AskedWithEverything`; neither
  half of the property is inductive, as the model is asked at only one of the places where the loop waits.

The strengthened invariants were model-checked on the instances of the runs (`OrderInv` and
`LaneInOrder` also with four updates on two lanes) before they were proved.

Only model-checked: the liveness properties, and `NobodyWaitsForEver` of `AttemptLock`, which is stated
with `ENABLED`. Both are out of the provers' reach. Every other property of a passing run is a theorem.

## 6. Findings

1. **An update kept for retry can be removed unseen** (`TelegramIngress_kept`). An update whose claim
   failed stays in the spool ("keeping for retry", `T/polling-session.ts:452`). The bot of an
   isolated session keeps one accepted watermark over all chats: once a later update of another chat is
   accepted, the tracker rejects the kept one (`T/bot-update-tracker.ts:185`), `handleUpdate`
   resolves without a handler, and the record is deleted. An update that waits behind a busy lane
   meets the same fate without any failure. `KeptForRetry` is the property; the other ingress
   properties count such updates as `dropped`.
2. **The timeout of an old run marks the key of the new one abandoned** (`ActiveRuns_abandoned`).
   `markActiveEmbeddedRunAbandoned` compares handles under the session id only; when a session was
   reset to a new id under the same key while its old run was still registered, the old
   run's timeout marks the key after the new run has started. `E/runs.test.ts:461` says marks
   last "until a new run starts", and 492 that a stale handle's are ignored.

## 7. What is not modelled

`PROJECT.json` lists every component with its status and reason. In short: the Telegram host
adapter (two calls, each made once), webhook, sending and formatting (I/O and conversions),
approvals, secrets and the runtime stub (one-line stubs), bootstrap and type declarations, and the
plugin-sdk stubs (generated); model catalogues, prompts and providers (tables and conversions).
Planned and not there yet: the items 9 to 14 of the plan.

Within modelled components: backoff times and limits of the drain, webhook clean-up, abort during shutdown,
and an account that is stopped and started again in one process (`TelegramIngress`); the reply-run registry
the functions fall back to, whose module is not in the repository (`ActiveRuns`); writes nested in writes,
writers nobody awaits, unreadable files and the flow's later result writes one by one (`AttemptLock`);
`prompt()` during a retry delay, `compact()` by hand, bash and custom messages, `clearQueue`, extension
hooks, those that block or change what is appended to the session file among them, a torn append, and a
changed follow-up mode (`AgentSession`); the texts of messages everywhere; the payload of a session, which
the pipeline only passes through, and its `updatedAt`, which comes from a clock that may be set back and
which nothing reads (`Gateway`).

What the code does and no property claims, as seen while modelling:

- `stop` of the WhatsApp host while `connect` awaits finds no socket; `connect` does not ask again and makes
  one, so a stopped channel can stay connected (`OneConnection` counts that socket). The Telegram host's
  `start` polls on when `getMe` rejects; a failed bootstrap ends the process.
- An aborted attempt does not await its agent: the agent may take the session lock again after the attempt
  was disposed of (`E/run/attempt.session-lock.ts:907`) and keep it until the watchdog of the lock frees it.
  `WritesUnderLock` and `NothingHeldAfterwards` except that case by name. An abort that drains while the
  agent takes the lock again may set the fence after a foreign change (`ForeignNoticed` excepts aborted
  attempts). Writes that are not published never move the trusted state, so a later change of the attempt's
  own may be taken for a foreign one.
- An `abort()` between the error of a run and its end aborts a signal nobody asks any more, and the session
  retries with a new one (`src/core/openclaw/agents/sessions/agent-session.ts:1531`); one in the delay
  before a retry may still be followed by a compaction.
- A drain that outlives its session may run a second handler on a lane beside the next session's (section
  4).
- After a worker's error that is not of the network the session throws, its monitor rejects, and what is
  spooled stays there until the process or the account is started again (`T/polling-session.ts:930-935`).
- A caller of steerAndWaitForTranscriptCommit is told by a listener, before the session appends the message
  (`src/core/openclaw/agents/sessions/agent-session.ts:585-608`): if a later listener or the write of the
  file throws, it was told "committed" of a message the file does not have. `HonestAnswers` excepts it
  (`unheard`).
- A message steered after the last poll stays queued in the idle session; its caller may be told it was not
  committed and the message be committed by a later run, as `HonestAnswers` says with `unheard`. Messages
  are told apart by their text in the code; the model gives each its own.
- After a listener threw and the run was retried, `continue()` may find an answer at the end of the
  transcript and reject; `prompt()` rejects with it (`Continue`).
