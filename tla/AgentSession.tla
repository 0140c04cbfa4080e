------------------------------ MODULE AgentSession ------------------------------
(***************************************************************************)
(* An agent session: the loop of turns (agent-core/src/agent-loop.ts), the  *)
(* agent with its queues (agent-core/src/agent.ts), the retries and         *)
(* compactions between its runs (agents/sessions/agent-session.ts) and      *)
(* callers that steer and wait for the commit (attempt.queue-message.ts).   *)
(*                                                                         *)
(* A prompt starts a run: turns of a model answer and the tool calls it     *)
(* asks for.  Steering messages are taken before each answer, follow-ups    *)
(* when the run would end.  Messages are put into the transcript as their   *)
(* message_end is emitted; the loop keeps a context of its own, which is    *)
(* what the model is asked with.  When a run ends the session may wait and  *)
(* retry, or compact and go on.                                             *)
(*                                                                         *)
(* Steps run from await to await.  Awaited listeners (the session, which    *)
(* takes the write lock) and the model request may throw, which ends the    *)
(* run.  Each message has a text of its own, the queue of follow-ups keeps  *)
(* its default mode, and one prompt() runs at a time.                       *)
(***************************************************************************)
EXTENDS Naturals, Sequences, SequencesExt, FiniteSets, FiniteSetsExt

CONSTANTS
    Prompts,      \* messages given to prompt()
    Steers,       \* messages given to steer()
    Waiters,      \* those whose caller waits for the transcript commit
    FollowUps,    \* messages given to followUp()
    MaxCalls,     \* bound: tool calls of an answer
    MaxToolTurns, \* bound: answers that ask for tools
    MaxRetries,   \* settings.maxRetries
    MaxEvents,    \* bound: messages given, errors, compactions, calls of abort() and
                  \* listeners that throw, together
    None          \* no message

ASSUME AgentSessionAssumption ==
    /\ Waiters \subseteq Steers
    /\ {Prompts \cap Steers, Prompts \cap FollowUps, Steers \cap FollowUps} = {{}}
    /\ None \notin Prompts
    /\ {MaxCalls, MaxToolTurns, MaxRetries, MaxEvents} \subseteq Nat

Messages == Prompts \cup Steers \cup FollowUps

VARIABLES
    transcript, \* agent.state.messages
    saved,      \* the session manager's entries, in the order they were appended
    written,    \* the places in saved of the entries its file has
    steering,   \* steeringQueue
    followUps,  \* followUpQueue
    mode,       \* steeringMode
    run,        \* the active run and the local variables of its loop
    sess,       \* what the session awaits, the prompt it has yet to send, its counters;
                \* and, as history, the messages given too late for the last run
    told,       \* what became of each message for the one who gave it
    gone,       \* history: messages taken off the queue, or lost with a run that threw
    unheard,    \* history: messages the loop had taken when their caller gave up, and those
                \* whose message_end the session did not hear of or could not save
    given,      \* history: steering messages in the order they were given
    spent       \* what is used up of the bounds

history == <<gone, unheard, given, spent>>
queues == <<steering, followUps, mode>>
books == <<transcript, saved, written>>
vars == <<books, queues, run, sess, told, history>>

NoRun == [pc |-> "none", context |-> <<>>, base |-> 0, pending |-> <<>>, skip |-> FALSE,
          more |-> FALSE, aborted |-> FALSE, calls |-> <<>>, parallel |-> FALSE]
Resting == [pc |-> "idle", goal |-> None, stop |-> "none", willRetry |-> FALSE,
            retries |-> 0, recovered |-> FALSE, boundary |-> 0, late |-> {}]

Init ==
    /\ transcript = <<>> /\ saved = <<>> /\ written = {} /\ steering = <<>> /\ followUps = <<>>
    /\ mode = "one-at-a-time"
    /\ run = NoRun
    /\ sess = Resting
    /\ told = [m \in Messages |-> "nothing"]
    /\ gone = {} /\ unheard = {} /\ given = <<>>
    /\ spent = [tools |-> 0, events |-> 0]

-----------------------------------------------------------------------------
(* Messages and queues *)

\* A message of the user, an answer with n tool calls, the result of call i.
Said(m) == [by |-> "user", what |-> m, n |-> 0]
Answer(stop, n) == [by |-> "assistant", what |-> stop, n |-> n]
Result(i) == [by |-> "tool", what |-> "result", n |-> i]

AllSaid(ms) == [i \in DOMAIN ms |-> Said(ms[i])]

IsAnswer(t) == t # <<>> /\ Last(t).by = "assistant"

\* The last message is dropped if it is an answer.
WithoutAnswer(t) == IF IsAnswer(t) THEN Front(t) ELSE t

\* Mutant: draining everything means draining one and forgetting the rest.
DrainedFirst(q, m) == IF q = <<>> THEN q ELSE <<Head(q)>>

\* PendingMessageQueue.drain: what it returns and what it leaves.
Drained(q, m) == IF m = "all" \/ q = <<>> THEN q ELSE <<Head(q)>>
LeftIn(q, m) == IF m = "all" \/ q = <<>> THEN <<>> ELSE Tail(q)

\* The steering queue, or the queue of follow-ups, is drained: ms is what it gave.
DrainSteering(ms) ==
    /\ ms = Drained(steering, mode)
    /\ steering' = LeftIn(steering, mode)
    /\ UNCHANGED <<followUps, mode>>

DrainFollowUps(ms) ==
    /\ ms = Drained(followUps, "one-at-a-time")
    /\ followUps' = LeftIn(followUps, "one-at-a-time")
    /\ UNCHANGED <<steering, mode>>

Spend(what, bound) ==
    /\ spent[what] < bound
    /\ spent' = [spent EXCEPT ![what] = @ + 1]

-----------------------------------------------------------------------------
(* Giving messages *)

\* The run takes no message any more.
Over == {"ended", "failing", "aborting", "failed"}

\* A message may be steered into a run that streams; the caller may set the mode to "all".
\* steerAndWaitForTranscriptCommit enqueues it before its first await.
Steer(m) ==
    /\ run.pc # "none" /\ told[m] = "nothing" /\ Spend("events", MaxEvents)
    /\ steering' = Append(steering, m)
    /\ mode' \in {mode, "all"}
    /\ told' = [told EXCEPT ![m] = IF m \in Waiters THEN "waiting" ELSE "given"]
    /\ given' = Append(given, m)
    /\ sess' = IF run.pc \in Over \cup {"followUps"}
               THEN [sess EXCEPT !.late = @ \cup {m}] ELSE sess
    /\ UNCHANGED <<books, followUps, run, gone, unheard>>

FollowUp(m) ==
    /\ run.pc # "none" /\ told[m] = "nothing" /\ Spend("events", MaxEvents)
    /\ followUps' = Append(followUps, m)
    /\ told' = [told EXCEPT ![m] = "given"]
    /\ sess' = IF run.pc \in Over THEN [sess EXCEPT !.late = @ \cup {m}] ELSE sess
    /\ UNCHANGED <<books, steering, mode, run, gone, unheard, given>>

\* Mutant: the message stays queued.
GiveUpOnly(m) ==
    /\ told[m] = "waiting"
    /\ told' = [told EXCEPT ![m] = "rejected"]
    /\ UNCHANGED <<books, queues, run, sess, history>>

\* rejectAfterCancellation, when the caller has waited long enough or the session ended:
\* the message is taken off the queue if it is still there.
GiveUp(m) ==
    /\ told[m] = "waiting"
    /\ told' = [told EXCEPT ![m] = "rejected"]
    /\ steering' = RemoveFirst(steering, m)
    /\ IF m \in Range(steering) THEN gone' = gone \cup {m} /\ UNCHANGED unheard
       ELSE unheard' = unheard \cup {m} /\ UNCHANGED gone
    /\ UNCHANGED <<books, followUps, mode, run, sess, given, spent>>

-----------------------------------------------------------------------------
(* The loop *)

\* runWithLifecycle, runAgentLoop: a run begins after transcript t with the messages ms,
\* which are in its context at once.
Begun(t, ms, skip) ==
    [NoRun EXCEPT !.pc = "prompts", !.context = t \o AllSaid(ms), !.base = Len(t),
                  !.pending = ms, !.skip = skip]

\* persist: nothing is written before the session has an answer; then all its entries
\* are, and from then on each new one.
Answered(entries) == \E i \in DOMAIN entries : entries[i].by = "assistant"
Persisted(entries) ==
    CASE ~Answered(entries) -> written
      [] Answered(entries) /\ written = {} -> DOMAIN entries
      [] OTHER -> written \cup {Len(entries)}

\* message_end: the agent has the entry, the listeners are told, and the session appends it.
Record(entry) ==
    /\ transcript' = Append(transcript, entry)
    /\ saved' = Append(saved, entry)
    /\ written' = Persisted(saved')

\* A listener of message_end throws before the session appends the entry, or the write
\* of the entry, which it has appended, to its file does.
RecordThrows(entry) ==
    /\ Spend("events", MaxEvents)
    /\ transcript' = Append(transcript, entry)
    /\ \/ UNCHANGED saved
       \/ saved' = Append(saved, entry) /\ Answered(saved')
    /\ UNCHANGED written

\* The run fails, with an error or as aborted; the messages it still had to put in are lost.
Fail(lost) ==
    /\ run' = [NoRun EXCEPT !.pc = IF run.aborted THEN "aborting" ELSE "failing",
                            !.aborted = run.aborted]
    /\ gone' = gone \cup Range(lost)

\* A caller that waits for the message hears its message_end.
TellCommitted(m) == IF told[m] = "waiting" THEN [told EXCEPT ![m] = "committed"] ELSE told

\* The first pending message is put in: a caller that waits for it is told before the
\* session appends it, so that a throw may come before, between or after.  After an
\* injection the loop adds it to its context.
Commit ==
    /\ run.pc \in {"prompts", "inject"} /\ run.pending # <<>>
    /\ sess' = [sess EXCEPT !.recovered = FALSE]
    /\ LET m == Head(run.pending) IN
       \/ /\ Record(Said(m))
          /\ told' = TellCommitted(m)
          /\ run' = [run EXCEPT
                !.pending = Tail(@),
                !.context = IF run.pc = "inject" THEN Append(@, Said(m)) ELSE @,
                !.pc = IF @ = "inject" /\ Len(run.pending) = 1 THEN "request" ELSE @]
          /\ UNCHANGED <<history>>
       \/ /\ RecordThrows(Said(m))
          /\ Fail(Tail(run.pending))
          /\ told' \in {told, TellCommitted(m)}
          /\ saved' # saved => told' = TellCommitted(m)
          /\ unheard' = unheard \cup {m}
          /\ UNCHANGED given
    /\ UNCHANGED queues

\* The turn goes on with messages to put in, or with the request.
Turn(ms) == [run EXCEPT !.pending = ms, !.skip = FALSE, !.more = FALSE,
                        !.pc = IF ms = <<>> THEN "request" ELSE "inject"]

\* The first poll for steering messages, skipped when the run began with some.
FirstPoll ==
    /\ run.pc = "prompts" /\ run.pending = <<>>
    /\ \/ run.skip /\ run' = Turn(<<>>) /\ UNCHANGED queues
       \/ ~run.skip /\ \E ms \in {Drained(steering, mode)} : DrainSteering(ms) /\ run' = Turn(ms)
    /\ UNCHANGED <<books, sess, told, history>>

\* The session counts retries and overflows until an answer that is no error.
Heard(stop) ==
    IF stop = "error" THEN [sess EXCEPT !.stop = stop]
    ELSE [sess EXCEPT !.stop = stop, !.retries = 0, !.recovered = FALSE]

\* What follows an answer: the end of the run, its tool calls (one by one if a tool asks
\* for that), or the end of the turn.
Following(answer) ==
    CASE answer.what \in {"error", "aborted"} -> {[run EXCEPT !.pc = "ended"]}
      [] answer.what = "stop" -> {[run EXCEPT !.pc = "turnEnd", !.more = FALSE]}
      [] OTHER -> {[run EXCEPT !.pc = "tools", !.parallel = p,
                               !.calls = [i \in 1..answer.n |-> "new"]] :
                  p \in IF answer.n > 1 THEN BOOLEAN ELSE {FALSE}}

\* streamAssistantResponse: an answer is complete; an aborted request that fails says so.
Respond(stop, n) ==
    /\ run.pc = "request"
    /\ stop \in {"stop", "toolUse", IF run.aborted THEN "aborted" ELSE "error"}
    /\ n \in IF stop = "toolUse" THEN 1..MaxCalls ELSE {0}
    /\ LET answer == Answer(stop, n) IN
       \/ /\ Record(answer)
          /\ CASE stop = "toolUse" -> Spend("tools", MaxToolTurns)
               [] stop = "error" -> Spend("events", MaxEvents)
               [] OTHER -> UNCHANGED spent
          /\ \E next \in Following(answer) :
                run' = [next EXCEPT !.context = Append(@, answer)]
          /\ sess' = Heard(stop)
          /\ UNCHANGED gone
       \/ RecordThrows(answer) /\ Fail(<<>>) /\ UNCHANGED sess
    /\ UNCHANGED <<queues, told, unheard, given>>

\* Call i comes next: sequential calls follow one another, parallel ones are all prepared
\* before one of them runs.
NextCall(i) ==
    /\ run.pc = "tools" /\ i \in DOMAIN run.calls /\ run.calls[i] = "new"
    /\ \A j \in 1..(i - 1) :
          run.calls[j] \in IF run.parallel THEN {"ready", "ended"} ELSE {"answered"}

\* Mutant: the results of the calls left out after an abort are waited for all the same.
BeginUnlessAborted(i) ==
    /\ NextCall(i) /\ (i > 1 => ~run.aborted)
    /\ \E s \in {"ended"} \cup (IF run.aborted THEN {} ELSE {"ready"}) :
          run' = [run EXCEPT !.calls[i] = s]
    /\ UNCHANGED <<books, queues, sess, told, history>>

\* A call is prepared: its tool is ready to run, or it has a result already (unknown tool,
\* bad arguments, a hook that blocks, an abort).  After an abort the calls that remain are
\* left out.  An abort during the preparation comes to the same as one after it.
BeginCall(i) ==
    /\ NextCall(i)
    /\ IF i > 1 /\ run.aborted
       THEN run' = [run EXCEPT !.calls =
                [j \in DOMAIN @ |-> IF j < i THEN @[j] ELSE "skipped"]]
       ELSE \E s \in {"ended"} \cup (IF run.aborted THEN {} ELSE {"ready"}) :
                run' = [run EXCEPT !.calls[i] = s]
    /\ UNCHANGED <<books, queues, sess, told, history>>

\* A tool has run, or thrown, which its result says.
EndTool(i) ==
    /\ run.pc = "tools" /\ i \in DOMAIN run.calls /\ run.calls[i] = "ready"
    /\ run.parallel => "new" \notin Range(run.calls)
    /\ run' = [run EXCEPT !.calls[i] = "ended"]
    /\ UNCHANGED <<books, queues, sess, told, history>>

\* Mutant: results are recorded as the tools end.
CommitAtOnce(i) ==
    /\ run.pc = "tools" /\ i \in DOMAIN run.calls /\ run.calls[i] = "ended"
    /\ run.parallel => "new" \notin Range(run.calls)
    /\ Record(Result(i))
    /\ run' = [run EXCEPT !.calls[i] = "answered"]
    /\ UNCHANGED <<queues, sess, told, history>>

\* emitToolResultMessage: after each sequential call, or in the order of the calls when
\* all the parallel ones have ended.
CommitResult(i) ==
    /\ run.pc = "tools" /\ i \in DOMAIN run.calls /\ run.calls[i] = "ended"
    /\ \A j \in 1..(i - 1) : run.calls[j] = "answered"
    /\ run.parallel => Range(run.calls) \cap {"new", "ready"} = {}
    /\ \/ /\ Record(Result(i))
          /\ run' = [run EXCEPT !.calls[i] = "answered"]
          /\ UNCHANGED <<gone, spent>>
       \/ RecordThrows(Result(i)) /\ Fail(<<>>)
    /\ UNCHANGED <<queues, sess, told, unheard, given>>

\* The results come into the context; a batch may ask for the end of the run.
BatchOver ==
    /\ run.pc = "tools" /\ Range(run.calls) \subseteq {"answered", "skipped"}
    /\ \E more \in BOOLEAN :
          run' = [run EXCEPT !.pc = "turnEnd", !.more = more, !.calls = <<>>,
                !.parallel = FALSE,
                !.context = @ \o [i \in 1..Cardinality({j \in DOMAIN run.calls :
                                        run.calls[j] = "answered"}) |-> Result(i)]]
    /\ UNCHANGED <<books, queues, sess, told, history>>

\* Mutant: steering messages are taken only while there are tool results to answer.
PollWhileWorking ==
    /\ run.pc = "turnEnd"
    /\ IF run.more
       THEN \E ms \in {Drained(steering, mode)} : DrainSteering(ms) /\ run' = Turn(ms)
       ELSE run' = [run EXCEPT !.pc = "followUps"] /\ UNCHANGED queues
    /\ UNCHANGED <<books, sess, told, history>>

\* The end of a turn: steering messages are taken, and the loop goes on if there are any
\* or tool results to answer.
PollSteering ==
    /\ run.pc = "turnEnd"
    /\ \E ms \in {Drained(steering, mode)} :
          /\ DrainSteering(ms)
          /\ run' = IF ms # <<>> \/ run.more THEN Turn(ms) ELSE [run EXCEPT !.pc = "followUps"]
    /\ UNCHANGED <<books, sess, told, history>>

\* The run would end: follow-ups are taken, and if there are none it ends.
PollFollowUps ==
    /\ run.pc = "followUps"
    /\ \E ms \in {Drained(followUps, "one-at-a-time")} :
          /\ DrainFollowUps(ms)
          /\ run' = IF ms = <<>> THEN [run EXCEPT !.pc = "ended"] ELSE Turn(ms)
    /\ UNCHANGED <<books, sess, told, history>>

-----------------------------------------------------------------------------
(* A run that fails *)

\* A listener of another event throws, or what prepares a request.
Throw ==
    /\ run.pc \in {"prompts", "inject", "request", "tools", "turnEnd", "ended"}
    /\ Spend("events", MaxEvents)
    /\ Fail(run.pending)
    /\ UNCHANGED <<books, queues, sess, told, unheard, given>>

\* handleRunFailure: an answer that says what the run died of.
FailureOf == Answer(IF run.pc = "aborting" THEN "aborted" ELSE "error", 0)

RecordFailure ==
    /\ run.pc \in {"failing", "aborting"}
    /\ Record(FailureOf)
    /\ run' = [run EXCEPT !.pc = "failed"]
    /\ sess' = Heard(FailureOf.what)
    /\ UNCHANGED <<queues, told, history>>

\* A listener throws on that answer, or at the end of the failed run: prompt() rejects.
RejectRun ==
    /\ \/ run.pc \in {"failing", "aborting"} /\ RecordThrows(FailureOf)
       \/ run.pc = "failed" /\ Spend("events", MaxEvents) /\ UNCHANGED books
    /\ run' = NoRun
    /\ sess' = [sess EXCEPT !.pc = "idle", !.goal = None, !.stop = "none"]
    /\ UNCHANGED <<queues, told, gone, unheard, given>>

-----------------------------------------------------------------------------
(* The session *)

\* The session s has a run again.
Running(s) == [s EXCEPT !.pc = "running", !.stop = "none", !.willRetry = FALSE, !.late = {}]

\* The session s has nothing more to do for the last run, with transcript t: the prompt
\* it still has to send is sent, or prompt() returns.
Settle(s, t) ==
    /\ transcript' = t
    /\ IF s.goal = None
       THEN run' = NoRun /\ sess' = [s EXCEPT !.pc = "idle", !.willRetry = FALSE]
       ELSE run' = Begun(t, <<s.goal>>, FALSE) /\ sess' = [Running(s) EXCEPT !.goal = None]
    /\ UNCHANGED queues

\* agent.continue(): with transcript t; after an answer only queued messages can go on.
Continue(s, t) ==
    /\ transcript' = t
    /\ \/ /\ t # <<>> /\ ~IsAnswer(t)
          /\ run' = Begun(t, <<>>, FALSE)
          /\ sess' = Running(s)
          /\ UNCHANGED queues
       \/ /\ IsAnswer(t) /\ steering # <<>>
          /\ \E ms \in {Drained(steering, mode)} :
                DrainSteering(ms) /\ run' = Begun(t, ms, TRUE)
          /\ sess' = Running(s)
       \/ /\ IsAnswer(t) /\ steering = <<>> /\ followUps # <<>>
          /\ \E ms \in {Drained(followUps, "one-at-a-time")} :
                DrainFollowUps(ms) /\ run' = Begun(t, ms, FALSE)
          /\ sess' = Running(s)
       \/ /\ t = <<>> \/ (IsAnswer(t) /\ steering = <<>> /\ followUps = <<>>)
          /\ run' = NoRun
          /\ sess' = [s EXCEPT !.pc = "idle", !.goal = None, !.stop = "none",
                              !.willRetry = FALSE]
          /\ UNCHANGED queues

\* checkCompaction: the answer says the context is too long (once until one goes well), or
\* the context has grown over the threshold.
Overflow(s, stop) ==
    /\ stop = "error" /\ ~s.recovered
    /\ transcript' = WithoutAnswer(transcript)
    /\ run' = NoRun
    /\ sess' = [s EXCEPT !.pc = "compacting", !.willRetry = TRUE, !.recovered = TRUE]
    /\ UNCHANGED queues

Threshold(s) ==
    /\ run' = NoRun
    /\ sess' = [s EXCEPT !.pc = "compacting", !.willRetry = FALSE]
    /\ UNCHANGED <<transcript, queues>>

\* prompt() while nothing runs: a compaction may be due first, by an answer that is not
\* older than the last one (it counts with the prompt).
Prompt(p) ==
    /\ sess.pc = "idle" /\ told[p] = "nothing"
    /\ told' = [told EXCEPT ![p] = "given"]
    /\ LET s == [sess EXCEPT !.goal = p]
           answers == {i \in DOMAIN transcript : transcript[i].by = "assistant"} IN
       \/ Settle(s, transcript)
       \/ /\ answers # {} /\ Max(answers) > sess.boundary
          /\ Overflow(s, transcript[Max(answers)].what) \/ Threshold(s)
    /\ Spend("events", MaxEvents)
    /\ UNCHANGED <<saved, written, gone, unheard, given>>

\* handlePostAgentRun: the session waits and retries, compacts, or is done.
AfterRun ==
    /\ run.pc \in {"ended", "failed"}
    /\ LET s == IF sess.stop = "error" THEN [sess EXCEPT !.retries = 0] ELSE sess IN
       \/ /\ sess.stop = "error" /\ sess.retries < MaxRetries
          /\ transcript' = WithoutAnswer(transcript)
          /\ run' = NoRun
          /\ sess' = [sess EXCEPT !.pc = "backoff", !.retries = @ + 1]
          /\ UNCHANGED <<queues, spent>>
       \/ /\ sess.stop # "aborted"
          /\ Overflow(s, sess.stop) \/ Threshold(s)
          /\ Spend("events", MaxEvents)
       \/ Settle(s, transcript) /\ UNCHANGED spent
    /\ UNCHANGED <<saved, written, told, gone, unheard, given>>

\* prepareRetry: the delay is over.
SleepOver ==
    /\ sess.pc = "backoff"
    /\ Continue(sess, transcript)
    /\ UNCHANGED <<saved, written, told, history>>

\* runAutoCompaction: what the agent knows is read back from the file, without the error
\* that led to the compaction; or the compaction fails, or is aborted.
CompactionEnds(ok) ==
    /\ sess.pc = "compacting"
    /\ LET t == IF sess.willRetry /\ IsAnswer(saved) /\ Last(saved).what = "error"
                THEN Front(saved) ELSE saved
           s == [sess EXCEPT !.boundary = Len(t)] IN
       CASE ~ok -> Settle(sess, transcript)
         [] ok /\ (sess.willRetry \/ steering \o followUps # <<>>) -> Continue(s, t)
         [] OTHER -> Settle(s, t)
    /\ UNCHANGED <<saved, written, told, history>>

\* abort(): the signal of the run, or the wait before a retry, which then ends as a run
\* that is not retried (a compaction may follow: here it counts with the abort).
Abort ==
    /\ Spend("events", MaxEvents)
    /\ \/ /\ run.pc # "none" /\ ~run.aborted
          /\ run' = [run EXCEPT !.aborted = TRUE]
          /\ UNCHANGED <<transcript, queues, sess>>
       \/ /\ sess.pc = "backoff"
          /\ LET s == [sess EXCEPT !.retries = 0] IN
             Settle(s, transcript) \/ Threshold(s)
    /\ UNCHANGED <<saved, written, told, gone, unheard, given>>

-----------------------------------------------------------------------------
Loop ==
    \/ Commit \/ FirstPoll \/ BatchOver \/ PollSteering \/ PollFollowUps
    \/ \E stop \in {"stop", "toolUse", "error", "aborted"}, n \in 0..MaxCalls : Respond(stop, n)
    \/ \E i \in 1..MaxCalls : BeginCall(i) \/ EndTool(i) \/ CommitResult(i)
    \/ RecordFailure

Session ==
    \/ AfterRun \/ SleepOver
    \/ \E ok \in BOOLEAN : CompactionEnds(ok)

Next ==
    \/ \E m \in Steers : Steer(m)
    \/ \E m \in FollowUps : FollowUp(m)
    \/ \E m \in Waiters : GiveUp(m)
    \/ \E p \in Prompts : Prompt(p)
    \/ Throw \/ RejectRun \/ Abort
    \/ Loop \/ Session

\* Requests are answered, tools end and timers fire.
Spec == Init /\ [][Next]_vars /\ WF_vars(Loop) /\ WF_vars(Session)

-----------------------------------------------------------------------------
(* Properties *)

Times(m, q) == Cardinality({i \in DOMAIN q : q[i] = m})

\* Steering message m was given before n.
GivenBefore(m, n) == \E k, l \in DOMAIN given : k < l /\ given[k] = m /\ given[l] = n

\* A message that was steered or queued as a follow-up is in one place: its queue, the
\* hands of the loop, the transcript, or it is gone for a known reason (its caller gave up
\* while it was queued, or it was in the hands of a run that failed).  It is never there
\* twice, after polls in either mode, failures, retries and compactions; and steering
\* messages enter the transcript in the order they were given.  A message the session did
\* not hear of, as a listener threw, may be forgotten by a compaction.
EveryMessageOnce ==
    /\ \A m \in Steers \cup FollowUps : told[m] # "nothing" =>
          LET n == Times(m, steering) + Times(m, followUps) + Times(m, run.pending)
                   + Times(Said(m), transcript) + (IF m \in gone THEN 1 ELSE 0)
          IN  n = 1 \/ (n = 0 /\ m \in unheard)
    /\ \A i, j \in DOMAIN transcript : \A m, n \in Steers :
          i < j /\ transcript[i] = Said(m) /\ transcript[j] = Said(n) => GivenBefore(m, n)

\* The model is asked with all that the transcript holds, whatever was steered, retried or
\* compacted before: the context of the loop and the transcript of the agent are kept
\* apart and filled by different code.  And unless the run is aborted, each tool call of
\* its answers has its result, right after the answer and in the order of the calls.
AskedWithWholeTranscript ==
    run.pc = "request" =>
        /\ run.context = transcript
        /\ ~run.aborted =>
              \A i \in (run.base + 1)..Len(transcript) : transcript[i].by = "assistant" =>
                  \A n \in 1..transcript[i].n :
                      i + n <= Len(transcript) /\ transcript[i + n] = Result(n)

\* steerAndWaitForTranscriptCommit tells the truth: a message reported as committed is
\* saved, and in the file when there is one, unless a listener or the write threw after
\* its caller was told (agent-session.ts:585-608); one reported as not committed is not
\* there and never gets there, unless the loop had taken it before its caller gave up;
\* and no caller is left waiting for a message that is saved.
HonestAnswers ==
    \A m \in Waiters :
        /\ told[m] = "committed" => \/ m \in unheard
                                   \/ \E i \in DOMAIN saved :
                                         saved[i] = Said(m) /\ (written = {} \/ i \in written)
        /\ told[m] = "rejected" => m \in unheard \/ (m \in gone /\ m \notin Range(steering))
        /\ told[m] = "waiting" => Said(m) \notin Range(saved)

\* When a prompt has ended well, no message is left in a queue but those given after the
\* loop had looked into it for the last time: every earlier one was answered.
NothingLeftBehind ==
    sess.pc = "idle" /\ sess.stop \in {"stop", "toolUse"} =>
        Range(steering \o followUps) \subseteq sess.late

\* prompt() returns: no order of tool calls, aborts, failures, retries and compactions
\* leaves the loop or the session waiting for something that does not come; so the session
\* is idle again and again.
PromptReturns == []<>(sess.pc = "idle")
=============================================================================
