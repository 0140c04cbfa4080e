-------------------------- MODULE AgentSessionProofs --------------------------
(***************************************************************************)
(* Proofs about the agent session, for any messages, any number of tool     *)
(* calls, answers and retries, and any sequence of failures, aborts and     *)
(* compactions.                                                             *)
(***************************************************************************)
EXTENDS AgentSession, SequenceTheorems, FiniteSetTheorems, WellFoundedInduction, TLAPS

Pcs == {"none", "prompts", "inject", "request", "tools", "turnEnd", "followUps"} \cup Over

Stops == {"stop", "toolUse", "error", "aborted"}

CallStates == {"new", "ready", "ended", "answered", "skipped"}

Entries ==
    {Said(m) : m \in Messages} \cup {Answer(stop, n) : stop \in Stops, n \in Nat}
        \cup {Result(i) : i \in Nat}

RunType ==
    [pc : Pcs, context : Seq(Entries), base : Nat, pending : Seq(Messages), skip : BOOLEAN,
     more : BOOLEAN, aborted : BOOLEAN, calls : Seq(CallStates), parallel : BOOLEAN]

SessionType ==
    [pc : {"idle", "running", "backoff", "compacting"}, goal : Prompts \cup {None},
     stop : {"none"} \cup Stops, willRetry : BOOLEAN, retries : Nat, recovered : BOOLEAN,
     boundary : Nat, late : SUBSET Messages]

TypeOK ==
    /\ transcript \in Seq(Entries) /\ saved \in Seq(Entries) /\ written \subseteq Nat
    /\ steering \in Seq(Steers) /\ followUps \in Seq(FollowUps)
    /\ mode \in {"one-at-a-time", "all"}
    /\ run \in RunType
    /\ sess \in SessionType
    /\ told \in [Messages -> {"nothing", "given", "waiting", "committed", "rejected"}]
    /\ gone \subseteq Messages /\ unheard \subseteq Messages
    /\ given \in Seq(Steers)
    /\ spent \in [tools : Nat, events : Nat]

\* Between two runs there is nothing left of a run; messages are in the hands of the loop
\* only while it puts them in.
Alternate ==
    /\ sess.pc = "running" <=> run.pc # "none"
    /\ run.pc = "none" => run = NoRun
    /\ run.pc \notin {"prompts", "inject"} => run.pending = <<>>
    /\ run.pc = "inject" => run.pending # <<>>

-----------------------------------------------------------------------------
(* Types *)

\* The three kinds of entries.
LEMMA EntryTypes ==
    /\ \A m \in Messages : Said(m) \in Entries
    /\ \A stop \in Stops, n \in Nat : Answer(stop, n) \in Entries
    /\ \A i \in Nat : Result(i) \in Entries
BY DEF Entries

\* The messages are of three kinds, and a message is not of two kinds.
LEMMA Kinds ==
    /\ Waiters \subseteq Steers /\ Steers \subseteq Messages /\ FollowUps \subseteq Messages
    /\ Prompts \subseteq Messages
    /\ Prompts \cap Steers = {} /\ Prompts \cap FollowUps = {} /\ Steers \cap FollowUps = {}
    /\ None \notin Prompts
<1>1. /\ Prompts \cap Steers \in {{}} /\ Prompts \cap FollowUps \in {{}}
      /\ Steers \cap FollowUps \in {{}}
  BY AgentSessionAssumption DEF AgentSessionAssumption
<1>2. Waiters \subseteq Steers /\ None \notin Prompts
  BY AgentSessionAssumption DEF AgentSessionAssumption
<1> QED BY <1>1, <1>2 DEF Messages

\* The bounds are numbers.
LEMMA Bounds == MaxCalls \in Nat /\ MaxToolTurns \in Nat /\ MaxRetries \in Nat /\ MaxEvents \in Nat
BY AgentSessionAssumption DEF AgentSessionAssumption

\* All the messages of a sequence, as entries.
LEMMA AllSaidType ==
    ASSUME NEW ms \in Seq(Messages)
    PROVE  /\ AllSaid(ms) \in Seq(Entries) /\ Len(AllSaid(ms)) = Len(ms)
           /\ \A i \in 1..Len(ms) : AllSaid(ms)[i] = Said(ms[i])
<1>1. DOMAIN ms = 1..Len(ms) /\ Len(ms) \in Nat /\ \A i \in 1..Len(ms) : ms[i] \in Messages
  OBVIOUS
<1>2. AllSaid(ms) \in [1..Len(ms) -> Entries]
  BY <1>1, EntryTypes DEF AllSaid
<1>3. AllSaid(ms) \in Seq(Entries)
  BY <1>1, <1>2
<1> QED BY <1>1, <1>2, <1>3 DEF AllSaid

\* What a drain gives and leaves, whatever the mode.
LEMMA DrainType ==
    ASSUME NEW S, NEW q \in Seq(S), NEW m
    PROVE  /\ Drained(q, m) \in Seq(S) /\ LeftIn(q, m) \in Seq(S)
           /\ Drained(q, m) = <<>> <=> q = <<>>
           /\ \/ Drained(q, m) = q /\ LeftIn(q, m) = <<>>
              \/ q # <<>> /\ Drained(q, m) = <<Head(q)>> /\ LeftIn(q, m) = Tail(q)
<1>1. CASE m = "all" \/ q = <<>>
  BY <1>1 DEF Drained, LeftIn
<1>2. CASE m # "all" /\ q # <<>>
  <2>1. Head(q) \in S /\ Tail(q) \in Seq(S)
    BY <1>2
  <2>2. Drained(q, m) = <<Head(q)>> /\ LeftIn(q, m) = Tail(q)
    BY <1>2 DEF Drained, LeftIn
  <2> QED BY <1>2, <2>1, <2>2
<1> QED BY <1>1, <1>2

\* A transcript without its last entry.
LEMMA FrontType ==
    ASSUME NEW S, NEW t \in Seq(S), t # <<>>
    PROVE  /\ Front(t) \in Seq(S) /\ Len(Front(t)) = Len(t) - 1
           /\ \A i \in 1..Len(t) - 1 : Front(t)[i] = t[i]
<1>1. Len(t) \in Nat \ {0}
  BY EmptySeq
<1> DEFINE n == Len(t) - 1
<1>2. n \in Nat /\ 1 \in Int /\ n \in Int /\ \A i \in 1..n : t[i] \in S
  BY <1>1
<1>3. Front(t) = SubSeq(t, 1, n)
  BY DEF Front
<1> HIDE DEF n
<1>4. /\ Front(t) \in Seq(S) /\ Len(Front(t)) = n
      /\ \A i \in 1..n : Front(t)[i] = t[i]
  BY <1>2, <1>3, SubSeqProperties
<1> QED BY <1>4 DEF n

LEMMA RunTypes == NoRun \in RunType
BY EmptySeq DEF NoRun, RunType, Pcs

\* A turn begins with the messages ms.
LEMMA TurnType ==
    ASSUME run \in RunType, NEW ms \in Seq(Messages)
    PROVE  /\ Turn(ms) \in RunType /\ Turn(ms).pending = ms
           /\ Turn(ms).pc = IF ms = <<>> THEN "request" ELSE "inject"
           /\ Turn(ms).context = run.context /\ Turn(ms).base = run.base
           /\ Turn(ms).aborted = run.aborted
BY DEF Turn, RunType, Pcs

\* What is spent is counted.
LEMMA SpendType ==
    ASSUME spent \in [tools : Nat, events : Nat], NEW bound, NEW what \in {"tools", "events"},
           Spend(what, bound)
    PROVE  spent' \in [tools : Nat, events : Nat]
BY DEF Spend

-----------------------------------------------------------------------------
(* Sequences *)

\* A message is in a queue only once.
Distinct(q) == \A i, j \in DOMAIN q : q[i] = q[j] => i = j

\* m comes before n in g, where each one is once.
Before(g, m, n) == \E k, l \in DOMAIN g : k < l /\ g[k] = m /\ g[l] = n

\* What is steered is in q in the order of g.
InOrder(q, g) ==
    \A i, j \in DOMAIN q : i < j /\ q[i] \in Steers /\ q[j] \in Steers => Before(g, q[i], q[j])

LEMMA SmallestNat ==
    ASSUME NEW I \in SUBSET Nat, I # {}
    PROVE  \E i \in I : \A j \in I : i <= j
<1>1. PICK i \in I : \A j \in I : ~(<<j, i>> \in OpToRel(<, Nat))
  BY NatLessThanWellFounded, WFMin
<1>2. ASSUME NEW j \in I
      PROVE  i <= j
  <2>1. ~(j < i)
    BY <1>1 DEF OpToRel
  <2> QED BY <2>1
<1> QED BY <1>2

\* The first occurrence of m is taken out.
LEMMA RemoveFirstIndex ==
    ASSUME NEW S, NEW q \in Seq(S), NEW m, m \in Range(q)
    PROVE  \E p \in 1..Len(q) :
              /\ q[p] = m
              /\ RemoveFirst(q, m) = SubSeq(q, 1, p - 1) \o SubSeq(q, p + 1, Len(q))
<1> DEFINE I == {i \in 1..Len(q) : q[i] = m}
           p == SelectInSeq(q, LAMBDA v : v = m)
<1>1. \E i \in 1..Len(q) : q[i] = m
  BY DEF Range
<1>2. RemoveFirst(q, m) = RemoveAt(q, p)
  BY <1>1 DEF RemoveFirst
<1>3. p = Min(I)
  BY <1>1 DEF SelectInSeq
<1>4. PICK i \in I : \A j \in I : i <= j
  <2>1. I \in SUBSET Nat /\ I # {}
    BY <1>1
  <2> HIDE DEF I
  <2> QED BY <2>1, SmallestNat
<1>5. Min(I) \in I
  BY <1>4 DEF Min
<1>6. p \in 1..Len(q) /\ q[p] = m
  BY <1>3, <1>5
<1> HIDE DEF p
<1> QED BY <1>2, <1>6 DEF RemoveAt

LEMMA RemoveFirstProperties ==
    ASSUME NEW S, NEW q \in Seq(S), NEW m
    PROVE  RemoveFirst(q, m) \in Seq(S)
<1>1. CASE m \in Range(q)
  <2>1. PICK p \in 1..Len(q) :
           RemoveFirst(q, m) = SubSeq(q, 1, p - 1) \o SubSeq(q, p + 1, Len(q))
    BY <1>1, RemoveFirstIndex
  <2>2. SubSeq(q, 1, p - 1) \in Seq(S) /\ SubSeq(q, p + 1, Len(q)) \in Seq(S)
    BY SubSeqProperties
  <2> QED BY <2>1, <2>2, ConcatProperties
<1>2. CASE m \notin Range(q)
  BY <1>2 DEF RemoveFirst, Range
<1> QED BY <1>1, <1>2

-----------------------------------------------------------------------------
(* Steps between runs *)

\* A step between runs goes on with transcript t: no run, or one that begins with the
\* prompt, with nothing, or with what a queue gave.  The session keeps what it knows of the
\* last answer, forgets it, or has a run again.
Between(t) ==
    /\ transcript' = t
    /\ sess' \in SessionType
    /\ \/ /\ run' = NoRun /\ sess'.pc # "running" /\ UNCHANGED queues
          /\ sess'.stop = "none" \/ (sess'.stop = sess.stop /\ sess'.late = sess.late)
       \/ /\ sess'.pc = "running"
          /\ \/ \E p \in Prompts : run' = Begun(t, <<p>>, FALSE) /\ UNCHANGED queues
             \/ run' = Begun(t, <<>>, FALSE) /\ UNCHANGED queues
             \/ \E ms : DrainSteering(ms) /\ run' = Begun(t, ms, TRUE)
             \/ \E ms : DrainFollowUps(ms) /\ run' = Begun(t, ms, FALSE)

\* What it may go on with.
Transcripts == {transcript, saved, WithoutAnswer(transcript), WithoutAnswer(saved)}

\* A step of the session is one between runs.
SessionStep ==
    /\ run.pc \in {"none", "ended", "failed"}
    /\ \E t \in Transcripts : Between(t)
    /\ UNCHANGED <<saved, written, gone, unheard, given>>
    /\ told' \in [Messages -> {"nothing", "given", "waiting", "committed", "rejected"}]
    /\ \A m \in Steers \cup FollowUps : told'[m] = told[m]
    /\ spent' \in [tools : Nat, events : Nat]

\* The session has a run again.
LEMMA RunningType ==
    ASSUME NEW s \in SessionType
    PROVE  /\ Running(s) \in SessionType /\ Running(s).pc = "running"
           /\ [Running(s) EXCEPT !.goal = None] \in SessionType
           /\ [Running(s) EXCEPT !.goal = None].pc = "running"
BY DEF Running, SessionType

LEMMA SettleBetween ==
    ASSUME NEW s \in SessionType, NEW t, Settle(s, t), s.stop = sess.stop, s.late = sess.late
    PROVE  Between(t)
<1>1. CASE s.goal = None
  <2>1. /\ transcript' = t /\ run' = NoRun /\ UNCHANGED queues
        /\ sess' = [s EXCEPT !.pc = "idle", !.willRetry = FALSE]
    BY <1>1 DEF Settle
  <2>2. /\ sess' \in SessionType /\ sess'.pc = "idle"
        /\ sess'.stop = s.stop /\ sess'.late = s.late
    BY <2>1 DEF SessionType
  <2> QED BY <2>1, <2>2 DEF Between
<1>2. CASE s.goal # None
  <2>1. s.goal \in Prompts
    BY <1>2 DEF SessionType
  <2>2. sess' \in SessionType /\ sess'.pc = "running"
    BY <1>2, RunningType DEF Settle
  <2>3. transcript' = t /\ run' = Begun(t, <<s.goal>>, FALSE) /\ UNCHANGED queues
    BY <1>2 DEF Settle
  <2> QED BY <2>1, <2>2, <2>3 DEF Between
<1> QED BY <1>1, <1>2

LEMMA ContinueBetween ==
    ASSUME NEW s \in SessionType, NEW t, Continue(s, t)
    PROVE  Between(t)
<1>1. transcript' = t
  BY DEF Continue
<1>2. CASE /\ run' = Begun(t, <<>>, FALSE) /\ sess' = Running(s) /\ UNCHANGED queues
  BY <1>1, <1>2, RunningType DEF Between
<1>3. CASE /\ \E ms \in {Drained(steering, mode)} : DrainSteering(ms) /\ run' = Begun(t, ms, TRUE)
           /\ sess' = Running(s)
  BY <1>1, <1>3, RunningType DEF Between
<1>4. CASE /\ \E ms \in {Drained(followUps, "one-at-a-time")} :
                 DrainFollowUps(ms) /\ run' = Begun(t, ms, FALSE)
           /\ sess' = Running(s)
  BY <1>1, <1>4, RunningType DEF Between
<1>5. CASE /\ run' = NoRun /\ UNCHANGED queues
           /\ sess' = [s EXCEPT !.pc = "idle", !.goal = None, !.stop = "none",
                               !.willRetry = FALSE]
  <2>1. sess' \in SessionType /\ sess'.pc = "idle" /\ sess'.stop = "none"
    BY <1>5 DEF SessionType
  <2> QED BY <1>1, <1>5, <2>1 DEF Between
<1> QED BY <1>2, <1>3, <1>4, <1>5 DEF Continue

LEMMA CompactBetween ==
    ASSUME NEW s \in SessionType, NEW stop, Overflow(s, stop) \/ Threshold(s),
           s.stop = sess.stop, s.late = sess.late
    PROVE  \E t \in Transcripts : Between(t)
<1>1. CASE Overflow(s, stop)
  <2>1. sess' \in SessionType /\ sess'.pc = "compacting" /\ sess'.stop = sess.stop
        /\ sess'.late = sess.late
    BY <1>1 DEF Overflow, SessionType
  <2>2. Between(WithoutAnswer(transcript))
    BY <1>1, <2>1 DEF Overflow, Between
  <2> QED BY <2>2 DEF Transcripts
<1>2. CASE Threshold(s)
  <2>1. sess' \in SessionType /\ sess'.pc = "compacting" /\ sess'.stop = sess.stop
        /\ sess'.late = sess.late
    BY <1>2 DEF Threshold, SessionType
  <2>2. Between(transcript)
    BY <1>2, <2>1 DEF Threshold, Between
  <2> QED BY <2>2 DEF Transcripts
<1> QED BY <1>1, <1>2

LEMMA PromptBetween ==
    ASSUME TypeOK, Alternate, NEW p \in Prompts, Prompt(p)
    PROVE  SessionStep
<1> DEFINE s == [sess EXCEPT !.goal = p]
           answers == {i \in DOMAIN transcript : transcript[i].by = "assistant"}
<1>1. s \in SessionType /\ s.stop = sess.stop /\ s.late = sess.late
  BY DEF TypeOK, SessionType
<1>2. \/ Settle(s, transcript)
      \/ Overflow(s, transcript[Max(answers)].what) \/ Threshold(s)
  BY DEF Prompt
<1> HIDE DEF s, answers
<1>3. \E t \in Transcripts : Between(t)
  BY <1>1, <1>2, SettleBetween, CompactBetween DEF Transcripts
<1>4. run.pc = "none"
  BY DEF Prompt, Alternate
<1>5. UNCHANGED <<saved, written, gone, unheard, given>> /\ told' = [told EXCEPT ![p] = "given"]
  BY DEF Prompt
<1>6. \A m \in Steers \cup FollowUps : told'[m] = told[m]
  BY <1>5, Kinds DEF TypeOK
<1>7. told' \in [Messages -> {"nothing", "given", "waiting", "committed", "rejected"}]
  BY <1>5 DEF TypeOK
<1>8. spent' \in [tools : Nat, events : Nat]
  BY SpendType DEF Prompt, TypeOK
<1> QED BY <1>3, <1>4, <1>5, <1>6, <1>7, <1>8 DEF SessionStep

LEMMA AfterRunBetween ==
    ASSUME TypeOK, Alternate, AfterRun
    PROVE  SessionStep
<1> DEFINE s == IF sess.stop = "error" THEN [sess EXCEPT !.retries = 0] ELSE sess
<1>1. s \in SessionType /\ s.stop = sess.stop /\ s.late = sess.late
  BY DEF TypeOK, SessionType
<1>2. /\ run.pc \in {"ended", "failed"} /\ UNCHANGED <<saved, written, told, gone, unheard, given>>
      /\ \/ /\ transcript' = WithoutAnswer(transcript) /\ run' = NoRun
            /\ sess' = [sess EXCEPT !.pc = "backoff", !.retries = @ + 1]
            /\ UNCHANGED <<queues, spent>>
         \/ (Overflow(s, sess.stop) \/ Threshold(s)) /\ Spend("events", MaxEvents)
         \/ Settle(s, transcript) /\ UNCHANGED spent
  BY DEF AfterRun
<1> HIDE DEF s
<1>3. \E t \in Transcripts : Between(t)
  <2>1. CASE /\ transcript' = WithoutAnswer(transcript) /\ run' = NoRun
             /\ sess' = [sess EXCEPT !.pc = "backoff", !.retries = @ + 1]
             /\ UNCHANGED <<queues, spent>>
    <3>1. sess' \in SessionType /\ sess'.pc = "backoff" /\ sess'.stop = sess.stop
          /\ sess'.late = sess.late
      <4>1. sess \in SessionType /\ sess.retries \in Nat /\ sess.retries + 1 \in Nat
        BY DEF TypeOK, SessionType
      <4> QED BY <2>1, <4>1 DEF SessionType
    <3> QED BY <2>1, <3>1 DEF Between, Transcripts
  <2>2. CASE Overflow(s, sess.stop) \/ Threshold(s)
    BY <1>1, <2>2, CompactBetween
  <2>3. CASE Settle(s, transcript)
    BY <1>1, <2>3, SettleBetween DEF Transcripts
  <2> QED BY <1>2, <2>1, <2>2, <2>3
<1>4. spent' \in [tools : Nat, events : Nat]
  BY <1>2, SpendType DEF TypeOK
<1> QED BY <1>2, <1>3, <1>4 DEF SessionStep, TypeOK

LEMMA SleepOverBetween ==
    ASSUME TypeOK, Alternate, SleepOver
    PROVE  SessionStep
<1>1. \E t \in Transcripts : Between(t)
  BY ContinueBetween DEF SleepOver, Transcripts, TypeOK
<1>2. run.pc = "none" /\ UNCHANGED <<saved, written, told, history>>
  BY DEF SleepOver, Alternate
<1> QED BY <1>1, <1>2 DEF SessionStep, TypeOK, history

LEMMA CompactionEndsBetween ==
    ASSUME TypeOK, Alternate, NEW ok \in BOOLEAN, CompactionEnds(ok)
    PROVE  SessionStep
<1> DEFINE t == IF sess.willRetry /\ IsAnswer(saved) /\ Last(saved).what = "error"
                THEN Front(saved) ELSE saved
           s == [sess EXCEPT !.boundary = Len(t)]
<1>1. t \in Transcripts
  BY DEF Transcripts, WithoutAnswer
<1>2. Len(t) \in Nat
  <2>1. IsAnswer(saved) => Front(saved) \in Seq(Entries)
    BY FrontType DEF IsAnswer, TypeOK
  <2> QED BY <2>1 DEF TypeOK
<1>3. Settle(sess, transcript) \/ Continue(s, t) \/ Settle(s, t)
  BY DEF CompactionEnds
<1> HIDE DEF t
<1>4. s \in SessionType /\ s.stop = sess.stop /\ s.late = sess.late
  BY <1>2 DEF TypeOK, SessionType
<1>5. sess \in SessionType
  BY DEF TypeOK
<1> HIDE DEF s
<1>6. \E u \in Transcripts : Between(u)
  BY <1>1, <1>3, <1>4, <1>5, SettleBetween, ContinueBetween DEF Transcripts
<1>7. run.pc = "none" /\ UNCHANGED <<saved, written, told, history>>
  BY DEF CompactionEnds, Alternate
<1> QED BY <1>6, <1>7 DEF SessionStep, TypeOK, history

LEMMA AbortBetween ==
    ASSUME TypeOK, Alternate, Abort
    PROVE  \/ SessionStep
           \/ /\ run.pc # "none" /\ run' = [run EXCEPT !.aborted = TRUE]
              /\ UNCHANGED <<books, queues, sess, told, gone, unheard, given>>
<1> DEFINE s == [sess EXCEPT !.retries = 0]
<1>1. CASE /\ run.pc # "none" /\ run' = [run EXCEPT !.aborted = TRUE]
           /\ UNCHANGED <<transcript, queues, sess>>
  BY <1>1 DEF Abort, books
<1>2. CASE sess.pc = "backoff" /\ (Settle(s, transcript) \/ Threshold(s))
  <2>1. s \in SessionType /\ s.stop = sess.stop /\ s.late = sess.late
    BY DEF TypeOK, SessionType
  <2> HIDE DEF s
  <2>2. \E t \in Transcripts : Between(t)
    BY <1>2, <2>1, SettleBetween, CompactBetween DEF Transcripts
  <2>3. run.pc = "none"
    BY <1>2 DEF Alternate
  <2>4. UNCHANGED <<saved, written, told, gone, unheard, given>>
    BY DEF Abort
  <2>5. spent' \in [tools : Nat, events : Nat]
    BY SpendType DEF Abort, TypeOK
  <2> QED BY <2>2, <2>3, <2>4, <2>5 DEF SessionStep, TypeOK
<1> QED BY <1>1, <1>2 DEF Abort

-----------------------------------------------------------------------------
(* Type correctness *)

LEMMA WithoutAnswerType ==
    ASSUME NEW t \in Seq(Entries)
    PROVE  WithoutAnswer(t) \in Seq(Entries)
BY FrontType DEF WithoutAnswer, IsAnswer

LEMMA TranscriptTypes ==
    ASSUME TypeOK, NEW t \in Transcripts
    PROVE  t \in Seq(Entries)
BY WithoutAnswerType DEF Transcripts, TypeOK

\* What the queues give is typed, and what they keep.
LEMMA DrainSteeringType ==
    ASSUME TypeOK, NEW ms, DrainSteering(ms)
    PROVE  /\ ms \in Seq(Messages) /\ steering' \in Seq(Steers)
           /\ followUps' = followUps /\ mode' = mode
<1>1. ms \in Seq(Steers) /\ steering' \in Seq(Steers)
  BY DrainType DEF DrainSteering, TypeOK
<1> QED BY <1>1, Kinds, SeqMonotonic DEF DrainSteering

LEMMA DrainFollowUpsType ==
    ASSUME TypeOK, NEW ms, DrainFollowUps(ms)
    PROVE  /\ ms \in Seq(Messages) /\ followUps' \in Seq(FollowUps)
           /\ steering' = steering /\ mode' = mode
<1>1. ms \in Seq(FollowUps) /\ followUps' \in Seq(FollowUps)
  BY DrainType DEF DrainFollowUps, TypeOK
<1> QED BY <1>1, Kinds, SeqMonotonic DEF DrainFollowUps

\* A run that begins.
LEMMA BegunParts ==
    ASSUME NEW t \in Seq(Entries), NEW ms \in Seq(Messages), NEW skip \in BOOLEAN
    PROVE  /\ Begun(t, ms, skip) \in RunType
           /\ Begun(t, ms, skip).pc = "prompts" /\ Begun(t, ms, skip).pending = ms
           /\ Begun(t, ms, skip).context = t \o AllSaid(ms)
           /\ Begun(t, ms, skip).base = Len(t) /\ Begun(t, ms, skip).aborted = FALSE
<1>1. t \o AllSaid(ms) \in Seq(Entries) /\ Len(t) \in Nat
  BY AllSaidType
<1> QED BY <1>1, RunTypes DEF Begun, NoRun, RunType, Pcs

LEMMA BegunPossible ==
    ASSUME TypeOK, NEW t \in Seq(Entries), Between(t), run' # NoRun \/ sess'.pc = "running"
    PROVE  \E ms \in Seq(Messages), skip \in BOOLEAN :
              /\ run' = Begun(t, ms, skip) /\ sess'.pc = "running"
              /\ \/ UNCHANGED queues /\ ms \in {<<>>} \cup {<<p>> : p \in Prompts}
                 \/ DrainSteering(ms) \/ DrainFollowUps(ms)
<1>1. <<>> \in Seq(Messages) /\ \A p \in Prompts : <<p>> \in Seq(Messages)
  BY Kinds
<1>2. \A ms : DrainSteering(ms) \/ DrainFollowUps(ms) => ms \in Seq(Messages)
  BY DrainSteeringType, DrainFollowUpsType
<1> QED BY <1>1, <1>2 DEF Between

LEMMA SessionStepTypes ==
    ASSUME TypeOK, Alternate, SessionStep
    PROVE  TypeOK' /\ Alternate'
<1> PICK t \in Transcripts : Between(t)
  BY DEF SessionStep
<1>1. t \in Seq(Entries)
  BY TranscriptTypes
<1>2. /\ run' \in RunType /\ steering' \in Seq(Steers) /\ followUps' \in Seq(FollowUps)
      /\ mode' \in {"one-at-a-time", "all"}
      /\ \/ run' = NoRun /\ sess'.pc # "running"
         \/ run'.pc = "prompts" /\ sess'.pc = "running"
  <2>1. CASE run' = NoRun /\ sess'.pc # "running" /\ UNCHANGED queues
    BY <2>1, RunTypes DEF TypeOK, queues
  <2>2. CASE run' # NoRun \/ sess'.pc = "running"
    <3>1. PICK ms \in Seq(Messages), skip \in BOOLEAN :
              /\ run' = Begun(t, ms, skip) /\ sess'.pc = "running"
              /\ \/ UNCHANGED queues
                 \/ DrainSteering(ms) \/ DrainFollowUps(ms)
      BY <1>1, <2>2, BegunPossible
    <3>2. run' \in RunType /\ run'.pc = "prompts"
      BY <1>1, <3>1, BegunParts
    <3>3. /\ steering' \in Seq(Steers) /\ followUps' \in Seq(FollowUps)
          /\ mode' \in {"one-at-a-time", "all"}
      BY <3>1, DrainSteeringType, DrainFollowUpsType DEF TypeOK, queues
    <3> QED BY <3>1, <3>2, <3>3
  <2> QED BY <2>1, <2>2 DEF Between
<1>3. transcript' = t /\ sess' \in SessionType
  BY DEF Between
<1>4. TypeOK'
  BY <1>1, <1>2, <1>3 DEF SessionStep, TypeOK
<1>5. Alternate'
  <2>1. NoRun.pc = "none" /\ NoRun.pending = <<>>
    BY DEF NoRun
  <2>2. CASE run' = NoRun /\ sess'.pc # "running"
    BY <2>1, <2>2 DEF Alternate
  <2>3. CASE run'.pc = "prompts" /\ sess'.pc = "running"
    BY <2>3 DEF Alternate
  <2> QED BY <1>2, <2>2, <2>3
<1> QED BY <1>4, <1>5

\* Giving messages.
LEMMA GivingTypes ==
    ASSUME TypeOK, Alternate,
           \/ \E m \in Steers : Steer(m)
           \/ \E m \in FollowUps : FollowUp(m)
           \/ \E m \in Waiters : GiveUp(m)
    PROVE  TypeOK' /\ Alternate'
<1>1. ASSUME NEW m \in Steers, Steer(m)
      PROVE  TypeOK' /\ Alternate'
  <2>1. m \in Messages
    BY Kinds
  <2>2. sess' \in SessionType /\ sess'.pc = sess.pc
    <3>1. [sess EXCEPT !.late = @ \cup {m}] \in SessionType
      BY <2>1 DEF TypeOK, SessionType
    <3> QED BY <1>1, <3>1 DEF Steer, TypeOK, SessionType
  <2>3. told' \in [Messages -> {"nothing", "given", "waiting", "committed", "rejected"}]
    BY <1>1 DEF Steer, TypeOK
  <2>4. spent' \in [tools : Nat, events : Nat]
    BY <1>1, SpendType DEF Steer, TypeOK
  <2>5. steering' \in Seq(Steers) /\ given' \in Seq(Steers) /\ mode' \in {"one-at-a-time", "all"}
    BY <1>1, AppendProperties DEF Steer, TypeOK
  <2>6. UNCHANGED <<transcript, saved, written, followUps, run, gone, unheard>>
    BY <1>1 DEF Steer, books
  <2> QED BY <2>2, <2>3, <2>4, <2>5, <2>6 DEF TypeOK, Alternate
<1>2. ASSUME NEW m \in FollowUps, FollowUp(m)
      PROVE  TypeOK' /\ Alternate'
  <2>1. m \in Messages
    BY Kinds
  <2>2. sess' \in SessionType /\ sess'.pc = sess.pc
    <3>1. [sess EXCEPT !.late = @ \cup {m}] \in SessionType
      BY <2>1 DEF TypeOK, SessionType
    <3> QED BY <1>2, <3>1 DEF FollowUp, TypeOK, SessionType
  <2>3. told' \in [Messages -> {"nothing", "given", "waiting", "committed", "rejected"}]
    BY <1>2 DEF FollowUp, TypeOK
  <2>4. spent' \in [tools : Nat, events : Nat]
    BY <1>2, SpendType DEF FollowUp, TypeOK
  <2>5. followUps' \in Seq(FollowUps)
    BY <1>2, AppendProperties DEF FollowUp, TypeOK
  <2>6. UNCHANGED <<transcript, saved, written, steering, mode, run, gone, unheard, given>>
    BY <1>2 DEF FollowUp, books
  <2> QED BY <2>2, <2>3, <2>4, <2>5, <2>6 DEF TypeOK, Alternate
<1>3. ASSUME NEW m \in Waiters, GiveUp(m)
      PROVE  TypeOK' /\ Alternate'
  <2>1. m \in Messages /\ m \in Steers
    BY Kinds
  <2>2. told' \in [Messages -> {"nothing", "given", "waiting", "committed", "rejected"}]
    BY <1>3 DEF GiveUp, TypeOK
  <2>3. steering' \in Seq(Steers)
    BY <1>3, <2>1, RemoveFirstProperties DEF GiveUp, TypeOK
  <2>4. gone' \subseteq Messages /\ unheard' \subseteq Messages
    BY <1>3, <2>1 DEF GiveUp, TypeOK
  <2>5. UNCHANGED <<transcript, saved, written, followUps, mode, run, sess, given, spent>>
    BY <1>3 DEF GiveUp, books
  <2> QED BY <2>2, <2>3, <2>4, <2>5 DEF TypeOK, Alternate
<1> QED BY <1>1, <1>2, <1>3

\* A run that fails.
LEMMA FailTypes ==
    ASSUME TypeOK, Alternate, run.pc # "none", NEW lost \in Seq(Messages), Fail(lost)
    PROVE  /\ run' \in RunType /\ run'.pc \in {"failing", "aborting"} /\ run'.pending = <<>>
           /\ gone' \subseteq Messages
<1>1. run.aborted \in BOOLEAN
  BY DEF TypeOK, RunType
<1>2. run' \in RunType /\ run'.pc \in {"failing", "aborting"} /\ run'.pending = <<>>
  BY <1>1, RunTypes DEF Fail, RunType, NoRun, Pcs, Over
<1>3. Range(lost) \subseteq Messages
  BY RangeOfSeq
<1> QED BY <1>2, <1>3 DEF Fail, TypeOK

\* What is recorded is typed.
LEMMA RecordTypes ==
    ASSUME TypeOK, NEW e \in Entries, Record(e) \/ RecordThrows(e)
    PROVE  transcript' \in Seq(Entries) /\ saved' \in Seq(Entries) /\ written' \subseteq Nat
<1>1. Append(transcript, e) \in Seq(Entries) /\ Append(saved, e) \in Seq(Entries)
  BY AppendProperties DEF TypeOK
<1>2. transcript' \in Seq(Entries) /\ saved' \in Seq(Entries)
  BY <1>1 DEF TypeOK, Record, RecordThrows
<1>3. DOMAIN saved' = 1..Len(saved') /\ Len(saved') \in Nat
  BY <1>2
<1>4. \A s : Persisted(s) \in {written, DOMAIN s, written \cup {Len(s)}}
  BY DEF Persisted
<1>5. written' \in {written, DOMAIN saved', written \cup {Len(saved')}}
  BY <1>4 DEF Record, RecordThrows
<1>6. written' \subseteq Nat
  BY <1>3, <1>5 DEF TypeOK
<1> QED BY <1>2, <1>6

LEMMA CommitTypes ==
    ASSUME TypeOK, Alternate, Commit
    PROVE  TypeOK' /\ Alternate'
<1> DEFINE m == Head(run.pending)
<1>1. run \in RunType /\ sess \in SessionType /\ run.pc \in {"prompts", "inject"}
      /\ run.pending \in Seq(Messages) /\ run.pending # <<>> /\ sess' = [sess EXCEPT !.recovered = FALSE]
      /\ UNCHANGED <<steering, followUps, mode>>
  BY DEF Commit, TypeOK, RunType, queues
<1>2. m \in Messages /\ Said(m) \in Entries /\ Tail(run.pending) \in Seq(Messages)
  BY <1>1, EntryTypes
<1>3. sess' \in SessionType /\ sess'.pc = sess.pc
  BY <1>1 DEF SessionType
<1>4. CASE /\ Record(Said(m))
           /\ told' = TellCommitted(m)
           /\ run' = [run EXCEPT
                 !.pending = Tail(@),
                 !.context = IF run.pc = "inject" THEN Append(@, Said(m)) ELSE @,
                 !.pc = IF @ = "inject" /\ Len(run.pending) = 1 THEN "request" ELSE @]
           /\ UNCHANGED <<history>>
  <2>1. transcript' \in Seq(Entries) /\ saved' \in Seq(Entries) /\ written' \subseteq Nat
    BY <1>2, <1>4, RecordTypes
  <2>2. run.context \in Seq(Entries) /\ Append(run.context, Said(m)) \in Seq(Entries)
    BY <1>1, <1>2, AppendProperties DEF RunType
  <2>3. /\ run' \in RunType /\ run'.pending = Tail(run.pending)
        /\ run'.pc = IF run.pc = "inject" /\ Len(run.pending) = 1 THEN "request" ELSE run.pc
    BY <1>1, <1>2, <1>4, <2>2 DEF RunType, Pcs
  <2>4. told' \in [Messages -> {"nothing", "given", "waiting", "committed", "rejected"}]
    BY <1>4 DEF TypeOK, TellCommitted
  <2>5. UNCHANGED <<gone, unheard, given, spent>>
    BY <1>4 DEF history
  <2>6. TypeOK'
    BY <1>1, <1>3, <2>1, <2>3, <2>4, <2>5 DEF TypeOK
  <2>7. Len(run.pending) = 1 <=> Tail(run.pending) = <<>>
    <3>1. Len(Tail(run.pending)) = Len(run.pending) - 1 /\ Len(run.pending) \in Nat
      BY <1>1, HeadTailProperties
    <3>2. Len(Tail(run.pending)) = 0 <=> Tail(run.pending) = <<>>
      BY <1>2, EmptySeq
    <3> QED BY <3>1, <3>2
  <2>8. Alternate'
    BY <1>1, <1>3, <2>3, <2>7 DEF Alternate
  <2> QED BY <2>6, <2>8
<1>5. CASE /\ RecordThrows(Said(m))
           /\ Fail(Tail(run.pending))
           /\ told' \in {told, TellCommitted(m)}
           /\ unheard' = unheard \cup {m}
           /\ UNCHANGED given
  <2>1. transcript' \in Seq(Entries) /\ saved' \in Seq(Entries) /\ written' \subseteq Nat
    BY <1>2, <1>5, RecordTypes
  <2>2. /\ run' \in RunType /\ run'.pc \in {"failing", "aborting"} /\ run'.pending = <<>>
        /\ gone' \subseteq Messages
    BY <1>1, <1>2, <1>5, FailTypes
  <2>3. spent' \in [tools : Nat, events : Nat]
    BY <1>5, SpendType DEF RecordThrows, TypeOK
  <2>4. told' \in [Messages -> {"nothing", "given", "waiting", "committed", "rejected"}]
    BY <1>5 DEF TypeOK, TellCommitted
  <2>5. TypeOK'
    BY <1>1, <1>2, <1>3, <1>5, <2>1, <2>2, <2>3, <2>4 DEF TypeOK
  <2>6. Alternate'
    BY <1>1, <1>3, <2>2 DEF Alternate
  <2> QED BY <2>5, <2>6
<1> QED BY <1>4, <1>5 DEF Commit

\* The loop looks into a queue.
LEMMA PollTypes ==
    ASSUME TypeOK, Alternate, FirstPoll \/ PollSteering \/ PollFollowUps
    PROVE  TypeOK' /\ Alternate'
<1>1. /\ UNCHANGED <<transcript, saved, written, sess, told, gone, unheard, given, spent>>
      /\ run.pc \in {"prompts", "turnEnd", "followUps"} /\ run.pending = <<>>
      /\ run \in RunType
  BY DEF FirstPoll, PollSteering, PollFollowUps, books, history, Alternate, TypeOK
<1>2. \E ms \in Seq(Messages) :
         /\ steering' \in Seq(Steers) /\ followUps' \in Seq(FollowUps) /\ mode' = mode
         /\ \/ run' = Turn(ms)
            \/ run' = [run EXCEPT !.pc = "followUps"]
            \/ run' = [run EXCEPT !.pc = "ended"]
  <2>1. CASE run' = Turn(<<>>) /\ UNCHANGED queues
    <3>1. <<>> \in Seq(Messages) /\ steering \in Seq(Steers) /\ followUps \in Seq(FollowUps)
      BY DEF TypeOK
    <3> QED BY <2>1, <3>1 DEF queues
  <2>2. CASE \E ms \in {Drained(steering, mode)} : DrainSteering(ms) /\ run' = Turn(ms)
    BY <2>2, DrainSteeringType DEF TypeOK
  <2>3. CASE PollSteering
    BY <2>3, DrainSteeringType DEF PollSteering, TypeOK
  <2>4. CASE PollFollowUps
    <3>1. <<>> \in Seq(Messages)
      OBVIOUS
    <3> QED BY <2>4, <3>1, DrainFollowUpsType DEF PollFollowUps, TypeOK
  <2> QED BY <2>1, <2>2, <2>3, <2>4 DEF FirstPoll
<1> PICK ms \in Seq(Messages) :
         /\ steering' \in Seq(Steers) /\ followUps' \in Seq(FollowUps) /\ mode' = mode
         /\ \/ run' = Turn(ms)
            \/ run' = [run EXCEPT !.pc = "followUps"]
            \/ run' = [run EXCEPT !.pc = "ended"]
  BY <1>2
<1>3. /\ run' \in RunType /\ run'.pc # "none" /\ (run'.pc = "inject" => run'.pending # <<>>)
      /\ run'.pc \notin {"prompts", "inject"} => run'.pending = <<>>
  <2>1. CASE run' = Turn(ms)
    BY <1>1, <2>1, TurnType
  <2>2. CASE run' = [run EXCEPT !.pc = "followUps"] \/ run' = [run EXCEPT !.pc = "ended"]
    BY <1>1, <2>2 DEF RunType, Pcs, Over
  <2> QED BY <2>1, <2>2
<1> QED BY <1>1, <1>3 DEF TypeOK, Alternate

\* An answer, or what a failed run says.
LEMMA HeardType ==
    ASSUME sess \in SessionType, NEW stop \in Stops
    PROVE  /\ Heard(stop) \in SessionType /\ Heard(stop).pc = sess.pc
           /\ Heard(stop).stop = stop /\ Heard(stop).late = sess.late
BY DEF Heard, SessionType

LEMMA FollowingCases ==
    ASSUME NEW stop \in Stops, NEW n, NEW next \in Following(Answer(stop, n))
    PROVE  \/ stop \in {"error", "aborted"} /\ next = [run EXCEPT !.pc = "ended"]
           \/ stop = "stop" /\ next = [run EXCEPT !.pc = "turnEnd", !.more = FALSE]
           \/ /\ stop = "toolUse"
              /\ \E p \in BOOLEAN : next = [run EXCEPT !.pc = "tools", !.parallel = p,
                                                     !.calls = [i \in 1..n |-> "new"]]
<1>1. Answer(stop, n).what = stop /\ Answer(stop, n).n = n
  BY DEF Answer
<1>2. CASE stop \in {"error", "aborted"}
  BY <1>1, <1>2 DEF Following
<1>3. CASE stop = "stop"
  BY <1>1, <1>3 DEF Following
<1>4. CASE stop = "toolUse"
  BY <1>1, <1>4 DEF Following
<1> QED BY <1>2, <1>3, <1>4 DEF Stops

LEMMA FollowingParts ==
    ASSUME run \in RunType, NEW stop \in Stops, NEW n \in Nat, NEW next \in Following(Answer(stop, n))
    PROVE  /\ next \in RunType /\ next.pending = run.pending /\ next.context = run.context
           /\ next.pc \in {"ended", "turnEnd", "tools"}
           /\ next.pc = "ended" => stop \in {"error", "aborted"}
<1>1. CASE stop \in {"error", "aborted"} /\ next = [run EXCEPT !.pc = "ended"]
  BY <1>1 DEF RunType, Pcs, Over
<1>2. CASE stop = "stop" /\ next = [run EXCEPT !.pc = "turnEnd", !.more = FALSE]
  BY <1>2 DEF RunType, Pcs, Over
<1>3. ASSUME NEW p \in BOOLEAN,
             next = [run EXCEPT !.pc = "tools", !.parallel = p, !.calls = [i \in 1..n |-> "new"]]
      PROVE  /\ next \in RunType /\ next.pending = run.pending /\ next.context = run.context
             /\ next.pc = "tools"
  <2>1. [i \in 1..n |-> "new"] \in Seq(CallStates)
    BY DEF CallStates
  <2> QED BY <1>3, <2>1 DEF RunType, Pcs
<1> QED BY <1>1, <1>2, <1>3, FollowingCases

LEMMA FollowingCalls ==
    ASSUME run \in RunType, NEW stop \in Stops, NEW n \in Nat, NEW next \in Following(Answer(stop, n))
    PROVE  /\ next.base = run.base /\ next.aborted = run.aborted
           /\ next.pc = "turnEnd" <=> stop = "stop"
           /\ next.pc = "tools" => next.calls = [i \in 1..n |-> "new"]
<1>1. CASE stop \in {"error", "aborted"} /\ next = [run EXCEPT !.pc = "ended"]
  BY <1>1 DEF RunType
<1>2. CASE stop = "stop" /\ next = [run EXCEPT !.pc = "turnEnd", !.more = FALSE]
  BY <1>2 DEF RunType
<1>3. ASSUME stop = "toolUse", NEW p \in BOOLEAN,
             next = [run EXCEPT !.pc = "tools", !.parallel = p, !.calls = [i \in 1..n |-> "new"]]
      PROVE  /\ next.base = run.base /\ next.aborted = run.aborted /\ next.pc = "tools"
             /\ next.calls = [i \in 1..n |-> "new"]
  BY <1>3 DEF RunType
<1> QED BY <1>1, <1>2, <1>3, FollowingCases

LEMMA RespondTypes ==
    ASSUME TypeOK, Alternate, NEW stop \in Stops, NEW n \in 0..MaxCalls, Respond(stop, n)
    PROVE  TypeOK' /\ Alternate'
<1> DEFINE answer == Answer(stop, n)
<1>1. /\ run.pc = "request" /\ run.pending = <<>> /\ run \in RunType /\ n \in Nat
      /\ sess.pc = "running" /\ answer \in Entries
      /\ UNCHANGED <<steering, followUps, mode, told, unheard, given>>
  BY Bounds, EntryTypes DEF Respond, queues, TypeOK, Alternate
<1>2. CASE /\ Record(answer)
           /\ CASE stop = "toolUse" -> Spend("tools", MaxToolTurns)
                [] stop = "error" -> Spend("events", MaxEvents)
                [] OTHER -> UNCHANGED spent
           /\ \E next \in Following(answer) :
                 run' = [next EXCEPT !.context = Append(@, answer)]
           /\ sess' = Heard(stop)
           /\ UNCHANGED gone
  <2>1. transcript' \in Seq(Entries) /\ saved' \in Seq(Entries) /\ written' \subseteq Nat
    BY <1>1, <1>2, RecordTypes
  <2>2. PICK next \in Following(answer) : run' = [next EXCEPT !.context = Append(@, answer)]
    BY <1>2
  <2>3. /\ next \in RunType /\ next.pending = run.pending /\ next.context = run.context
        /\ next.pc \in {"ended", "turnEnd", "tools"}
    BY <1>1, <2>2, FollowingParts DEF answer
  <2>4. Append(next.context, answer) \in Seq(Entries)
    BY <1>1, <2>3, AppendProperties DEF RunType
  <2>5. run' \in RunType /\ run'.pending = <<>> /\ run'.pc \in {"ended", "turnEnd", "tools"}
    BY <1>1, <2>2, <2>3, <2>4 DEF RunType
  <2>6. sess' \in SessionType /\ sess'.pc = "running"
    BY <1>1, <1>2, HeardType DEF TypeOK
  <2>7. spent' \in [tools : Nat, events : Nat]
    BY <1>2, SpendType DEF TypeOK
  <2>8. TypeOK'
    BY <1>1, <1>2, <2>1, <2>5, <2>6, <2>7 DEF TypeOK
  <2> QED BY <2>5, <2>6, <2>8 DEF Alternate
<1>3. CASE RecordThrows(answer) /\ Fail(<<>>) /\ UNCHANGED sess
  <2>1. transcript' \in Seq(Entries) /\ saved' \in Seq(Entries) /\ written' \subseteq Nat
    BY <1>1, <1>3, RecordTypes
  <2>2. /\ run' \in RunType /\ run'.pc \in {"failing", "aborting"} /\ run'.pending = <<>>
        /\ gone' \subseteq Messages
    <3>1. <<>> \in Seq(Messages)
      OBVIOUS
    <3> QED BY <1>1, <1>3, <3>1, FailTypes
  <2>3. spent' \in [tools : Nat, events : Nat]
    BY <1>3, SpendType DEF RecordThrows, TypeOK
  <2>4. TypeOK'
    BY <1>1, <1>3, <2>1, <2>2, <2>3 DEF TypeOK
  <2> QED BY <1>1, <1>3, <2>2, <2>4 DEF Alternate
<1> QED BY <1>2, <1>3 DEF Respond

\* The calls of an answer.
LEMMA CallTypes ==
    ASSUME TypeOK, Alternate, NEW i \in 1..MaxCalls, BeginCall(i) \/ EndTool(i)
    PROVE  TypeOK' /\ Alternate'
<1>1. /\ run.pc = "tools" /\ run \in RunType /\ run.pending = <<>> /\ run.calls \in Seq(CallStates)
      /\ i \in DOMAIN run.calls
      /\ UNCHANGED <<transcript, saved, written, steering, followUps, mode, sess, told, gone, unheard,
                     given, spent>>
  BY DEF BeginCall, NextCall, EndTool, Alternate, TypeOK, RunType, books, queues, history
<1>2. \E calls \in Seq(CallStates) : run' = [run EXCEPT !.calls = calls]
  <2>1. CASE run' = [run EXCEPT !.calls =
                [j \in DOMAIN @ |-> IF j < i THEN @[j] ELSE "skipped"]]
    <3>1. [j \in DOMAIN run.calls |-> IF j < i THEN run.calls[j] ELSE "skipped"]
              \in Seq(CallStates)
      <4>1. DOMAIN run.calls = 1..Len(run.calls) /\ Len(run.calls) \in Nat
        BY <1>1
      <4>2. [j \in DOMAIN run.calls |-> IF j < i THEN run.calls[j] ELSE "skipped"]
              \in [1..Len(run.calls) -> CallStates]
        BY <1>1, <4>1 DEF CallStates
      <4> QED BY <4>1, <4>2
    <3>2. run' = [run EXCEPT !.calls =
                     [j \in DOMAIN run.calls |-> IF j < i THEN run.calls[j] ELSE "skipped"]]
      BY <2>1, <1>1 DEF RunType
    <3> QED BY <3>1, <3>2
  <2>2. CASE \E s \in {"ended", "ready"} : run' = [run EXCEPT !.calls[i] = s]
    <3>1. PICK s \in {"ended", "ready"} : run' = [run EXCEPT !.calls[i] = s]
      BY <2>2
    <3>2. [run.calls EXCEPT ![i] = s] \in Seq(CallStates)
      BY <1>1, ExceptSeq DEF CallStates
    <3> QED BY <1>1, <3>1, <3>2 DEF RunType
  <2> QED BY <2>1, <2>2 DEF BeginCall, EndTool
<1>3. run' \in RunType /\ run'.pc = "tools" /\ run'.pending = <<>>
  BY <1>1, <1>2 DEF RunType
<1> QED BY <1>1, <1>3 DEF TypeOK, Alternate

LEMMA CommitResultTypes ==
    ASSUME TypeOK, Alternate, NEW i \in 1..MaxCalls, CommitResult(i)
    PROVE  TypeOK' /\ Alternate'
<1>1. /\ run.pc = "tools" /\ run \in RunType /\ run.pending = <<>> /\ run.calls \in Seq(CallStates)
      /\ i \in DOMAIN run.calls /\ Result(i) \in Entries
      /\ UNCHANGED <<steering, followUps, mode, sess, told, unheard, given>>
  BY EntryTypes DEF CommitResult, Alternate, TypeOK, RunType, queues
<1>2. CASE /\ Record(Result(i))
           /\ run' = [run EXCEPT !.calls[i] = "answered"]
           /\ UNCHANGED <<gone, spent>>
  <2>1. transcript' \in Seq(Entries) /\ saved' \in Seq(Entries) /\ written' \subseteq Nat
    BY <1>1, <1>2, RecordTypes
  <2>2. [run.calls EXCEPT ![i] = "answered"] \in Seq(CallStates)
    BY <1>1, ExceptSeq DEF CallStates
  <2>3. run' \in RunType /\ run'.pc = "tools" /\ run'.pending = <<>>
    BY <1>1, <1>2, <2>2 DEF RunType
  <2> QED BY <1>1, <1>2, <2>1, <2>3 DEF TypeOK, Alternate
<1>3. CASE RecordThrows(Result(i)) /\ Fail(<<>>)
  <2>1. transcript' \in Seq(Entries) /\ saved' \in Seq(Entries) /\ written' \subseteq Nat
    BY <1>1, <1>3, RecordTypes
  <2>2. /\ run' \in RunType /\ run'.pc \in {"failing", "aborting"} /\ run'.pending = <<>>
        /\ gone' \subseteq Messages
    <3>1. <<>> \in Seq(Messages)
      OBVIOUS
    <3> QED BY <1>1, <1>3, <3>1, FailTypes
  <2>3. spent' \in [tools : Nat, events : Nat]
    BY <1>3, SpendType DEF RecordThrows, TypeOK
  <2>4. TypeOK'
    BY <1>1, <2>1, <2>2, <2>3 DEF TypeOK
  <2> QED BY <1>1, <2>2, <2>4 DEF Alternate
<1> QED BY <1>2, <1>3 DEF CommitResult

LEMMA BatchOverTypes ==
    ASSUME TypeOK, Alternate, BatchOver
    PROVE  TypeOK' /\ Alternate'
<1> DEFINE results == [i \in 1..Cardinality({j \in DOMAIN run.calls :
                                      run.calls[j] = "answered"}) |-> Result(i)]
<1>1. /\ run.pc = "tools" /\ run \in RunType /\ run.pending = <<>> /\ run.calls \in Seq(CallStates)
      /\ UNCHANGED <<transcript, saved, written, steering, followUps, mode, sess, told, gone, unheard,
                     given, spent>>
  BY DEF BatchOver, Alternate, TypeOK, RunType, books, queues, history
<1>2. results \in Seq(Entries)
  <2> DEFINE A == {j \in DOMAIN run.calls : run.calls[j] = "answered"}
  <2>1. A \in SUBSET (1..Len(run.calls)) /\ Len(run.calls) \in Nat
    BY <1>1
  <2>2. IsFiniteSet(A)
    BY <2>1, FS_Interval, FS_Subset
  <2>3. Cardinality(A) \in Nat
    BY <2>2, FS_CardinalityType
  <2> HIDE DEF A
  <2>4. [i \in 1..Cardinality(A) |-> Result(i)] \in [1..Cardinality(A) -> Entries]
    BY <2>3, EntryTypes
  <2>5. [i \in 1..Cardinality(A) |-> Result(i)] \in Seq(Entries)
    BY <2>3, <2>4
  <2> QED BY <2>5 DEF A
<1>3. PICK more \in BOOLEAN :
         run' = [run EXCEPT !.pc = "turnEnd", !.more = more, !.calls = <<>>,
                            !.parallel = FALSE, !.context = @ \o results]
  BY DEF BatchOver
<1> HIDE DEF results
<1>4. run.context \o results \in Seq(Entries)
  <2>1. run.context \in Seq(Entries)
    BY <1>1 DEF RunType
  <2> QED BY <1>2, <2>1
<1>5. run' \in RunType /\ run'.pc = "turnEnd" /\ run'.pending = <<>>
  <2>1. <<>> \in Seq(CallStates)
    BY EmptySeq
  <2> QED BY <1>1, <1>3, <1>4, <2>1 DEF RunType, Pcs
<1> QED BY <1>1, <1>5 DEF TypeOK, Alternate

\* Failures.
LEMMA FailureTypes ==
    ASSUME TypeOK, Alternate, Throw \/ RecordFailure \/ RejectRun
    PROVE  TypeOK' /\ Alternate'
<1>1. run \in RunType /\ sess \in SessionType /\ run.pending \in Seq(Messages)
      /\ FailureOf \in Entries /\ FailureOf.what \in Stops
  <2>1. FailureOf \in Entries
    BY EntryTypes DEF FailureOf, Stops
  <2>2. FailureOf.what \in Stops
    BY DEF FailureOf, Answer, Stops
  <2> QED BY <2>1, <2>2 DEF TypeOK, RunType
<1>2. CASE Throw
  <2>1. /\ run' \in RunType /\ run'.pc \in {"failing", "aborting"} /\ run'.pending = <<>>
        /\ gone' \subseteq Messages
    BY <1>1, <1>2, FailTypes DEF Throw
  <2>2. spent' \in [tools : Nat, events : Nat]
    BY <1>2, SpendType DEF Throw, TypeOK
  <2>3. UNCHANGED <<transcript, saved, written, steering, followUps, mode, sess, told, unheard, given>>
        /\ run.pc # "none"
    BY <1>2 DEF Throw, books, queues
  <2>4. TypeOK'
    BY <2>1, <2>2, <2>3 DEF TypeOK
  <2> QED BY <2>1, <2>3, <2>4 DEF Alternate
<1>3. CASE RecordFailure
  <2>1. transcript' \in Seq(Entries) /\ saved' \in Seq(Entries) /\ written' \subseteq Nat
    BY <1>1, <1>3, RecordTypes DEF RecordFailure
  <2>2. run' \in RunType /\ run'.pc = "failed" /\ run'.pending = <<>> /\ run.pc # "none"
    BY <1>1, <1>3 DEF RecordFailure, RunType, Pcs, Over, Alternate
  <2>3. sess' \in SessionType /\ sess'.pc = sess.pc
    BY <1>1, <1>3, HeardType DEF RecordFailure
  <2>4. UNCHANGED <<steering, followUps, mode, told, gone, unheard, given, spent>>
    BY <1>3 DEF RecordFailure, queues, history
  <2>5. TypeOK'
    BY <2>1, <2>2, <2>3, <2>4 DEF TypeOK
  <2> QED BY <2>2, <2>3, <2>5 DEF Alternate
<1>4. CASE RejectRun
  <2>1. transcript' \in Seq(Entries) /\ saved' \in Seq(Entries) /\ written' \subseteq Nat
    BY <1>1, <1>4, RecordTypes DEF RejectRun, TypeOK, books
  <2>2. run' = NoRun /\ run' \in RunType
    BY <1>4, RunTypes DEF RejectRun
  <2>3. sess' \in SessionType /\ sess'.pc = "idle"
    BY <1>1, <1>4 DEF RejectRun, SessionType
  <2>4. UNCHANGED <<steering, followUps, mode, told, gone, unheard, given>>
    BY <1>4 DEF RejectRun, queues
  <2>5. spent' \in [tools : Nat, events : Nat]
    BY <1>4, SpendType DEF RejectRun, RecordThrows, TypeOK
  <2>6. TypeOK'
    BY <2>1, <2>2, <2>3, <2>4, <2>5 DEF TypeOK
  <2> QED BY <2>2, <2>3, <2>6 DEF Alternate, NoRun
<1> QED BY <1>2, <1>3, <1>4

\* abort() of a run.
LEMMA AbortTypes ==
    ASSUME TypeOK, Alternate, Abort
    PROVE  TypeOK' /\ Alternate'
<1>1. CASE SessionStep
  BY <1>1, SessionStepTypes
<1>2. CASE /\ run.pc # "none" /\ run' = [run EXCEPT !.aborted = TRUE]
           /\ UNCHANGED <<books, queues, sess, told, gone, unheard, given>>
  <2>1. run' \in RunType /\ run'.pc = run.pc /\ run'.pending = run.pending
    BY <1>2 DEF TypeOK, RunType
  <2>2. spent' \in [tools : Nat, events : Nat]
    BY SpendType DEF Abort, TypeOK
  <2> QED BY <1>2, <2>1, <2>2 DEF TypeOK, Alternate, books, queues
<1> QED BY <1>1, <1>2, AbortBetween

LEMMA InitTypes == Init => TypeOK /\ Alternate
<1> SUFFICES ASSUME Init PROVE TypeOK /\ Alternate
  OBVIOUS
<1>1. Resting \in SessionType /\ Resting.pc = "idle" /\ NoRun.pc = "none" /\ NoRun.pending = <<>>
  BY DEF Resting, SessionType, NoRun
<1>2. /\ transcript \in Seq(Entries) /\ saved \in Seq(Entries) /\ steering \in Seq(Steers)
      /\ followUps \in Seq(FollowUps) /\ given \in Seq(Steers)
  BY EmptySeq DEF Init
<1> QED BY <1>1, <1>2, RunTypes DEF Init, TypeOK, Alternate

\* The steps of Next, one by one; those between runs are steps of the session.
LEMMA Steps ==
    ASSUME TypeOK, Alternate, Next
    PROVE  \/ \E m \in Steers : Steer(m)
           \/ \E m \in FollowUps : FollowUp(m)
           \/ \E m \in Waiters : GiveUp(m)
           \/ Commit \/ FirstPoll \/ BatchOver \/ PollSteering \/ PollFollowUps
           \/ \E stop \in Stops, n \in 0..MaxCalls : Respond(stop, n)
           \/ \E i \in 1..MaxCalls : BeginCall(i)
           \/ \E i \in 1..MaxCalls : EndTool(i)
           \/ \E i \in 1..MaxCalls : CommitResult(i)
           \/ Throw \/ RecordFailure \/ RejectRun
           \/ Abort \/ SessionStep
<1>1. CASE Session
  BY <1>1, AfterRunBetween, SleepOverBetween, CompactionEndsBetween DEF Session
<1>2. CASE Loop
  BY <1>2 DEF Loop, Stops
<1>3. CASE \E p \in Prompts : Prompt(p)
  BY <1>3, PromptBetween
<1> QED BY <1>1, <1>2, <1>3 DEF Next

LEMMA StepTypes ==
    ASSUME TypeOK, Alternate, [Next]_vars
    PROVE  TypeOK' /\ Alternate'
<1>1. CASE Next
  BY <1>1, Steps, GivingTypes, CommitTypes, PollTypes, BatchOverTypes, RespondTypes, CallTypes,
     CommitResultTypes, FailureTypes, AbortTypes, SessionStepTypes
<1>2. CASE UNCHANGED vars
  BY <1>2 DEF vars, books, queues, history, TypeOK, Alternate
<1> QED BY <1>1, <1>2

\* The state is typed, and the session and the loop take turns: there is a run exactly when
\* the session waits for one, a run that is over leaves nothing behind, and the loop holds
\* messages only while it puts them in.
THEOREM TypeCorrect == Spec => [](TypeOK /\ Alternate)
<1>1. Init => TypeOK /\ Alternate
  BY InitTypes
<1>2. TypeOK /\ Alternate /\ [Next]_vars => TypeOK' /\ Alternate'
  BY StepTypes
<1> QED BY <1>1, <1>2, PTL DEF Spec

-----------------------------------------------------------------------------
(* What sequences hold *)

\* The queued messages in a transcript.
Queueable == Steers \cup FollowUps

SaidIn(t) == {m \in Queueable : Said(m) \in Range(t)}

\* Each one is there once, and those steered in the order of g.
Whole(t, g) ==
    /\ \A m \in Queueable : \A i, j \in DOMAIN t : t[i] = Said(m) /\ t[j] = Said(m) => i = j
    /\ \A m, n \in Steers : \A i, j \in DOMAIN t :
          i < j /\ t[i] = Said(m) /\ t[j] = Said(n) => Before(g, m, n)

\* Those of A were steered before those of B.
AllBefore(A, B, g) == \A m \in A \cap Steers, n \in B \cap Steers : Before(g, m, n)

\* Entries that are no message of the user.
LEMMA EntriesDiffer ==
    /\ \A m, n : Said(m) = Said(n) => m = n
    /\ \A m, stop, n : Said(m) # Answer(stop, n)
    /\ \A m, i : Said(m) # Result(i)
BY DEF Said, Answer, Result

LEMMA EmptyHolds ==
    /\ Range(<<>>) = {} /\ Distinct(<<>>) /\ \A g : InOrder(<<>>, g)
BY DEF Range, Distinct, InOrder

LEMMA OneHolds ==
    ASSUME NEW m
    PROVE  /\ Range(<<m>>) = {m} /\ Distinct(<<m>>) /\ \A g : InOrder(<<m>>, g)
<1>1. DOMAIN <<m>> = {1} /\ <<m>>[1] = m
  OBVIOUS
<1> QED BY <1>1 DEF Range, Distinct, InOrder

\* A message is appended.
LEMMA RangeOfAppend ==
    ASSUME NEW S, NEW q \in Seq(S), NEW m \in S
    PROVE  Range(Append(q, m)) = Range(q) \cup {m}
<1>1. /\ DOMAIN q = 1..Len(q) /\ DOMAIN Append(q, m) = 1..Len(q) + 1 /\ Len(q) \in Nat
      /\ \A i \in 1..Len(q) : Append(q, m)[i] = q[i]
      /\ Append(q, m)[Len(q) + 1] = m
  OBVIOUS
<1> QED BY <1>1 DEF Range

LEMMA AppendDistinct ==
    ASSUME NEW S, NEW q \in Seq(S), NEW m \in S, Distinct(q), m \notin Range(q)
    PROVE  Distinct(Append(q, m))
<1>1. /\ DOMAIN q = 1..Len(q) /\ DOMAIN Append(q, m) = 1..Len(q) + 1 /\ Len(q) \in Nat
      /\ \A i \in 1..Len(q) : Append(q, m)[i] = q[i]
      /\ Append(q, m)[Len(q) + 1] = m
  OBVIOUS
<1> QED BY <1>1 DEF Range, Distinct

LEMMA AppendInOrder ==
    ASSUME NEW S, NEW q \in Seq(S), NEW m \in S, NEW g,
           InOrder(q, g), AllBefore(Range(q), {m}, g)
    PROVE  InOrder(Append(q, m), g)
<1> DEFINE r == Append(q, m)
<1>1. /\ DOMAIN q = 1..Len(q) /\ DOMAIN r = 1..Len(q) + 1 /\ Len(q) \in Nat
      /\ \A i \in 1..Len(q) : r[i] = q[i]
      /\ r[Len(q) + 1] = m
  OBVIOUS
<1> HIDE DEF r
<1> SUFFICES ASSUME NEW i \in DOMAIN r, NEW j \in DOMAIN r, i < j, r[i] \in Steers, r[j] \in Steers
             PROVE  Before(g, r[i], r[j])
  BY DEF InOrder, r
<1>2. i \in 1..Len(q) /\ r[i] = q[i] /\ r[i] \in Range(q)
  BY <1>1 DEF Range
<1>3. CASE j \in 1..Len(q)
  BY <1>1, <1>2, <1>3 DEF InOrder
<1>4. CASE j = Len(q) + 1
  BY <1>1, <1>2, <1>4 DEF AllBefore
<1> QED BY <1>1, <1>3, <1>4

\* The first message is taken.
LEMMA TailHolds ==
    ASSUME NEW S, NEW q \in Seq(S), q # <<>>
    PROVE  /\ Range(q) = {Head(q)} \cup Range(Tail(q))
           /\ Distinct(q) => Distinct(Tail(q)) /\ Head(q) \notin Range(Tail(q))
           /\ \A g : InOrder(q, g) =>
                 InOrder(Tail(q), g) /\ AllBefore({Head(q)}, Range(Tail(q)), g)
<1> DEFINE r == Tail(q)
<1>1. /\ DOMAIN q = 1..Len(q) /\ Len(q) \in Nat /\ Len(q) > 0 /\ Head(q) = q[1]
      /\ DOMAIN r = 1..Len(q) - 1 /\ \A i \in 1..Len(q) - 1 : r[i] = q[i + 1]
  <2>1. Len(q) \in Nat \ {0}
    BY EmptySeq
  <2>2. Len(r) = Len(q) - 1 /\ r \in Seq(S) /\ \A i \in 1..Len(r) : r[i] = q[i + 1]
    BY HeadTailProperties
  <2>3. Head(q) = q[1]
    OBVIOUS
  <2> QED BY <2>1, <2>2, <2>3
<1> HIDE DEF r
<1>2. Range(q) = {Head(q)} \cup Range(r)
  <2>1. ASSUME NEW i \in 1..Len(q)
        PROVE  q[i] \in {Head(q)} \cup Range(r)
    <3>1. CASE i = 1
      BY <1>1, <3>1
    <3>2. CASE i # 1
      <4>1. i - 1 \in 1..Len(q) - 1 /\ r[i - 1] = q[i]
        BY <1>1, <3>2
      <4> QED BY <1>1, <4>1 DEF Range
    <3> QED BY <3>1, <3>2
  <2>2. ASSUME NEW i \in 1..Len(q) - 1
        PROVE  r[i] \in Range(q)
    BY <1>1 DEF Range
  <2>3. Head(q) \in Range(q)
    BY <1>1 DEF Range
  <2> QED BY <1>1, <2>1, <2>2, <2>3 DEF Range
<1>3. ASSUME Distinct(q)
      PROVE  Distinct(r) /\ Head(q) \notin Range(r)
  <2>1. Distinct(r)
    BY <1>1, <1>3 DEF Distinct
  <2>2. ASSUME NEW i \in 1..Len(q) - 1
        PROVE  r[i] # Head(q)
    <3>1. i + 1 \in 1..Len(q) /\ 1 \in 1..Len(q) /\ i + 1 # 1
      BY <1>1
    <3> QED BY <1>1, <1>3, <3>1 DEF Distinct
  <2> QED BY <1>1, <2>1, <2>2 DEF Range
<1>4. ASSUME NEW g, InOrder(q, g)
      PROVE  InOrder(r, g) /\ AllBefore({Head(q)}, Range(r), g)
  <2>1. InOrder(r, g)
    <3> SUFFICES ASSUME NEW i \in 1..Len(q) - 1, NEW j \in 1..Len(q) - 1, i < j,
                        r[i] \in Steers, r[j] \in Steers
                 PROVE  Before(g, r[i], r[j])
      BY <1>1 DEF InOrder
    <3>1. i + 1 \in 1..Len(q) /\ j + 1 \in 1..Len(q) /\ i + 1 < j + 1
      BY <1>1
    <3> QED BY <1>1, <1>4, <3>1 DEF InOrder
  <2>2. ASSUME NEW i \in 1..Len(q) - 1, Head(q) \in Steers, r[i] \in Steers
        PROVE  Before(g, Head(q), r[i])
    <3>1. i + 1 \in 1..Len(q) /\ 1 \in 1..Len(q) /\ 1 < i + 1
      BY <1>1
    <3> QED BY <1>1, <1>4, <2>2, <3>1 DEF InOrder
  <2> QED BY <1>1, <2>1, <2>2 DEF AllBefore, Range
<1> QED BY <1>2, <1>3, <1>4 DEF r

\* A queue is drained, in either mode.
LEMMA DrainHolds ==
    ASSUME NEW S, NEW q \in Seq(S), NEW m, Distinct(q)
    PROVE  /\ Range(q) = Range(Drained(q, m)) \cup Range(LeftIn(q, m))
           /\ Range(Drained(q, m)) \cap Range(LeftIn(q, m)) = {}
           /\ Distinct(Drained(q, m)) /\ Distinct(LeftIn(q, m))
           /\ \A g : InOrder(q, g) =>
                 /\ InOrder(Drained(q, m), g) /\ InOrder(LeftIn(q, m), g)
                 /\ AllBefore(Range(Drained(q, m)), Range(LeftIn(q, m)), g)
<1>1. CASE Drained(q, m) = q /\ LeftIn(q, m) = <<>>
  <2>1. \A A, g : AllBefore(A, Range(<<>>), g)
    BY EmptyHolds DEF AllBefore
  <2> QED BY <1>1, <2>1, EmptyHolds
<1>2. CASE q # <<>> /\ Drained(q, m) = <<Head(q)>> /\ LeftIn(q, m) = Tail(q)
  <2>1. /\ Range(q) = {Head(q)} \cup Range(Tail(q))
        /\ Distinct(Tail(q)) /\ Head(q) \notin Range(Tail(q))
        /\ \A g : InOrder(q, g) =>
              InOrder(Tail(q), g) /\ AllBefore({Head(q)}, Range(Tail(q)), g)
    BY <1>2, TailHolds
  <2>2. /\ Range(<<Head(q)>>) = {Head(q)} /\ Distinct(<<Head(q)>>)
        /\ \A g : InOrder(<<Head(q)>>, g)
    BY OneHolds
  <2> DEFINE one == <<Head(q)>>
  <2> HIDE DEF one
  <2>3. /\ Range(one) = {Head(q)} /\ Distinct(one) /\ \A g : InOrder(one, g)
        /\ Drained(q, m) = one /\ LeftIn(q, m) = Tail(q)
    BY <1>2, <2>2 DEF one
  <2> QED BY <2>1, <2>3
<1> QED BY <1>1, <1>2, DrainType

\* A message is taken out of a queue.
LEMMA RemoveHolds ==
    ASSUME NEW S, NEW q \in Seq(S), NEW m, Distinct(q)
    PROVE  /\ Range(RemoveFirst(q, m)) = Range(q) \ {m}
           /\ Distinct(RemoveFirst(q, m))
           /\ \A g : InOrder(q, g) => InOrder(RemoveFirst(q, m), g)
<1>1. CASE m \notin Range(q)
  <2>1. RemoveFirst(q, m) = q
    BY <1>1 DEF RemoveFirst, Range
  <2> QED BY <1>1, <2>1
<1>2. CASE m \in Range(q)
  <2>1. PICK p \in 1..Len(q) :
           /\ q[p] = m
           /\ RemoveFirst(q, m) = SubSeq(q, 1, p - 1) \o SubSeq(q, p + 1, Len(q))
    BY <1>2, RemoveFirstIndex
  <2> DEFINE a == SubSeq(q, 1, p - 1)
             b == SubSeq(q, p + 1, Len(q))
             r == RemoveFirst(q, m)
             at(k) == IF k < p THEN k ELSE k + 1
  <2>2. /\ Len(q) \in Nat /\ p \in Nat /\ 1 <= p /\ p <= Len(q) /\ DOMAIN q = 1..Len(q)
        /\ \A i \in 1..Len(q) : q[i] \in S
    OBVIOUS
  <2>3. a \in Seq(S) /\ Len(a) = p - 1 /\ \A i \in 1..p - 1 : a[i] = q[i]
    <3>1. 1 \in Int /\ p - 1 \in Int /\ \A i \in 1..p - 1 : q[i] \in S
      BY <2>2
    <3>2. /\ a \in Seq(S) /\ Len(a) = IF 1 <= p - 1 THEN (p - 1) - 1 + 1 ELSE 0
          /\ \A i \in 1..(p - 1) - 1 + 1 : a[i] = q[1 + i - 1]
      BY <3>1, SubSeqProperties
    <3> HIDE DEF a
    <3> QED BY <2>2, <3>2
  <2>4. b \in Seq(S) /\ Len(b) = Len(q) - p /\ \A i \in 1..Len(q) - p : b[i] = q[p + i]
    <3>1. p + 1 \in Int /\ Len(q) \in Int /\ \A i \in p + 1..Len(q) : q[i] \in S
      BY <2>2
    <3>2. /\ b \in Seq(S) /\ Len(b) = IF p + 1 <= Len(q) THEN Len(q) - (p + 1) + 1 ELSE 0
          /\ \A i \in 1..Len(q) - (p + 1) + 1 : b[i] = q[(p + 1) + i - 1]
      BY <3>1, SubSeqProperties
    <3> HIDE DEF b
    <3>3. Len(b) = Len(q) - p /\ Len(q) - (p + 1) + 1 = Len(q) - p
      <4>1. Len(q) - (p + 1) + 1 = Len(q) - p
        BY <2>2
      <4>2. CASE p + 1 <= Len(q)
        BY <3>2, <4>1, <4>2
      <4>3. CASE ~(p + 1 <= Len(q))
        <5>1. Len(q) - p = 0
          <6>1. p \in Nat /\ Len(q) \in Nat /\ p <= Len(q)
            BY <2>2
          <6> QED BY <4>3, <6>1
        <5>2. Len(b) = 0
          BY <3>2, <4>3
        <5> QED BY <4>1, <5>1, <5>2
      <4> QED BY <4>2, <4>3
    <3>4. ASSUME NEW i \in 1..Len(q) - p
          PROVE  b[i] = q[p + i]
      <4>1. (p + 1) + i - 1 = p + i
        BY <2>2
      <4> QED BY <3>2, <3>3, <4>1
    <3> QED BY <3>2, <3>3, <3>4
  <2> HIDE DEF a, b
  <2>5. /\ a \o b \in Seq(S) /\ Len(a \o b) = Len(a) + Len(b)
        /\ \A i \in 1..Len(a) + Len(b) : (a \o b)[i] = IF i <= Len(a) THEN a[i] ELSE b[i - Len(a)]
    BY <2>3, <2>4, ConcatProperties
  <2>6. r = a \o b
    BY <2>1 DEF a, b
  <2> HIDE DEF r
  <2>7. /\ DOMAIN r = 1..Len(q) - 1
        /\ \A k \in 1..Len(q) - 1 : at(k) \in 1..Len(q) /\ at(k) # p /\ r[k] = q[at(k)]
    <3>1. Len(a \o b) = Len(q) - 1 /\ DOMAIN r = 1..Len(q) - 1
      <4>1. Len(a) + Len(b) = Len(q) - 1
        BY <2>2, <2>3, <2>4
      <4>2. r \in Seq(S) /\ Len(r) = Len(q) - 1
        BY <2>5, <2>6, <4>1
      <4> QED BY <2>6, <4>2
    <3>2. ASSUME NEW k \in 1..Len(q) - 1
          PROVE  at(k) \in 1..Len(q) /\ at(k) # p /\ r[k] = q[at(k)]
      <4>1. CASE k < p
        <5>1. k \in 1..p - 1 /\ k \in 1..Len(a) + Len(b) /\ k <= Len(a)
          BY <2>2, <2>3, <2>4, <4>1
        <5> QED BY <2>2, <2>3, <2>5, <2>6, <4>1, <5>1
      <4>2. CASE k >= p
        <5>1. k - Len(a) \in 1..Len(q) - p /\ k \in 1..Len(a) + Len(b) /\ ~(k <= Len(a))
              /\ p + (k - Len(a)) = k + 1
          BY <2>2, <2>3, <2>4, <4>2
        <5>2. r[k] = b[k - Len(a)] /\ b[k - Len(a)] = q[p + (k - Len(a))]
          BY <2>4, <2>5, <2>6, <5>1
        <5> QED BY <2>2, <4>2, <5>1, <5>2
      <4> QED BY <2>2, <4>1, <4>2
    <3> QED BY <3>1, <3>2
  <2>8. Range(r) = Range(q) \ {m}
    <3>1. ASSUME NEW k \in 1..Len(q) - 1
          PROVE  r[k] \in Range(q) \ {m}
      BY <2>1, <2>2, <2>7 DEF Range, Distinct
    <3>2. ASSUME NEW i \in 1..Len(q), q[i] # m
          PROVE  \E k \in 1..Len(q) - 1 : r[k] = q[i]
      <4>1. CASE i < p
        <5>1. i \in 1..Len(q) - 1 /\ at(i) = i
          BY <2>2, <4>1
        <5> QED BY <2>7, <5>1
      <4>2. CASE i > p
        <5>1. i - 1 \in 1..Len(q) - 1 /\ at(i - 1) = i
          BY <2>2, <4>2
        <5> QED BY <2>7, <5>1
      <4> QED BY <2>1, <2>2, <3>2, <4>1, <4>2
    <3>3. Range(r) \subseteq Range(q) \ {m}
      BY <2>7, <3>1 DEF Range
    <3>4. Range(q) \ {m} \subseteq Range(r)
      BY <2>2, <2>7, <3>2 DEF Range
    <3> QED BY <3>3, <3>4
  <2>9. \A k, l \in 1..Len(q) - 1 : (at(k) = at(l) => k = l) /\ (k < l => at(k) < at(l))
    BY <2>2
  <2> HIDE DEF at
  <2>10. Distinct(r)
    BY <2>2, <2>7, <2>9 DEF Distinct
  <2>11. ASSUME NEW g, InOrder(q, g)
         PROVE  InOrder(r, g)
    BY <2>2, <2>7, <2>9, <2>11 DEF InOrder
  <2> QED BY <2>8, <2>10, <2>11 DEF r
<1> QED BY <1>1, <1>2

\* A message enters a transcript.
LEMMA SaidAppended ==
    ASSUME NEW t \in Seq(Entries), NEW m \in Messages, NEW g, Whole(t, g), m \notin SaidIn(t),
           AllBefore(SaidIn(t), {m}, g)
    PROVE  /\ SaidIn(Append(t, Said(m))) = SaidIn(t) \cup ({m} \cap Queueable)
           /\ Whole(Append(t, Said(m)), g)
<1> DEFINE u == Append(t, Said(m))
<1>1. /\ DOMAIN t = 1..Len(t) /\ DOMAIN u = 1..Len(t) + 1 /\ Len(t) \in Nat
      /\ \A i \in 1..Len(t) : u[i] = t[i]
      /\ u[Len(t) + 1] = Said(m)
  <2>1. Said(m) \in Entries
    BY EntryTypes
  <2> QED BY <2>1
<1>2. Range(u) = Range(t) \cup {Said(m)}
  <2>1. Said(m) \in Entries
    BY EntryTypes
  <2> QED BY <2>1, RangeOfAppend
<1> HIDE DEF u
<1>3. SaidIn(u) = SaidIn(t) \cup ({m} \cap Queueable)
  BY <1>2, EntriesDiffer DEF SaidIn
<1>4. ASSUME NEW i \in 1..Len(t), NEW n \in Queueable, t[i] = Said(n)
      PROVE  n \in SaidIn(t) /\ n # m
  BY <1>1, <1>4 DEF SaidIn, Range
<1>5. ASSUME NEW n \in Queueable, NEW i \in DOMAIN u, NEW j \in DOMAIN u,
             u[i] = Said(n), u[j] = Said(n)
      PROVE  i = j
  <2>1. CASE i \in 1..Len(t) /\ j \in 1..Len(t)
    BY <1>1, <1>5, <2>1 DEF Whole
  <2>2. CASE i = Len(t) + 1 \/ j = Len(t) + 1
    <3>1. n = m
      BY <1>1, <1>5, <2>2, EntriesDiffer
    <3>2. i \notin 1..Len(t) /\ j \notin 1..Len(t)
      BY <1>1, <1>4, <1>5, <3>1
    <3> QED BY <1>1, <3>2
  <2> QED BY <1>1, <2>1, <2>2
<1>6. ASSUME NEW n1 \in Steers, NEW n2 \in Steers, NEW i \in DOMAIN u, NEW j \in DOMAIN u,
             i < j, u[i] = Said(n1), u[j] = Said(n2)
      PROVE  Before(g, n1, n2)
  <2>1. i \in 1..Len(t) /\ t[i] = Said(n1)
    BY <1>1, <1>6
  <2>2. CASE j \in 1..Len(t)
    BY <1>1, <1>6, <2>1, <2>2 DEF Whole
  <2>3. CASE j = Len(t) + 1
    <3>1. n2 = m
      BY <1>1, <1>6, <2>3, EntriesDiffer
    <3>2. n1 \in SaidIn(t)
      BY <1>1, <2>1 DEF SaidIn, Range, Queueable
    <3> QED BY <3>1, <3>2 DEF AllBefore
  <2> QED BY <1>1, <2>2, <2>3
<1> QED BY <1>3, <1>5, <1>6 DEF Whole, u

\* Another entry does.
LEMMA OtherAppended ==
    ASSUME NEW t \in Seq(Entries), NEW e \in Entries, \A m : e # Said(m), NEW g
    PROVE  /\ SaidIn(Append(t, e)) = SaidIn(t)
           /\ Whole(t, g) => Whole(Append(t, e), g)
<1> DEFINE u == Append(t, e)
<1>1. /\ DOMAIN t = 1..Len(t) /\ DOMAIN u = 1..Len(t) + 1 /\ Len(t) \in Nat
      /\ \A i \in 1..Len(t) : u[i] = t[i]
      /\ u[Len(t) + 1] = e
  OBVIOUS
<1>2. Range(u) = Range(t) \cup {e}
  BY RangeOfAppend
<1> HIDE DEF u
<1>3. SaidIn(u) = SaidIn(t)
  BY <1>2 DEF SaidIn
<1>4. \A i \in DOMAIN u : \A m : u[i] = Said(m) => i \in DOMAIN t /\ t[i] = Said(m)
  BY <1>1
<1>5. Whole(t, g) => Whole(u, g)
  BY <1>4 DEF Whole
<1> QED BY <1>3, <1>5 DEF u

\* An answer is dropped.
LEMMA AnswerDropped ==
    ASSUME NEW t \in Seq(Entries), NEW g
    PROVE  /\ SaidIn(WithoutAnswer(t)) = SaidIn(t)
           /\ Whole(t, g) => Whole(WithoutAnswer(t), g)
<1>1. CASE ~IsAnswer(t)
  BY <1>1 DEF WithoutAnswer
<1>2. CASE IsAnswer(t)
  <2> DEFINE u == Front(t)
  <2>1. t # <<>> /\ Last(t).by = "assistant" /\ WithoutAnswer(t) = u
    BY <1>2 DEF IsAnswer, WithoutAnswer
  <2>2. /\ DOMAIN t = 1..Len(t) /\ Len(t) \in Nat /\ DOMAIN u = 1..Len(t) - 1
        /\ \A i \in 1..Len(t) - 1 : u[i] = t[i]
    <3>1. /\ u \in Seq(Entries) /\ Len(u) = Len(t) - 1
          /\ \A i \in 1..Len(t) - 1 : u[i] = t[i]
      BY <2>1, FrontType
    <3> HIDE DEF u
    <3> QED BY <3>1
  <2> HIDE DEF u
  <2>3. \A m : t[Len(t)] # Said(m)
    BY <2>1 DEF Last, Said
  <2>4. \A m : \A i \in DOMAIN t : t[i] = Said(m) => i \in DOMAIN u /\ u[i] = Said(m)
    BY <2>2, <2>3
  <2>5. \A i \in DOMAIN u : i \in DOMAIN t /\ t[i] = u[i]
    BY <2>2
  <2>6. \A m : Said(m) \in Range(u) <=> Said(m) \in Range(t)
    BY <2>4, <2>5 DEF Range
  <2>7. SaidIn(u) = SaidIn(t)
    BY <2>6 DEF SaidIn
  <2>8. Whole(t, g) => Whole(u, g)
    BY <2>5 DEF Whole
  <2> QED BY <2>1, <2>7, <2>8
<1> QED BY <1>1, <1>2

\* A message is steered: the order of those before stays, and they all come before it.
LEMMA GivenAppended ==
    ASSUME NEW g \in Seq(Steers), NEW x \in Steers
    PROVE  /\ Range(Append(g, x)) = Range(g) \cup {x}
           /\ \A m, n : Before(g, m, n) => Before(Append(g, x), m, n)
           /\ \A m \in Range(g) : Before(Append(g, x), m, x)
<1> DEFINE h == Append(g, x)
<1>1. /\ DOMAIN g = 1..Len(g) /\ DOMAIN h = 1..Len(g) + 1 /\ Len(g) \in Nat
      /\ \A i \in 1..Len(g) : h[i] = g[i]
      /\ h[Len(g) + 1] = x
  OBVIOUS
<1>2. Range(h) = Range(g) \cup {x}
  BY RangeOfAppend
<1> HIDE DEF h
<1>3. ASSUME NEW m, NEW n, Before(g, m, n)
      PROVE  Before(h, m, n)
  <2>1. PICK k \in 1..Len(g), l \in 1..Len(g) : k < l /\ g[k] = m /\ g[l] = n
    BY <1>1, <1>3 DEF Before
  <2>2. k \in 1..Len(g) + 1 /\ l \in 1..Len(g) + 1 /\ h[k] = m /\ h[l] = n
    BY <1>1, <2>1
  <2> QED BY <1>1, <2>1, <2>2 DEF Before
<1>4. ASSUME NEW m \in Range(g)
      PROVE  Before(h, m, x)
  <2>1. PICK k \in 1..Len(g) : g[k] = m
    BY <1>1 DEF Range
  <2>2. k \in 1..Len(g) + 1 /\ h[k] = m /\ Len(g) + 1 \in 1..Len(g) + 1 /\ k < Len(g) + 1
    BY <1>1, <2>1
  <2> QED BY <1>1, <2>2 DEF Before
<1> QED BY <1>2, <1>3, <1>4 DEF h

\* Orders of a longer history.
LEMMA OrdersKept ==
    ASSUME NEW g, NEW h, \A m, n : Before(g, m, n) => Before(h, m, n)
    PROVE  /\ \A q : InOrder(q, g) => InOrder(q, h)
           /\ \A t : Whole(t, g) => Whole(t, h)
           /\ \A A, B : AllBefore(A, B, g) => AllBefore(A, B, h)
<1>1. \A q : InOrder(q, g) => InOrder(q, h)
  BY DEF InOrder
<1>2. \A t : Whole(t, g) => Whole(t, h)
  BY DEF Whole
<1>3. \A A, B : AllBefore(A, B, g) => AllBefore(A, B, h)
  BY DEF AllBefore
<1> QED BY <1>1, <1>2, <1>3

\* A message that is in a sequence once is counted once.
LEMMA TimesOnce ==
    ASSUME NEW q, NEW x, \A i, j \in DOMAIN q : q[i] = x /\ q[j] = x => i = j
    PROVE  Times(x, q) = IF x \in Range(q) THEN 1 ELSE 0
<1> DEFINE I == {i \in DOMAIN q : q[i] = x}
<1>1. CASE x \in Range(q)
  <2>1. PICK i \in DOMAIN q : q[i] = x
    BY <1>1 DEF Range
  <2>2. I = {i}
    BY <2>1
  <2> HIDE DEF I
  <2>3. Cardinality(I) = 1
    BY <2>2, FS_Singleton
  <2> QED BY <1>1, <2>3 DEF Times, I
<1>2. CASE x \notin Range(q)
  <2>1. I = {}
    BY <1>2 DEF Range
  <2> HIDE DEF I
  <2>2. Cardinality(I) = 0
    BY <2>1, FS_EmptySet
  <2> QED BY <1>2, <2>2 DEF Times, I
<1> QED BY <1>1, <1>2

-----------------------------------------------------------------------------
(* Where messages are *)

\* In one place at a time.
Apart ==
    /\ Distinct(steering) /\ Distinct(followUps) /\ Distinct(run.pending)
    /\ Range(run.pending) \cap (Range(steering) \cup Range(followUps)) = {}
    /\ SaidIn(transcript) \cap (Range(run.pending) \cup Range(steering) \cup Range(followUps)) = {}
    /\ gone \cap Queueable \cap (Range(run.pending) \cup Range(steering) \cup Range(followUps)
                                    \cup SaidIn(transcript)) = {}

\* Somewhere from when they are given, and nowhere before.
Somewhere ==
    \A m \in Queueable :
        told[m] = "nothing" <=>
            m \notin Range(steering) \cup Range(followUps) \cup Range(run.pending)
                        \cup SaidIn(transcript) \cup gone \cup unheard

\* Those steered in the order they were given, from the transcript over the hands of the
\* loop to the queue.
Ordered ==
    /\ \A m \in Steers : told[m] # "nothing" <=> m \in Range(given)
    /\ InOrder(steering, given) /\ InOrder(run.pending, given)
    /\ AllBefore(SaidIn(transcript), Range(run.pending) \cup Range(steering), given)
    /\ AllBefore(Range(run.pending), Range(steering), given)

\* The file of the session has what the transcript has, but for what it did not hear.
Filed ==
    /\ Whole(transcript, given) /\ Whole(saved, given)
    /\ SaidIn(saved) \subseteq SaidIn(transcript)
    /\ SaidIn(transcript) \subseteq SaidIn(saved) \cup unheard

Places == Filed /\ Apart /\ Somewhere /\ Ordered

\* The file has every message that the session manager has, once it has any, but for those
\* whose write threw.
Kept ==
    written # {} =>
        /\ Answered(saved)
        /\ \A i \in DOMAIN saved : \A m \in Messages :
              saved[i] = Said(m) => i \in written \/ m \in unheard

\* What callers that wait were told.
Truthful ==
    \A m \in Waiters :
        /\ told[m] = "committed" => m \in SaidIn(saved) \cup unheard
        /\ told[m] = "rejected" => m \in unheard \cup gone
        /\ told[m] = "waiting" => m \notin SaidIn(saved)

\* What the queues and the loop may hold.
LEMMA Ranges ==
    ASSUME TypeOK
    PROVE  /\ Range(steering) \subseteq Steers /\ Range(followUps) \subseteq FollowUps
           /\ Range(run.pending) \subseteq Messages /\ Range(given) \subseteq Steers
           /\ SaidIn(transcript) \subseteq Queueable
BY RangeOfSeq DEF TypeOK, RunType, SaidIn

LEMMA FollowUpsInOrder ==
    ASSUME NEW q \in Seq(FollowUps), NEW g
    PROVE  InOrder(q, g)
BY Kinds DEF InOrder

LEMMA InitPlaces == Init => Places /\ Truthful
<1> SUFFICES ASSUME Init PROVE Places /\ Truthful
  OBVIOUS
<1>1. SaidIn(<<>>) = {} /\ \A g : Whole(<<>>, g)
  BY EmptyHolds DEF SaidIn, Whole
<1>2. /\ transcript = <<>> /\ saved = <<>> /\ steering = <<>> /\ followUps = <<>>
      /\ run.pending = <<>> /\ gone = {} /\ unheard = {} /\ given = <<>>
      /\ \A m \in Messages : told[m] = "nothing"
  BY DEF Init, NoRun
<1>3. Filed
  BY <1>1, <1>2 DEF Filed
<1>4. Apart
  BY <1>1, <1>2, EmptyHolds DEF Apart
<1>5. Somewhere
  BY <1>1, <1>2, EmptyHolds, Kinds DEF Somewhere, Queueable
<1>6. Ordered
  BY <1>1, <1>2, EmptyHolds, Kinds DEF Ordered, AllBefore
<1>7. Truthful
  BY <1>1, <1>2, Kinds DEF Truthful
<1> QED BY <1>3, <1>4, <1>5, <1>6, <1>7 DEF Places

\* A message is steered.
LEMMA SteerPlaces ==
    ASSUME TypeOK, Places, Truthful, NEW m \in Steers, Steer(m)
    PROVE  Places' /\ Truthful'
<1>1. /\ steering' = Append(steering, m) /\ given' = Append(given, m) /\ told[m] = "nothing"
      /\ told' = [told EXCEPT ![m] = IF m \in Waiters THEN "waiting" ELSE "given"]
      /\ UNCHANGED <<transcript, saved, written, followUps, run, gone, unheard>>
      /\ m \in Queueable /\ m \in Messages /\ m \notin FollowUps
  BY Kinds DEF Steer, books, Queueable
<1>2. /\ m \notin Range(steering) \cup Range(followUps) \cup Range(run.pending)
                     \cup SaidIn(transcript) \cup gone \cup unheard
      /\ m \notin Range(given)
  BY <1>1 DEF Places, Somewhere, Ordered
<1>3. /\ Range(given') = Range(given) \cup {m}
      /\ \A x, y : Before(given, x, y) => Before(given', x, y)
      /\ \A x \in Range(given) : Before(given', x, m)
  BY <1>1, GivenAppended DEF TypeOK
<1>4. \A x \in Steers : x \in Range(steering) \cup Range(run.pending) \cup SaidIn(transcript)
          => Before(given', x, m)
  <2>1. \A x \in Steers : x \in Range(steering) \cup Range(run.pending) \cup SaidIn(transcript)
            => x \in Range(given)
    BY DEF Places, Somewhere, Ordered, Queueable
  <2> QED BY <1>3, <2>1
<1>5. /\ \A q : InOrder(q, given) => InOrder(q, given')
      /\ \A t : Whole(t, given) => Whole(t, given')
      /\ \A A, B : AllBefore(A, B, given) => AllBefore(A, B, given')
  BY <1>3, OrdersKept
<1>6. /\ Range(steering') = Range(steering) \cup {m} /\ Distinct(steering')
      /\ InOrder(steering', given')
  <2>1. AllBefore(Range(steering), {m}, given')
    BY <1>4 DEF AllBefore
  <2>2. Distinct(steering) /\ InOrder(steering, given')
    BY <1>5 DEF Places, Apart, Ordered
  <2>3. steering \in Seq(Steers) /\ m \in Steers /\ m \notin Range(steering)
    BY <1>1, <1>2 DEF TypeOK
  <2>4. Range(steering') = Range(steering) \cup {m}
    BY <1>1, <2>3, RangeOfAppend
  <2>5. Distinct(steering')
    BY <1>1, <2>2, <2>3, AppendDistinct
  <2>6. InOrder(steering', given')
    BY <1>1, <2>1, <2>2, <2>3, AppendInOrder
  <2> QED BY <2>4, <2>5, <2>6
<1>7. Filed'
  BY <1>1, <1>5 DEF Places, Filed
<1>8. Apart'
  BY <1>1, <1>2, <1>6 DEF Places, Apart
<1>9. told'[m] # "nothing" /\ \A x \in Messages : x # m => told'[x] = told[x]
  BY <1>1 DEF TypeOK
<1>10. Somewhere'
  BY <1>1, <1>6, <1>9, Kinds DEF Places, Somewhere, Queueable
<1>11. Ordered'
  <2>1. \A x \in Steers : told'[x] # "nothing" <=> x \in Range(given')
    BY <1>3, <1>9, Kinds DEF Places, Ordered
  <2>2. InOrder(run'.pending, given')
    BY <1>1, <1>5 DEF Places, Ordered
  <2>3. AllBefore(SaidIn(transcript'), Range(run'.pending) \cup Range(steering'), given')
    BY <1>1, <1>4, <1>5, <1>6 DEF Places, Ordered, AllBefore
  <2>4. AllBefore(Range(run'.pending), Range(steering'), given')
    BY <1>1, <1>4, <1>5, <1>6 DEF Places, Ordered, AllBefore
  <2> QED BY <1>6, <2>1, <2>2, <2>3, <2>4 DEF Ordered
<1>12. Truthful'
  <2>1. m \notin SaidIn(saved)
    BY <1>2 DEF Places, Filed
  <2>2. told'[m] \in {"waiting", "given"}
    BY <1>1 DEF TypeOK
  <2> QED BY <1>1, <1>9, <2>1, <2>2, Kinds DEF Truthful
<1> QED BY <1>7, <1>8, <1>10, <1>11, <1>12 DEF Places

\* A follow-up is queued.
LEMMA FollowUpPlaces ==
    ASSUME TypeOK, Places, Truthful, NEW m \in FollowUps, FollowUp(m)
    PROVE  Places' /\ Truthful'
<1>1. /\ followUps' = Append(followUps, m) /\ told[m] = "nothing"
      /\ told' = [told EXCEPT ![m] = "given"]
      /\ UNCHANGED <<transcript, saved, written, steering, run, gone, unheard, given>>
      /\ m \in Queueable /\ m \in Messages /\ m \notin Steers
  BY Kinds DEF FollowUp, books, Queueable
<1>2. m \notin Range(steering) \cup Range(followUps) \cup Range(run.pending)
                     \cup SaidIn(transcript) \cup gone \cup unheard
  BY <1>1 DEF Places, Somewhere
<1>3. Range(followUps') = Range(followUps) \cup {m} /\ Distinct(followUps')
  <2>1. Distinct(followUps)
    BY DEF Places, Apart
  <2>2. followUps \in Seq(FollowUps) /\ m \notin Range(followUps)
    BY <1>2 DEF TypeOK
  <2> QED BY <1>1, <2>1, <2>2, RangeOfAppend, AppendDistinct
<1>4. told'[m] = "given" /\ \A x \in Messages : x # m => told'[x] = told[x]
  BY <1>1 DEF TypeOK
<1>5. Filed'
  BY <1>1 DEF Places, Filed
<1>6. Apart'
  BY <1>1, <1>2, <1>3 DEF Places, Apart
<1>7. Somewhere'
  BY <1>1, <1>3, <1>4, Kinds DEF Places, Somewhere, Queueable
<1>8. Ordered'
  BY <1>1, <1>4, Kinds DEF Places, Ordered
<1>9. Truthful'
  BY <1>1, <1>4, Kinds DEF Truthful
<1> QED BY <1>5, <1>6, <1>7, <1>8, <1>9 DEF Places

\* A caller gives up: its message is taken off the queue, or is no longer there.
LEMMA GiveUpPlaces ==
    ASSUME TypeOK, Places, Truthful, NEW m \in Waiters, GiveUp(m)
    PROVE  Places' /\ Truthful'
<1>1. /\ told[m] = "waiting" /\ told' = [told EXCEPT ![m] = "rejected"]
      /\ steering' = RemoveFirst(steering, m)
      /\ IF m \in Range(steering) THEN gone' = gone \cup {m} /\ unheard' = unheard
         ELSE unheard' = unheard \cup {m} /\ gone' = gone
      /\ UNCHANGED <<transcript, saved, written, followUps, run, given>>
      /\ m \in Queueable /\ m \in Messages /\ m \notin FollowUps /\ m \in Steers
  BY Kinds DEF GiveUp, books, Queueable
<1>2. /\ Range(steering') = Range(steering) \ {m} /\ Distinct(steering')
      /\ InOrder(steering', given')
  BY <1>1, RemoveHolds DEF TypeOK, Places, Apart, Ordered
<1>3. told'[m] = "rejected" /\ \A x \in Messages : x # m => told'[x] = told[x]
  BY <1>1 DEF TypeOK
<1>4. Filed'
  BY <1>1 DEF Places, Filed
<1>5. Apart'
  <2>1. CASE m \in Range(steering)
    <3>1. m \notin Range(run.pending) \cup Range(followUps) \cup SaidIn(transcript)
      BY <1>1, <2>1, Ranges DEF Places, Apart
    <3> QED BY <1>1, <1>2, <2>1, <3>1 DEF Places, Apart
  <2>2. CASE m \notin Range(steering)
    BY <1>1, <1>2, <2>2 DEF Places, Apart
  <2> QED BY <2>1, <2>2
<1>6. Somewhere'
  BY <1>1, <1>2, <1>3, Kinds DEF Places, Somewhere, Queueable
<1>7. Ordered'
  BY <1>1, <1>2, <1>3, Kinds DEF Places, Ordered, AllBefore
<1>8. Truthful'
  BY <1>1, <1>3, Kinds DEF Truthful
<1> QED BY <1>4, <1>5, <1>6, <1>7, <1>8 DEF Places

\* The transcript goes on with what the file has at least, and the loop is handed nothing
\* new of the queues, or what one of them gave.
LEMMA HandedPlaces ==
    ASSUME TypeOK, Places, Truthful, run.pending = <<>>,
           Whole(transcript', given), Whole(saved', given),
           SaidIn(saved') = SaidIn(saved), SaidIn(saved) \subseteq SaidIn(transcript'),
           SaidIn(transcript') \subseteq SaidIn(transcript),
           SaidIn(transcript) \subseteq SaidIn(transcript') \cup unheard,
           UNCHANGED <<gone, unheard, given>>,
           \A m \in Queueable : told'[m] = told[m],
           \/ /\ UNCHANGED <<steering, followUps>>
              /\ run'.pending \in {<<>>} \cup {<<p>> : p \in Prompts}
           \/ DrainSteering(run'.pending) \/ DrainFollowUps(run'.pending)
    PROVE  Places' /\ Truthful'
<1> DEFINE P == SaidIn(transcript)
           P1 == SaidIn(transcript')
           Q == Range(steering)
           U == Range(followUps)
           R1 == Range(run'.pending)
           Q1 == Range(steering')
           U1 == Range(followUps')
<1>1. /\ Distinct(steering) /\ Distinct(followUps) /\ InOrder(steering, given)
      /\ steering \in Seq(Steers) /\ followUps \in Seq(FollowUps)
      /\ Q \subseteq Steers /\ U \subseteq FollowUps /\ P \subseteq Queueable
  BY Ranges DEF Places, Apart, Ordered, TypeOK
<1>2. /\ Distinct(steering') /\ Distinct(followUps') /\ Distinct(run'.pending)
      /\ InOrder(steering', given) /\ InOrder(run'.pending, given)
      /\ Q \cup U = (R1 \cap Queueable) \cup Q1 \cup U1
      /\ R1 \cap (Q1 \cup U1) = {} /\ Q1 \subseteq Q /\ U1 \subseteq U
      /\ R1 \cap Steers \subseteq Q
      /\ AllBefore(R1, Q1, given)
  <2>1. CASE /\ UNCHANGED <<steering, followUps>>
             /\ run'.pending \in {<<>>} \cup {<<p>> : p \in Prompts}
    <3>1. Distinct(run'.pending) /\ InOrder(run'.pending, given) /\ R1 \subseteq Prompts
      BY <2>1, EmptyHolds, OneHolds
    <3>2. R1 \cap Queueable = {} /\ R1 \cap Steers = {}
      BY <3>1, Kinds DEF Queueable
    <3>3. Q \subseteq Queueable /\ U \subseteq Queueable
      BY <1>1 DEF Queueable
    <3> HIDE DEF R1
    <3>4. AllBefore(R1, Q1, given)
      BY <3>2 DEF AllBefore
    <3> QED BY <1>1, <2>1, <3>1, <3>2, <3>3, <3>4
  <2>2. CASE DrainSteering(run'.pending)
    <3>1. /\ run'.pending = Drained(steering, mode) /\ steering' = LeftIn(steering, mode)
          /\ followUps' = followUps
      BY <2>2 DEF DrainSteering
    <3>2. /\ Q = R1 \cup Q1 /\ R1 \cap Q1 = {} /\ Distinct(run'.pending) /\ Distinct(steering')
          /\ InOrder(run'.pending, given) /\ InOrder(steering', given)
          /\ AllBefore(R1, Q1, given)
      BY <1>1, <3>1, DrainHolds
    <3>3. R1 \subseteq Queueable /\ R1 \cap U = {}
      BY <1>1, <3>2, Kinds DEF Queueable
    <3> HIDE DEF R1, Q1, U1, Q, U
    <3>4. U1 = U
      BY <3>1 DEF U1, U
    <3> QED BY <1>1, <3>1, <3>2, <3>3, <3>4
  <2>3. CASE DrainFollowUps(run'.pending)
    <3>1. /\ run'.pending = Drained(followUps, "one-at-a-time")
          /\ followUps' = LeftIn(followUps, "one-at-a-time")
          /\ steering' = steering
      BY <2>3 DEF DrainFollowUps
    <3>2. /\ U = R1 \cup U1 /\ R1 \cap U1 = {} /\ Distinct(run'.pending) /\ Distinct(followUps')
      BY <1>1, <3>1, DrainHolds
    <3>3. InOrder(run'.pending, given)
      <4>1. InOrder(followUps, given)
        BY <1>1, FollowUpsInOrder
      <4> QED BY <1>1, <3>1, <4>1, DrainHolds
    <3>4. R1 \subseteq Queueable /\ R1 \cap Q = {} /\ R1 \cap Steers = {}
      BY <1>1, <3>2, Kinds DEF Queueable
    <3> HIDE DEF R1, Q1, U1, Q, U
    <3>5. Q1 = Q
      BY <3>1 DEF Q1, Q
    <3>6. AllBefore(R1, Q1, given)
      BY <3>4 DEF AllBefore
    <3> QED BY <1>1, <3>1, <3>2, <3>3, <3>4, <3>5, <3>6
  <2> QED BY <2>1, <2>2, <2>3
<1>3. /\ Range(run.pending) = {}
      /\ P \cap (Q \cup U) = {}
      /\ gone \cap Queueable \cap (Q \cup U \cup P) = {}
  BY EmptyHolds DEF Places, Apart
<1>4. R1 \cap P = {} /\ gone \cap Queueable \cap R1 = {}
  BY <1>1, <1>2, <1>3 DEF Queueable
<1>5. Filed'
  BY DEF Places, Filed
<1>6. Apart'
  <2> HIDE DEF R1, Q1, U1, Q, U, P, P1
  <2>1. P1 \cap (R1 \cup Q1 \cup U1) = {}
    BY <1>2, <1>3, <1>4 DEF P1, P
  <2>2. gone \cap Queueable \cap (R1 \cup Q1 \cup U1 \cup P1) = {}
    BY <1>2, <1>3, <1>4 DEF P1, P
  <2> QED BY <1>2, <2>1, <2>2 DEF Apart, R1, Q1, U1, P1
<1>7. Somewhere'
  <2> SUFFICES ASSUME NEW m \in Queueable
               PROVE  told'[m] = "nothing" <=> m \notin Q1 \cup U1 \cup R1 \cup P1 \cup gone \cup unheard
    BY DEF Somewhere
  <2>1. told[m] = "nothing" <=> m \notin Q \cup U \cup P \cup gone \cup unheard
    BY <1>3 DEF Places, Somewhere
  <2> HIDE DEF R1, Q1, U1, Q, U
  <2>2. m \in Q \cup U <=> m \in Q1 \cup U1 \cup R1
    BY <1>2
  <2>3. m \in P \cup unheard <=> m \in P1 \cup unheard
    OBVIOUS
  <2> QED BY <2>1, <2>2, <2>3
<1>8. Ordered'
  <2>1. AllBefore(P, Q, given)
    BY DEF Places, Ordered, AllBefore
  <2>2. \A m \in Steers : told[m] # "nothing" <=> m \in Range(given)
    BY DEF Places, Ordered
  <2>3. \A m \in Steers : told'[m] # "nothing" <=> m \in Range(given')
    BY <2>2 DEF Queueable
  <2> HIDE DEF R1, Q1, U1, Q, U, P, P1
  <2>4. P1 \subseteq P
    BY DEF P1, P
  <2>5. AllBefore(P1, R1 \cup Q1, given)
    BY <1>2, <2>1, <2>4 DEF AllBefore
  <2> QED BY <1>2, <2>3, <2>5 DEF Ordered, R1, Q1, P1
<1>9. Truthful'
  BY Kinds DEF Truthful, Queueable
<1> QED BY <1>5, <1>6, <1>7, <1>8, <1>9 DEF Places

\* The loop looks into a queue.
LEMMA PollPlaces ==
    ASSUME TypeOK, Alternate, Places, Truthful, FirstPoll \/ PollSteering \/ PollFollowUps
    PROVE  Places' /\ Truthful'
<1>1. /\ UNCHANGED <<transcript, saved, written, sess, told, gone, unheard, given, spent>>
      /\ run.pending = <<>> /\ run \in RunType
  BY DEF FirstPoll, PollSteering, PollFollowUps, books, history, Alternate, TypeOK
<1>2. /\ \A ms \in Seq(Messages) : Turn(ms).pending = ms
      /\ \A pc : [run EXCEPT !.pc = pc].pending = run.pending
  BY <1>1, TurnType DEF RunType
<1>3. \A ms : DrainSteering(ms) \/ DrainFollowUps(ms) => ms \in Seq(Messages)
  BY DrainSteeringType, DrainFollowUpsType
<1>4. <<>> \in Seq(Messages)
  OBVIOUS
<1>5. \/ UNCHANGED <<steering, followUps>> /\ run'.pending = <<>>
      \/ DrainSteering(run'.pending) \/ DrainFollowUps(run'.pending)
  <2>1. CASE FirstPoll
    BY <1>2, <1>3, <1>4, <2>1 DEF FirstPoll, queues
  <2>2. CASE PollSteering
    <3>1. PICK ms : /\ DrainSteering(ms)
                    /\ run' = IF ms # <<>> \/ run.more THEN Turn(ms)
                              ELSE [run EXCEPT !.pc = "followUps"]
      BY <2>2 DEF PollSteering
    <3>2. run'.pending = ms
      BY <1>1, <1>2, <1>3, <3>1
    <3> QED BY <3>1, <3>2
  <2>3. CASE PollFollowUps
    <3>1. PICK ms : /\ DrainFollowUps(ms)
                    /\ run' = IF ms = <<>> THEN [run EXCEPT !.pc = "ended"] ELSE Turn(ms)
      BY <2>3 DEF PollFollowUps
    <3>2. run'.pending = ms
      BY <1>1, <1>2, <1>3, <3>1
    <3> QED BY <3>1, <3>2
  <2> QED BY <2>1, <2>2, <2>3
<1>6. /\ Whole(transcript, given) /\ Whole(saved, given)
      /\ SaidIn(saved) \subseteq SaidIn(transcript)
  BY DEF Places, Filed
<1> QED BY <1>1, <1>5, <1>6, HandedPlaces

\* What the session may go on with has what the file has.
LEMMA TranscriptsWhole ==
    ASSUME TypeOK, Places, NEW t \in Transcripts
    PROVE  /\ Whole(t, given) /\ SaidIn(saved) \subseteq SaidIn(t)
           /\ SaidIn(t) \subseteq SaidIn(transcript)
           /\ SaidIn(transcript) \subseteq SaidIn(t) \cup unheard
<1>1. transcript \in Seq(Entries) /\ saved \in Seq(Entries) /\ Filed
  BY DEF TypeOK, Places
<1>2. t \in {transcript, WithoutAnswer(transcript)} =>
          SaidIn(t) = SaidIn(transcript) /\ Whole(t, given)
  BY <1>1, AnswerDropped DEF Filed
<1>3. t \in {saved, WithoutAnswer(saved)} => SaidIn(t) = SaidIn(saved) /\ Whole(t, given)
  BY <1>1, AnswerDropped DEF Filed
<1> QED BY <1>1, <1>2, <1>3 DEF Transcripts, Filed

LEMMA SessionStepPlaces ==
    ASSUME TypeOK, Alternate, Places, Truthful, SessionStep
    PROVE  Places' /\ Truthful'
<1> PICK t \in Transcripts : Between(t)
  BY DEF SessionStep
<1>1. /\ t \in Seq(Entries) /\ transcript' = t /\ run.pending = <<>>
      /\ UNCHANGED <<saved, written, gone, unheard, given>>
      /\ \A m \in Queueable : told'[m] = told[m]
  BY TranscriptTypes DEF Between, SessionStep, Alternate, Queueable
<1>2. \/ /\ UNCHANGED <<steering, followUps>>
         /\ run'.pending \in {<<>>} \cup {<<p>> : p \in Prompts}
      \/ DrainSteering(run'.pending) \/ DrainFollowUps(run'.pending)
  <2>1. CASE run' = NoRun /\ sess'.pc # "running"
    BY <2>1 DEF Between, NoRun, queues
  <2>2. CASE run' # NoRun \/ sess'.pc = "running"
    <3>1. PICK ms \in Seq(Messages), skip \in BOOLEAN :
              /\ run' = Begun(t, ms, skip)
              /\ \/ UNCHANGED queues /\ ms \in {<<>>} \cup {<<p>> : p \in Prompts}
                 \/ DrainSteering(ms) \/ DrainFollowUps(ms)
      BY <1>1, <2>2, BegunPossible
    <3>2. run'.pending = ms
      BY <1>1, <3>1, BegunParts
    <3> QED BY <3>1, <3>2 DEF queues
  <2> QED BY <2>1, <2>2
<1>3. Whole(saved, given)
  BY DEF Places, Filed
<1> QED BY <1>1, <1>2, <1>3, TranscriptsWhole, HandedPlaces

\* Nothing moves: an entry that is no message of the user may be recorded.
LEMMA RestPlaces ==
    ASSUME TypeOK, Places, Truthful, run.pending = <<>>, run'.pending = <<>>,
           UNCHANGED <<steering, followUps, told, gone, unheard, given>>,
           \/ UNCHANGED books
           \/ \E e \in Entries : (\A m : e # Said(m)) /\ (Record(e) \/ RecordThrows(e))
    PROVE  Places' /\ Truthful'
<1>1. transcript \in Seq(Entries) /\ saved \in Seq(Entries) /\ Filed
  BY DEF TypeOK, Places
<1>2. /\ SaidIn(transcript') = SaidIn(transcript) /\ SaidIn(saved') = SaidIn(saved)
      /\ Whole(transcript', given) /\ Whole(saved', given)
  <2>1. CASE UNCHANGED books
    BY <1>1, <2>1 DEF books, Filed
  <2>2. CASE \E e \in Entries : (\A m : e # Said(m)) /\ (Record(e) \/ RecordThrows(e))
    <3>1. PICK e \in Entries : (\A m : e # Said(m)) /\ (Record(e) \/ RecordThrows(e))
      BY <2>2
    <3>2. /\ transcript' = Append(transcript, e)
          /\ saved' = Append(saved, e) \/ saved' = saved
      BY <3>1 DEF Record, RecordThrows
    <3> QED BY <1>1, <3>1, <3>2, OtherAppended DEF Filed
  <2> QED BY <2>1, <2>2
<1>3. SaidIn(saved) \subseteq SaidIn(transcript)
  BY <1>1 DEF Filed
<1> QED BY <1>2, <1>3, HandedPlaces

\* The first message in the hands of the loop is put in.
LEMMA CommitPlaces ==
    ASSUME TypeOK, Alternate, Places, Truthful, Commit
    PROVE  Places' /\ Truthful'
<1> DEFINE m == Head(run.pending)
           rest == Tail(run.pending)
           P == SaidIn(transcript)
           R == Range(run.pending)
           T == Range(rest)
           Q == Range(steering)
           U == Range(followUps)
<1>1. /\ run.pending \in Seq(Messages) /\ run.pending # <<>> /\ run \in RunType
      /\ transcript \in Seq(Entries) /\ saved \in Seq(Entries)
      /\ UNCHANGED <<steering, followUps>>
  BY DEF Commit, TypeOK, RunType, queues
<1>2. m \in Messages /\ Said(m) \in Entries /\ rest \in Seq(Messages)
  BY <1>1, EntryTypes
<1>3. /\ R = {m} \cup T /\ m \notin T /\ Distinct(rest) /\ InOrder(rest, given)
      /\ AllBefore({m}, T, given)
  <2>1. Distinct(run.pending) /\ InOrder(run.pending, given)
    BY DEF Places, Apart, Ordered
  <2> QED BY <1>1, <2>1, TailHolds
<1>4. /\ m \notin P /\ m \notin SaidIn(saved) /\ m \notin Q /\ m \notin U
      /\ (m \in Queueable => m \notin gone)
  <2>1. m \in R
    BY <1>3
  <2> QED BY <2>1 DEF Places, Apart, Filed
<1>5. AllBefore(P, {m}, given) /\ AllBefore(SaidIn(saved), {m}, given)
  <2>1. m \in R /\ SaidIn(saved) \subseteq P
    BY <1>3 DEF Places, Filed
  <2> QED BY <2>1 DEF Places, Ordered, AllBefore
<1>6. /\ SaidIn(Append(transcript, Said(m))) = P \cup ({m} \cap Queueable)
      /\ Whole(Append(transcript, Said(m)), given)
      /\ SaidIn(Append(saved, Said(m))) = SaidIn(saved) \cup ({m} \cap Queueable)
      /\ Whole(Append(saved, Said(m)), given)
  <2>1. Whole(transcript, given) /\ Whole(saved, given)
    BY DEF Places, Filed
  <2> QED BY <1>1, <1>2, <1>4, <1>5, <2>1, SaidAppended
<1>7. /\ T \cap (Q \cup U) = {} /\ P \cap (T \cup Q \cup U) = {}
      /\ gone \cap Queueable \cap (T \cup Q \cup U \cup P \cup {m}) = {}
      /\ Distinct(steering) /\ Distinct(followUps) /\ InOrder(steering, given)
  <2>1. /\ R \cap (Q \cup U) = {} /\ P \cap (R \cup Q \cup U) = {}
        /\ gone \cap Queueable \cap (R \cup Q \cup U \cup P) = {}
        /\ Distinct(steering) /\ Distinct(followUps) /\ InOrder(steering, given)
    BY DEF Places, Apart, Ordered
  <2> HIDE DEF m, T, R, P, Q, U
  <2> QED BY <1>3, <2>1
<1>8. AllBefore(P \cup {m}, T \cup Q, given) /\ AllBefore(T, Q, given)
  <2>1. AllBefore(P, R \cup Q, given) /\ AllBefore(R, Q, given)
    BY DEF Places, Ordered
  <2> HIDE DEF m, T, R, P, Q, U
  <2> QED BY <1>3, <2>1 DEF AllBefore
<1>9. /\ \A x \in Queueable : told[x] = "nothing" <=>
            x \notin Q \cup U \cup T \cup {m} \cup P \cup gone \cup unheard
      /\ \A x \in Steers : told[x] # "nothing" <=> x \in Range(given)
      /\ Whole(saved, given)
      /\ SaidIn(saved) \subseteq P /\ P \subseteq SaidIn(saved) \cup unheard
  <2>1. /\ \A x \in Queueable : told[x] = "nothing" <=>
              x \notin Q \cup U \cup R \cup P \cup gone \cup unheard
        /\ \A x \in Steers : told[x] # "nothing" <=> x \in Range(given)
        /\ Whole(saved, given)
        /\ SaidIn(saved) \subseteq P /\ P \subseteq SaidIn(saved) \cup unheard
    BY DEF Places, Filed, Somewhere, Ordered
  <2> HIDE DEF m, T, R, P, Q, U
  <2> QED BY <1>3, <2>1
<1>10. CASE /\ Record(Said(m))
            /\ told' = TellCommitted(m)
            /\ run'.pending = rest
            /\ UNCHANGED <<gone, unheard, given>>
  <2>1. /\ SaidIn(transcript') = P \cup ({m} \cap Queueable) /\ Whole(transcript', given)
        /\ SaidIn(saved') = SaidIn(saved) \cup ({m} \cap Queueable) /\ Whole(saved', given)
    BY <1>6, <1>10 DEF Record
  <2>2. /\ Range(run'.pending) = T /\ Distinct(run'.pending) /\ InOrder(run'.pending, given)
        /\ Range(steering') = Q /\ Range(followUps') = U
    BY <1>1, <1>3, <1>10
  <2>3. \A x \in Messages : /\ told'[x] = "nothing" <=> told[x] = "nothing"
                            /\ x # m => told'[x] = told[x]
                            /\ told'[m] # "waiting"
                            /\ told'[m] = "rejected" => told[m] = "rejected"
    BY <1>2, <1>10 DEF TypeOK, TellCommitted
  <2> HIDE DEF m, rest, T, R, P, Q, U
  <2>4. Filed'
    BY <1>9, <1>10, <2>1 DEF Filed
  <2>5. Apart'
    <3>1. m \notin Q \cup U \cup T
      BY <1>3, <1>4 DEF T, Q, U
    <3>2. SaidIn(transcript') \cap (T \cup Q \cup U) = {}
      BY <1>7, <2>1, <3>1
    <3>3. gone' \cap Queueable \cap (T \cup Q \cup U \cup SaidIn(transcript')) = {}
      BY <1>7, <1>10, <2>1
    <3> QED BY <1>1, <1>7, <2>2, <3>2, <3>3 DEF Apart
  <2>6. Somewhere'
    <3>1. \A x \in Queueable : told'[x] = "nothing" <=>
              x \notin Q \cup U \cup T \cup SaidIn(transcript') \cup gone \cup unheard
      <4>1. Queueable \subseteq Messages
        BY Kinds DEF Queueable
      <4> QED BY <1>9, <2>1, <2>3, <4>1
    <3> QED BY <1>10, <2>2, <3>1 DEF Somewhere
  <2>7. Ordered'
    <3>1. AllBefore(SaidIn(transcript'), T \cup Q, given)
      BY <1>8, <2>1 DEF AllBefore
    <3>2. \A x \in Steers : told'[x] # "nothing" <=> x \in Range(given)
      BY <1>9, <2>3, Kinds
    <3> QED BY <1>1, <1>7, <1>8, <1>10, <2>2, <3>1, <3>2 DEF Ordered
  <2>8. Truthful'
    <3> SUFFICES ASSUME NEW w \in Waiters
                 PROVE  /\ told'[w] = "committed" => w \in SaidIn(saved') \cup unheard'
                        /\ told'[w] = "rejected" => w \in unheard' \cup gone'
                        /\ told'[w] = "waiting" => w \notin SaidIn(saved')
      BY DEF Truthful
    <3>1. w \in Messages /\ w \in Queueable
      BY Kinds DEF Queueable
    <3>2. CASE w = m
      BY <1>10, <2>1, <2>3, <3>1, <3>2 DEF Truthful
    <3>3. CASE w # m
      BY <1>10, <2>1, <2>3, <3>1, <3>3 DEF Truthful
    <3> QED BY <3>2, <3>3
  <2> QED BY <2>4, <2>5, <2>6, <2>7, <2>8 DEF Places
<1>11. CASE /\ RecordThrows(Said(m)) /\ Fail(rest)
            /\ told' \in {told, TellCommitted(m)}
            /\ saved' # saved => told' = TellCommitted(m)
            /\ unheard' = unheard \cup {m}
            /\ UNCHANGED given
  <2>1. /\ SaidIn(transcript') = P \cup ({m} \cap Queueable) /\ Whole(transcript', given)
        /\ Whole(saved', given)
        /\ SaidIn(saved') \in {SaidIn(saved), SaidIn(saved) \cup ({m} \cap Queueable)}
    BY <1>6, <1>9, <1>11 DEF RecordThrows
  <2>2. /\ run'.pending = <<>> /\ gone' = gone \cup T
        /\ Range(steering') = Q /\ Range(followUps') = U
    BY <1>1, <1>11 DEF Fail, NoRun
  <2>3. Range(run'.pending) = {} /\ Distinct(run'.pending) /\ InOrder(run'.pending, given)
    BY <2>2, EmptyHolds
  <2>9. \A x \in Messages : /\ told'[x] = "nothing" <=> told[x] = "nothing"
                            /\ x # m => told'[x] = told[x]
                            /\ told'[x] = "rejected" => told[x] = "rejected"
                            /\ saved' # saved => told'[m] # "waiting"
                            /\ told'[m] = "waiting" => told[m] = "waiting"
    BY <1>2, <1>11 DEF TypeOK, TellCommitted
  <2> HIDE DEF m, rest, T, R, P, Q, U
  <2>4. Filed'
    BY <1>9, <1>11, <2>1 DEF Filed
  <2>5. Apart'
    <3>1. m \notin Q \cup U \cup T
      BY <1>3, <1>4 DEF T, Q, U
    <3>2. SaidIn(transcript') \cap (Q \cup U) = {}
      BY <1>7, <2>1, <3>1
    <3>3. gone' \cap Queueable \cap (Q \cup U \cup SaidIn(transcript')) = {}
      BY <1>7, <2>1, <2>2, <3>1
    <3> QED BY <1>1, <1>7, <2>2, <2>3, <3>2, <3>3 DEF Apart
  <2>6. Somewhere'
    <3>1. \A x \in Queueable : told'[x] = "nothing" <=>
              x \notin Q \cup U \cup SaidIn(transcript') \cup gone' \cup unheard'
      <4>1. Queueable \subseteq Messages
        BY Kinds DEF Queueable
      <4> QED BY <1>9, <1>11, <2>1, <2>2, <2>9, <4>1
    <3> QED BY <1>11, <2>2, <2>3, <3>1 DEF Somewhere
  <2>7. Ordered'
    <3>1. /\ AllBefore(SaidIn(transcript'), Range(run'.pending) \cup Q, given)
          /\ AllBefore(Range(run'.pending), Q, given)
      BY <1>8, <2>1, <2>3 DEF AllBefore
    <3>2. \A x \in Steers : told'[x] # "nothing" <=> x \in Range(given)
      BY <1>9, <2>9, Kinds
    <3> QED BY <1>1, <1>7, <1>11, <2>2, <2>3, <3>1, <3>2 DEF Ordered
  <2>8. Truthful'
    <3> SUFFICES ASSUME NEW w \in Waiters
                 PROVE  /\ told'[w] = "committed" => w \in SaidIn(saved') \cup unheard'
                        /\ told'[w] = "rejected" => w \in unheard' \cup gone'
                        /\ told'[w] = "waiting" => w \notin SaidIn(saved')
      BY DEF Truthful
    <3>1. w \in Messages /\ w \in Queueable
      BY Kinds DEF Queueable
    <3>2. CASE w = m
      <4>1. saved' = saved => SaidIn(saved') = SaidIn(saved)
        OBVIOUS
      <4> QED BY <1>11, <2>2, <2>9, <3>1, <3>2, <4>1 DEF Truthful
    <3>3. CASE w # m
      BY <1>11, <2>1, <2>2, <2>9, <3>1, <3>3 DEF Truthful
    <3> QED BY <3>2, <3>3
  <2> QED BY <2>4, <2>5, <2>6, <2>7, <2>8 DEF Places
<1>12. \/ /\ Record(Said(m))
          /\ told' = TellCommitted(m)
          /\ run'.pending = rest
          /\ UNCHANGED <<gone, unheard, given>>
       \/ /\ RecordThrows(Said(m)) /\ Fail(rest)
          /\ told' \in {told, TellCommitted(m)}
          /\ saved' # saved => told' = TellCommitted(m)
          /\ unheard' = unheard \cup {m}
          /\ UNCHANGED given
  BY <1>1 DEF Commit, history, RunType
<1> QED BY <1>10, <1>11, <1>12

\* A run throws: the messages in its hands are lost.
LEMMA ThrowPlaces ==
    ASSUME TypeOK, Alternate, Places, Truthful, Throw
    PROVE  Places' /\ Truthful'
<1>1. /\ run'.pending = <<>> /\ gone' = gone \cup Range(run.pending)
      /\ UNCHANGED <<transcript, saved, written, steering, followUps, told, unheard, given>>
  BY DEF Throw, Fail, NoRun, books, queues
<1>2. Range(run'.pending) = {} /\ Distinct(run'.pending) /\ InOrder(run'.pending, given)
  BY <1>1, EmptyHolds
<1>3. Filed'
  BY <1>1 DEF Places, Filed
<1>4. Apart'
  BY <1>1, <1>2 DEF Places, Apart
<1>5. Somewhere'
  BY <1>1, <1>2 DEF Places, Somewhere
<1>6. Ordered'
  BY <1>1, <1>2 DEF Places, Ordered, AllBefore
<1>7. Truthful'
  BY <1>1 DEF Truthful
<1> QED BY <1>3, <1>4, <1>5, <1>6, <1>7 DEF Places

\* An answer, the calls of its tools and their results, and what a failed run says: nothing
\* moves.
LEMMA FailNothing ==
    ASSUME Fail(<<>>)
    PROVE  run'.pending = <<>> /\ gone' = gone
BY EmptyHolds DEF Fail, NoRun

LEMMA AnswerPlaces ==
    ASSUME TypeOK, Alternate, Places, Truthful,
           \/ \E stop \in Stops, n \in 0..MaxCalls : Respond(stop, n)
           \/ RecordFailure \/ RejectRun
    PROVE  Places' /\ Truthful'
<1>1. \A stop \in Stops, n \in 0..MaxCalls :
         Answer(stop, n) \in Entries /\ \A m : Answer(stop, n) # Said(m)
  BY EntryTypes, EntriesDiffer, Bounds
<1>2. ASSUME NEW stop \in Stops, NEW n \in 0..MaxCalls, Respond(stop, n)
      PROVE  Places' /\ Truthful'
  <2>1. /\ run.pending = <<>> /\ run \in RunType
        /\ UNCHANGED <<steering, followUps, told, unheard, given>>
        /\ Record(Answer(stop, n)) \/ RecordThrows(Answer(stop, n))
    BY <1>2 DEF Respond, Alternate, queues, TypeOK
  <2>2. run'.pending = <<>> /\ gone' = gone
    <3>1. CASE RecordThrows(Answer(stop, n)) /\ Fail(<<>>)
      BY <3>1, FailNothing
    <3>2. CASE /\ \E next \in Following(Answer(stop, n)) :
                     run' = [next EXCEPT !.context = Append(@, Answer(stop, n))]
               /\ UNCHANGED gone
      <4>1. PICK next \in Following(Answer(stop, n)) :
                     run' = [next EXCEPT !.context = Append(@, Answer(stop, n))]
        BY <3>2
      <4>2. n \in Nat
        BY Bounds
      <4>3. next \in RunType /\ next.pending = run.pending
        BY <2>1, <4>1, <4>2, FollowingParts
      <4> QED BY <2>1, <3>2, <4>1, <4>3 DEF RunType
    <3> QED BY <1>2, <3>1, <3>2 DEF Respond
  <2> QED BY <1>1, <2>1, <2>2, RestPlaces
<1>3. CASE RecordFailure \/ RejectRun
  <2>1. FailureOf \in Entries /\ \A m : FailureOf # Said(m)
    BY EntryTypes, EntriesDiffer DEF FailureOf, Stops
  <2>2. /\ run.pending = <<>> /\ run'.pending = <<>> /\ run \in RunType
        /\ UNCHANGED <<steering, followUps, told, gone, unheard, given>>
    <3>1. CASE RecordFailure
      BY <3>1 DEF RecordFailure, Alternate, queues, history, TypeOK, RunType
    <3>2. CASE RejectRun
      BY <3>2 DEF RejectRun, Alternate, queues, NoRun, TypeOK
    <3> QED BY <1>3, <3>1, <3>2
  <2>3. UNCHANGED books \/ Record(FailureOf) \/ RecordThrows(FailureOf)
    BY <1>3 DEF RecordFailure, RejectRun
  <2> QED BY <2>1, <2>2, <2>3, RestPlaces
<1> QED BY <1>2, <1>3

LEMMA ToolPlaces ==
    ASSUME TypeOK, Alternate, Places, Truthful,
           \/ \E i \in 1..MaxCalls : BeginCall(i)
           \/ \E i \in 1..MaxCalls : EndTool(i)
           \/ \E i \in 1..MaxCalls : CommitResult(i)
           \/ BatchOver
    PROVE  Places' /\ Truthful'
<1>1. run.pending = <<>> /\ run \in RunType
  BY DEF BeginCall, NextCall, EndTool, CommitResult, BatchOver, Alternate, TypeOK
<1>2. CASE \E i \in 1..MaxCalls : BeginCall(i) \/ EndTool(i)
  <2>1. run'.pending = <<>>
    BY <1>1, <1>2 DEF BeginCall, EndTool, RunType
  <2>2. UNCHANGED <<books, steering, followUps, told, gone, unheard, given>>
    BY <1>2 DEF BeginCall, EndTool, queues, history
  <2> QED BY <1>1, <2>1, <2>2, RestPlaces
<1>3. CASE BatchOver
  <2>1. run'.pending = <<>>
    BY <1>1, <1>3 DEF BatchOver, RunType
  <2>2. UNCHANGED <<books, steering, followUps, told, gone, unheard, given>>
    BY <1>3 DEF BatchOver, queues, history
  <2> QED BY <1>1, <2>1, <2>2, RestPlaces
<1>4. ASSUME NEW i \in 1..MaxCalls, CommitResult(i)
      PROVE  Places' /\ Truthful'
  <2>1. Result(i) \in Entries /\ \A m : Result(i) # Said(m)
    BY EntryTypes, EntriesDiffer, Bounds
  <2>2. run'.pending = <<>> /\ gone' = gone
    BY <1>1, <1>4, FailNothing DEF CommitResult, RunType
  <2>3. /\ UNCHANGED <<steering, followUps, told, unheard, given>>
        /\ Record(Result(i)) \/ RecordThrows(Result(i))
    BY <1>4 DEF CommitResult, queues
  <2> QED BY <1>1, <2>1, <2>2, <2>3, RestPlaces
<1> QED BY <1>2, <1>3, <1>4

\* A state where messages are, in the same hands.
LEMMA AbortPlaces ==
    ASSUME TypeOK, Alternate, Places, Truthful, Abort
    PROVE  Places' /\ Truthful'
<1>1. CASE SessionStep
  BY <1>1, SessionStepPlaces
<1>2. CASE /\ run' = [run EXCEPT !.aborted = TRUE]
           /\ UNCHANGED <<books, queues, sess, told, gone, unheard, given>>
  <2>1. run'.pending = run.pending
    BY <1>2 DEF TypeOK, RunType
  <2> QED BY <1>2, <2>1 DEF Places, Filed, Apart, Somewhere, Ordered, Truthful, books, queues
<1> QED BY <1>1, <1>2, AbortBetween

LEMMA StepPlaces ==
    ASSUME TypeOK, Alternate, Places, Truthful, [Next]_vars
    PROVE  Places' /\ Truthful'
<1>1. CASE Next
  BY <1>1, Steps, SteerPlaces, FollowUpPlaces, GiveUpPlaces, CommitPlaces, PollPlaces,
     AnswerPlaces, ToolPlaces, ThrowPlaces, AbortPlaces, SessionStepPlaces
<1>2. CASE UNCHANGED vars
  BY <1>2 DEF vars, books, queues, history, Places, Filed, Apart, Somewhere, Ordered, Truthful
<1> QED BY <1>1, <1>2

LEMMA PlacesAlways == Spec => [](TypeOK /\ Places /\ Truthful)
<1>1. Init => TypeOK /\ Alternate /\ Places /\ Truthful
  BY InitTypes, InitPlaces
<1>2. (TypeOK /\ Alternate /\ Places /\ Truthful) /\ [Next]_vars
          => (TypeOK /\ Alternate /\ Places /\ Truthful)'
  BY StepTypes, StepPlaces
<1> QED BY <1>1, <1>2, PTL DEF Spec

LEMMA PlacesSuffice ==
    ASSUME TypeOK, Places
    PROVE  EveryMessageOnce
<1>1. ASSUME NEW m \in Queueable
      PROVE  /\ Times(m, steering) = IF m \in Range(steering) THEN 1 ELSE 0
             /\ Times(m, followUps) = IF m \in Range(followUps) THEN 1 ELSE 0
             /\ Times(m, run.pending) = IF m \in Range(run.pending) THEN 1 ELSE 0
             /\ Times(Said(m), transcript) = IF m \in SaidIn(transcript) THEN 1 ELSE 0
  <2>1. /\ Times(m, steering) = IF m \in Range(steering) THEN 1 ELSE 0
        /\ Times(m, followUps) = IF m \in Range(followUps) THEN 1 ELSE 0
        /\ Times(m, run.pending) = IF m \in Range(run.pending) THEN 1 ELSE 0
    BY TimesOnce DEF Places, Apart, Distinct
  <2>2. \A i, j \in DOMAIN transcript : transcript[i] = Said(m) /\ transcript[j] = Said(m) => i = j
    BY DEF Places, Filed, Whole
  <2>3. Times(Said(m), transcript) = IF Said(m) \in Range(transcript) THEN 1 ELSE 0
    BY <2>2, TimesOnce
  <2> QED BY <2>1, <2>3 DEF SaidIn
<1>2. ASSUME NEW m \in Queueable, told[m] # "nothing"
      PROVE  LET n == Times(m, steering) + Times(m, followUps) + Times(m, run.pending)
                   + Times(Said(m), transcript) + (IF m \in gone THEN 1 ELSE 0)
             IN  n = 1 \/ (n = 0 /\ m \in unheard)
  <2>1. m \in Range(steering) => m \notin Range(followUps) \cup Range(run.pending)
                                     \cup SaidIn(transcript) \cup gone
    BY <1>2, Ranges, Kinds DEF Places, Apart
  <2>2. m \in Range(followUps) => m \notin Range(run.pending) \cup SaidIn(transcript) \cup gone
    BY <1>2 DEF Places, Apart
  <2>3. m \in Range(run.pending) => m \notin SaidIn(transcript) \cup gone
    BY <1>2 DEF Places, Apart
  <2>4. m \in SaidIn(transcript) => m \notin gone
    BY <1>2 DEF Places, Apart
  <2>5. m \in Range(steering) \cup Range(followUps) \cup Range(run.pending)
                \cup SaidIn(transcript) \cup gone \cup unheard
    BY <1>2 DEF Places, Somewhere
  <2> QED BY <1>1, <1>2, <2>1, <2>2, <2>3, <2>4, <2>5
<1>3. \A i, j \in DOMAIN transcript : \A m, n \in Steers :
          i < j /\ transcript[i] = Said(m) /\ transcript[j] = Said(n) => GivenBefore(m, n)
  BY DEF Places, Filed, Whole, Before, GivenBefore
<1> QED BY <1>2, <1>3 DEF EveryMessageOnce, Queueable

\* A message that was steered or queued is in one place, once, or gone for a known reason,
\* and those steered enter the transcript in the order they were given: for any messages,
\* polls in either mode, failures, aborts, retries and compactions.
THEOREM MessagesOnce == Spec => []EveryMessageOnce
<1>1. TypeOK /\ Places /\ Truthful => EveryMessageOnce
  BY PlacesSuffice
<1> QED BY <1>1, PlacesAlways, PTL

\* What the session manager appends, and its file: an entry is recorded, or recording it
\* throws, which is noted when it is a message.
LEMMA FileMoves ==
    ASSUME TypeOK, Alternate, [Next]_vars
    PROVE  /\ unheard \subseteq unheard'
           /\ \/ UNCHANGED <<saved, written>>
              \/ \E e \in Entries :
                    \/ Record(e)
                    \/ RecordThrows(e) /\ \A m : e = Said(m) => m \in unheard'
<1> DEFINE Goal == /\ unheard \subseteq unheard'
                   /\ \/ UNCHANGED <<saved, written>>
                      \/ \E e \in Entries :
                            \/ Record(e)
                            \/ RecordThrows(e) /\ \A m : e = Said(m) => m \in unheard'
<1>1. CASE \/ \E m \in Steers : Steer(m)
           \/ \E m \in FollowUps : FollowUp(m)
           \/ \E m \in Waiters : GiveUp(m)
  BY <1>1 DEF Steer, FollowUp, GiveUp, books
<1>2. CASE FirstPoll \/ BatchOver \/ PollSteering \/ PollFollowUps \/ Throw \/ SessionStep
  BY <1>2 DEF FirstPoll, BatchOver, PollSteering, PollFollowUps, Throw, SessionStep, books, history
<1>3. CASE \E i \in 1..MaxCalls : BeginCall(i) \/ EndTool(i)
  BY <1>3 DEF BeginCall, EndTool, books, history
<1>4. CASE Commit
  <2> DEFINE m == Head(run.pending)
  <2>1. Said(m) \in Entries
    BY <1>4, EntryTypes DEF Commit, TypeOK, RunType
  <2>2. \A x : Said(m) = Said(x) => x = m
    BY DEF Said
  <2>3. \/ Record(Said(m)) /\ unheard' = unheard
        \/ RecordThrows(Said(m)) /\ unheard' = unheard \cup {m}
    BY <1>4 DEF Commit, history
  <2> HIDE DEF m
  <2> QED BY <2>1, <2>2, <2>3
<1>5. CASE \E stop \in Stops, n \in 0..MaxCalls : Respond(stop, n)
  <2>1. PICK stop \in Stops, n \in 0..MaxCalls : Respond(stop, n)
    BY <1>5
  <2>2. Answer(stop, n) \in Entries /\ \A m : Answer(stop, n) # Said(m)
    BY EntryTypes, EntriesDiffer, Bounds
  <2>3. /\ Record(Answer(stop, n)) \/ RecordThrows(Answer(stop, n))
        /\ unheard' = unheard
    BY <2>1 DEF Respond
  <2> QED BY <2>2, <2>3
<1>6. CASE \E i \in 1..MaxCalls : CommitResult(i)
  <2>1. PICK i \in 1..MaxCalls : CommitResult(i)
    BY <1>6
  <2>2. Result(i) \in Entries /\ \A m : Result(i) # Said(m)
    BY EntryTypes, EntriesDiffer, Bounds
  <2>3. /\ Record(Result(i)) \/ RecordThrows(Result(i))
        /\ unheard' = unheard
    BY <2>1 DEF CommitResult
  <2> QED BY <2>2, <2>3
<1>7. CASE RecordFailure \/ RejectRun
  <2>1. FailureOf \in Entries /\ \A m : FailureOf # Said(m)
    BY EntryTypes, EntriesDiffer DEF FailureOf, Stops
  <2>2. /\ UNCHANGED books \/ Record(FailureOf) \/ RecordThrows(FailureOf)
        /\ unheard' = unheard
    BY <1>7 DEF RecordFailure, RejectRun, history
  <2> QED BY <2>1, <2>2 DEF books
<1>8. CASE Abort
  <2>1. SessionStep \/ UNCHANGED <<books, unheard>>
    BY <1>8, AbortBetween
  <2> QED BY <1>2, <2>1 DEF books
<1>9. CASE UNCHANGED vars
  BY <1>9 DEF vars, books, history
<1> QED BY <1>1, <1>2, <1>3, <1>4, <1>5, <1>6, <1>7, <1>8, <1>9, Steps

\* Until the session has an answer its file has nothing; with the first write that goes well
\* it has all the entries so far, and from then on each whose write goes well.
LEMMA KeptStep ==
    ASSUME TypeOK, Alternate, Kept, [Next]_vars
    PROVE  Kept'
<1>1. saved \in Seq(Entries) /\ unheard \subseteq unheard'
  BY FileMoves DEF TypeOK
<1>2. CASE UNCHANGED <<saved, written>>
  BY <1>1, <1>2 DEF Kept, Answered
<1>3. ASSUME NEW e \in Entries,
             Record(e) \/ (RecordThrows(e) /\ \A m : e = Said(m) => m \in unheard')
      PROVE  Kept'
  <2>1. CASE saved' = saved /\ written' = written
    BY <1>2, <2>1
  <2>2. ASSUME saved' = Append(saved, e), written' # {},
               \/ written' = Persisted(saved')
               \/ written' = written /\ \A m : e = Said(m) => m \in unheard'
        PROVE  Kept'
    <3>1. /\ saved' \in Seq(Entries) /\ Len(saved') = Len(saved) + 1 /\ Len(saved) \in Nat
          /\ saved'[Len(saved')] = e
          /\ \A i \in DOMAIN saved : i \in DOMAIN saved' /\ saved'[i] = saved[i]
          /\ \A i \in DOMAIN saved' : i \in DOMAIN saved \/ i = Len(saved')
      BY <1>1, <2>2, AppendProperties
    <3>2. Answered(saved) => Answered(saved')
      BY <3>1 DEF Answered
    <3>3. /\ Answered(saved')
          /\ written = {} => written' = DOMAIN saved'
          /\ written # {} => written \subseteq written'
                             /\ (Len(saved') \in written' \/ \A m : e = Said(m) => m \in unheard')
      BY <2>2, <3>2 DEF Persisted, Kept
    <3>4. ASSUME NEW i \in DOMAIN saved', NEW m \in Messages, saved'[i] = Said(m)
          PROVE  i \in written' \/ m \in unheard'
      <4>1. CASE written = {}
        BY <3>3, <4>1
      <4>2. CASE written # {} /\ i \in DOMAIN saved
        BY <1>1, <3>1, <3>3, <3>4, <4>2 DEF Kept
      <4>3. CASE written # {} /\ i = Len(saved')
        BY <3>1, <3>3, <3>4, <4>3
      <4> QED BY <3>1, <4>1, <4>2, <4>3
    <3> QED BY <3>3, <3>4 DEF Kept, Answered
  <2>3. CASE written' = {}
    BY <2>3 DEF Kept
  <2> QED BY <1>3, <2>1, <2>2, <2>3 DEF Record, RecordThrows
<1> QED BY <1>2, <1>3, FileMoves

LEMMA KeptAlways == Spec => []Kept
<1>1. Init => TypeOK /\ Alternate /\ Kept
  BY InitTypes DEF Init, Kept
<1>2. (TypeOK /\ Alternate /\ Kept) /\ [Next]_vars => (TypeOK /\ Alternate /\ Kept)'
  BY StepTypes, KeptStep
<1> QED BY <1>1, <1>2, PTL DEF Spec

\* What steerAndWaitForTranscriptCommit tells its caller: a message reported as committed is
\* in the session, and in its file once there is one, unless a listener or the write threw
\* after the caller was told; one reported as not committed is not there, unless the loop had
\* taken it; and no caller waits for a message that is there.
THEOREM CallersToldTheTruth == Spec => []HonestAnswers
<1>1. ASSUME TypeOK, Places, Truthful, Kept
      PROVE  HonestAnswers
  <2> SUFFICES ASSUME NEW m \in Waiters
               PROVE  /\ told[m] = "committed" => \/ m \in unheard
                                                  \/ \E i \in DOMAIN saved :
                                                        /\ saved[i] = Said(m)
                                                        /\ written = {} \/ i \in written
                      /\ told[m] = "rejected" => m \in unheard \/ (m \in gone /\ m \notin Range(steering))
                      /\ told[m] = "waiting" => Said(m) \notin Range(saved)
    BY DEF HonestAnswers
  <2>1. m \in Queueable /\ m \in Messages
    BY Kinds DEF Queueable
  <2>2. m \in gone => m \notin Range(steering)
    BY <1>1, <2>1 DEF Places, Apart
  <2>3. m \in SaidIn(saved) <=> \E i \in DOMAIN saved : saved[i] = Said(m)
    BY <2>1 DEF SaidIn, Range
  <2>4. told[m] = "committed" => m \in unheard \/ m \in SaidIn(saved)
    BY <1>1 DEF Truthful
  <2>5. \A i \in DOMAIN saved : saved[i] = Said(m) => written = {} \/ i \in written \/ m \in unheard
    BY <1>1, <2>1 DEF Kept
  <2>6. told[m] = "waiting" => Said(m) \notin Range(saved)
    BY <1>1, <2>1 DEF Truthful, SaidIn
  <2> QED BY <1>1, <2>2, <2>3, <2>4, <2>5, <2>6 DEF Truthful
<1> QED BY <1>1, PlacesAlways, KeptAlways, PTL

-----------------------------------------------------------------------------
(* What is left in the queues *)

EndedWell == {"stop", "toolUse"}

\* What is left was given after the loop had looked there for the last time: a run ends
\* well only when it has looked into both queues, and a failed one does not end well.
Polled ==
    /\ run.pc = "followUps" => Range(steering) \subseteq sess.late
    /\ run.pc \in {"none", "ended"} /\ sess.stop \in EndedWell =>
          Range(steering) \cup Range(followUps) \subseteq sess.late
    /\ run.pc = "failed" => sess.stop \notin EndedWell

LEMMA InitPolled == Init => Polled
BY EmptyHolds DEF Init, Polled, NoRun, Resting, EndedWell

\* Giving messages: one that is too late is counted as such.
LEMMA GivingPolled ==
    ASSUME TypeOK, Places, Polled,
           \/ \E m \in Steers : Steer(m)
           \/ \E m \in FollowUps : FollowUp(m)
           \/ \E m \in Waiters : GiveUp(m)
    PROVE  Polled'
<1>0. /\ steering \in Seq(Steers) /\ followUps \in Seq(FollowUps) /\ sess \in SessionType
      /\ Distinct(steering)
  BY DEF TypeOK, Places, Apart
<1>1. ASSUME NEW m \in Steers, Steer(m)
      PROVE  Polled'
  <2>1. /\ run.pc # "none" /\ UNCHANGED <<followUps, run>>
        /\ sess' = IF run.pc \in Over \cup {"followUps"}
                   THEN [sess EXCEPT !.late = @ \cup {m}] ELSE sess
    BY <1>1 DEF Steer
  <2>2. Range(steering') = Range(steering) \cup {m}
    BY <1>0, <1>1, RangeOfAppend DEF Steer
  <2>3. /\ sess'.stop = sess.stop
        /\ run.pc \in {"followUps", "ended"} => sess'.late = sess.late \cup {m}
    BY <1>0, <2>1 DEF SessionType, Over
  <2> QED BY <2>1, <2>2, <2>3 DEF Polled
<1>2. ASSUME NEW m \in FollowUps, FollowUp(m)
      PROVE  Polled'
  <2>1. /\ run.pc # "none" /\ UNCHANGED <<steering, run>>
        /\ sess' = IF run.pc \in Over THEN [sess EXCEPT !.late = @ \cup {m}] ELSE sess
    BY <1>2 DEF FollowUp
  <2>2. Range(followUps') = Range(followUps) \cup {m}
    BY <1>0, <1>2, RangeOfAppend DEF FollowUp
  <2>3. /\ sess'.stop = sess.stop /\ sess.late \subseteq sess'.late
        /\ run.pc = "ended" => sess'.late = sess.late \cup {m}
    BY <1>0, <2>1 DEF SessionType, Over
  <2> QED BY <2>1, <2>2, <2>3 DEF Polled
<1>3. ASSUME NEW m \in Waiters, GiveUp(m)
      PROVE  Polled'
  <2>1. steering' = RemoveFirst(steering, m) /\ UNCHANGED <<followUps, run, sess>>
    BY <1>3 DEF GiveUp
  <2>2. Range(steering') = Range(steering) \ {m}
    BY <1>0, <2>1, RemoveHolds
  <2> QED BY <2>1, <2>2 DEF Polled
<1> QED BY <1>1, <1>2, <1>3

\* The loop looks into the queues.
LEMMA PollPolled ==
    ASSUME TypeOK, Polled, FirstPoll \/ PollSteering \/ PollFollowUps
    PROVE  Polled'
<1>1. run \in RunType /\ sess' = sess /\ steering \in Seq(Steers) /\ followUps \in Seq(FollowUps)
  BY DEF FirstPoll, PollSteering, PollFollowUps, TypeOK
<1>2. \A ms \in Seq(Messages) : Turn(ms).pc \in {"request", "inject"}
  BY <1>1, TurnType
<1>3. \A ms : DrainSteering(ms) \/ DrainFollowUps(ms) => ms \in Seq(Messages)
  BY DrainSteeringType, DrainFollowUpsType
<1>4. CASE run'.pc \in {"request", "inject"}
  BY <1>4 DEF Polled
<1>5. CASE FirstPoll
  <2>1. <<>> \in Seq(Messages)
    OBVIOUS
  <2> QED BY <1>2, <1>3, <1>4, <1>5, <2>1 DEF FirstPoll
<1>6. CASE PollSteering
  <2>1. PICK ms : /\ DrainSteering(ms)
                  /\ run' = IF ms # <<>> \/ run.more THEN Turn(ms)
                            ELSE [run EXCEPT !.pc = "followUps"]
    BY <1>6 DEF PollSteering
  <2>2. CASE ms # <<>> \/ run.more
    BY <1>2, <1>3, <1>4, <2>1, <2>2
  <2>3. CASE ms = <<>> /\ ~run.more
    <3>1. run'.pc = "followUps"
      BY <1>1, <2>1, <2>3 DEF RunType
    <3>2. steering = <<>> /\ steering' = <<>>
      BY <1>1, <2>1, <2>3, DrainType DEF DrainSteering, LeftIn
    <3> QED BY <3>1, <3>2, EmptyHolds DEF Polled
  <2> QED BY <2>2, <2>3
<1>7. CASE PollFollowUps
  <2>1. PICK ms : /\ DrainFollowUps(ms)
                  /\ run' = IF ms = <<>> THEN [run EXCEPT !.pc = "ended"] ELSE Turn(ms)
    BY <1>7 DEF PollFollowUps
  <2>2. CASE ms # <<>>
    BY <1>2, <1>3, <1>4, <2>1, <2>2
  <2>3. CASE ms = <<>>
    <3>1. run'.pc = "ended" /\ run.pc = "followUps"
      BY <1>1, <1>7, <2>1, <2>3 DEF RunType, PollFollowUps
    <3>2. followUps = <<>> /\ followUps' = <<>> /\ steering' = steering
      BY <1>1, <2>1, <2>3, DrainType DEF DrainFollowUps, LeftIn
    <3> QED BY <1>1, <3>1, <3>2, EmptyHolds DEF Polled
  <2> QED BY <2>2, <2>3
<1> QED BY <1>5, <1>6, <1>7

\* An answer, and the end of a run.
LEMMA AnswerPolled ==
    ASSUME TypeOK, Alternate, Polled,
           \/ \E stop \in Stops, n \in 0..MaxCalls : Respond(stop, n)
           \/ RecordFailure \/ RejectRun \/ Throw \/ Commit
    PROVE  Polled'
<1>0. run \in RunType /\ sess \in SessionType
  BY DEF TypeOK
<1>1. ASSUME NEW lost, Fail(lost)
      PROVE  Polled'
  <2>1. run'.pc \in {"failing", "aborting"}
    BY <1>1 DEF Fail, NoRun
  <2> QED BY <2>1 DEF Polled
<1>2. ASSUME NEW stop \in Stops, NEW n \in 0..MaxCalls, Respond(stop, n)
      PROVE  Polled'
  <2>1. CASE /\ \E next \in Following(Answer(stop, n)) :
                    run' = [next EXCEPT !.context = Append(@, Answer(stop, n))]
             /\ sess' = Heard(stop)
    <3>1. PICK next \in Following(Answer(stop, n)) :
                   run' = [next EXCEPT !.context = Append(@, Answer(stop, n))]
      BY <2>1
    <3>2. n \in Nat
      BY Bounds
    <3>3. /\ next \in RunType /\ next.pc \in {"ended", "turnEnd", "tools"}
          /\ next.pc = "ended" => stop \in {"error", "aborted"}
      BY <1>0, <3>1, <3>2, FollowingParts
    <3>4. run'.pc = next.pc /\ sess'.stop = stop
      BY <1>0, <2>1, <3>1, <3>3, HeardType DEF RunType
    <3> QED BY <3>3, <3>4 DEF Polled, EndedWell
  <2> QED BY <1>1, <1>2, <2>1 DEF Respond
<1>3. CASE RecordFailure
  <2>1. FailureOf.what \in {"error", "aborted"}
    BY DEF FailureOf, Answer
  <2>2. sess'.stop = FailureOf.what
    BY <1>0, <1>3, <2>1, HeardType DEF RecordFailure, Stops
  <2>3. run'.pc = "failed"
    BY <1>0, <1>3 DEF RecordFailure, RunType
  <2> QED BY <2>1, <2>2, <2>3 DEF Polled, EndedWell
<1>4. CASE RejectRun
  <2>1. sess'.stop = "none" /\ run'.pc = "none"
    BY <1>0, <1>4 DEF RejectRun, SessionType, NoRun
  <2> QED BY <2>1 DEF Polled, EndedWell
<1>5. CASE Throw
  BY <1>1, <1>5 DEF Throw
<1>6. CASE Commit
  <2>1. CASE run'.pc \in {"prompts", "inject", "request"}
    BY <2>1 DEF Polled
  <2>2. CASE run' = [run EXCEPT
                !.pending = Tail(@),
                !.context = IF run.pc = "inject" THEN Append(@, Said(Head(run.pending))) ELSE @,
                !.pc = IF @ = "inject" /\ Len(run.pending) = 1 THEN "request" ELSE @]
    BY <1>0, <1>6, <2>1, <2>2 DEF Commit, RunType
  <2> QED BY <1>1, <1>6, <2>2 DEF Commit
<1> QED BY <1>2, <1>3, <1>4, <1>5, <1>6

LEMMA ToolPolled ==
    ASSUME TypeOK, Polled,
           \/ \E i \in 1..MaxCalls : BeginCall(i)
           \/ \E i \in 1..MaxCalls : EndTool(i)
           \/ \E i \in 1..MaxCalls : CommitResult(i)
           \/ BatchOver
    PROVE  Polled'
<1>1. run.pc = "tools" /\ run \in RunType
  BY DEF BeginCall, NextCall, EndTool, CommitResult, BatchOver, TypeOK
<1>2. run'.pc \in {"tools", "turnEnd", "failing", "aborting"}
  BY <1>1 DEF BeginCall, EndTool, CommitResult, BatchOver, Fail, NoRun, RunType
<1> QED BY <1>2 DEF Polled

\* Between runs what the session knows of the last run is kept with its queues, or forgotten.
LEMMA SessionStepPolled ==
    ASSUME TypeOK, Polled, SessionStep
    PROVE  Polled'
<1> PICK t \in Transcripts : Between(t)
  BY DEF SessionStep
<1>1. t \in Seq(Entries)
  BY TranscriptTypes
<1>2. CASE run' # NoRun \/ sess'.pc = "running"
  <2>1. PICK ms \in Seq(Messages), skip \in BOOLEAN : run' = Begun(t, ms, skip)
    BY <1>1, <1>2, BegunPossible
  <2>2. run'.pc = "prompts"
    BY <1>1, <2>1, BegunParts
  <2> QED BY <2>2 DEF Polled
<1>3. CASE /\ run' = NoRun /\ sess'.pc # "running" /\ UNCHANGED queues
           /\ sess'.stop = "none" \/ (sess'.stop = sess.stop /\ sess'.late = sess.late)
  <2>1. run'.pc = "none" /\ UNCHANGED <<steering, followUps>>
    BY <1>3 DEF NoRun, queues
  <2>2. run.pc \in {"none", "ended", "failed"}
    BY DEF SessionStep
  <2> QED BY <1>3, <2>1, <2>2 DEF Polled, EndedWell
<1> QED BY <1>2, <1>3 DEF Between

LEMMA StepPolled ==
    ASSUME TypeOK, Alternate, Places, Polled, [Next]_vars
    PROVE  Polled'
<1>1. CASE Abort
  <2>1. CASE SessionStep
    BY <2>1, SessionStepPolled
  <2>2. CASE run' = [run EXCEPT !.aborted = TRUE] /\ UNCHANGED <<books, queues, sess>>
    <3>1. run'.pc = run.pc
      BY <2>2 DEF TypeOK, RunType
    <3> QED BY <2>2, <3>1 DEF Polled, queues
  <2> QED BY <1>1, <2>1, <2>2, AbortBetween
<1>2. CASE Next
  BY <1>1, <1>2, Steps, GivingPolled, PollPolled, AnswerPolled, ToolPolled, SessionStepPolled
<1>3. CASE UNCHANGED vars
  BY <1>3 DEF vars, queues, Polled
<1> QED BY <1>2, <1>3

\* When a prompt has ended well, only messages that came after the last look into their
\* queue are left there.
THEOREM NothingIsLeftBehind == Spec => []NothingLeftBehind
<1>1. Init => TypeOK /\ Alternate /\ Places /\ Truthful /\ Polled
  BY InitTypes, InitPlaces, InitPolled
<1>2. (TypeOK /\ Alternate /\ Places /\ Truthful /\ Polled) /\ [Next]_vars
          => (TypeOK /\ Alternate /\ Places /\ Truthful /\ Polled)'
  BY StepTypes, StepPlaces, StepPolled
<1>3. TypeOK /\ Alternate /\ Places /\ Truthful /\ Polled => NothingLeftBehind
  <2> SUFFICES ASSUME TypeOK, Alternate, Polled, sess.pc = "idle", sess.stop \in EndedWell
               PROVE  Range(steering \o followUps) \subseteq sess.late
    BY DEF NothingLeftBehind, EndedWell
  <2>1. run.pc = "none"
    BY DEF Alternate
  <2>2. steering \in Seq(Messages) /\ followUps \in Seq(Messages)
    BY Kinds, SeqMonotonic DEF TypeOK
  <2>3. Range(steering \o followUps) = Range(steering) \cup Range(followUps)
    BY <2>2, RangeConcatenation
  <2> QED BY <2>1, <2>3 DEF Polled
<1> QED BY <1>1, <1>2, <1>3, PTL DEF Spec

-----------------------------------------------------------------------------
(* The context of the loop *)

\* Each answer of t after its first base entries has its results.
Complete(t, base) ==
    \A i \in (base + 1)..Len(t) : t[i].by = "assistant" =>
        \A n \in 1..t[i].n : i + n <= Len(t) /\ t[i + n] = Result(n)

\* While the messages a run begins with are put in, its context is ahead of the transcript.
Ahead ==
    /\ run.base <= Len(transcript)
    /\ \A i \in (run.base + 1)..Len(transcript) : transcript[i].by = "user"
    /\ Len(run.context) = Len(transcript) + Len(run.pending)
    /\ \A i \in 1..Len(transcript) : run.context[i] = transcript[i]
    /\ \A i \in 1..Len(run.pending) : run.context[Len(transcript) + i] = Said(run.pending[i])

\* While the tools run, it is behind: by the results of the first n calls, those that were
\* answered.
Behind(n) ==
    /\ n <= Len(run.calls)
    /\ Len(transcript) = Len(run.context) + n
    /\ \A i \in 1..Len(run.context) : transcript[i] = run.context[i]
    /\ \A i \in 1..n : transcript[Len(run.context) + i] = Result(i)
    /\ \A i \in 1..Len(run.calls) : run.calls[i] = "answered" <=> i <= n
    /\ run.base < Len(run.context)
    /\ run.context[Len(run.context)].by = "assistant"
    /\ run.context[Len(run.context)].n = Len(run.calls)
    /\ ~run.aborted =>
          /\ \A i \in 1..Len(run.calls) : run.calls[i] # "skipped"
          /\ Complete(Front(run.context), run.base)

Contexts ==
    /\ run.pc = "prompts" => Ahead
    /\ run.pc = "tools" => \E n \in Nat : Behind(n)
    /\ run.pc \in {"inject", "request", "turnEnd", "followUps"} =>
          /\ run.context = transcript /\ run.base <= Len(transcript)
          /\ ~run.aborted => Complete(transcript, run.base)

\* The types of the parts of a run.
LEMMA RunParts ==
    ASSUME TypeOK
    PROVE  /\ run \in RunType /\ run.context \in Seq(Entries) /\ run.pending \in Seq(Messages)
           /\ run.calls \in Seq(CallStates) /\ run.base \in Nat /\ run.aborted \in BOOLEAN
           /\ transcript \in Seq(Entries) /\ Len(transcript) \in Nat /\ Len(run.context) \in Nat
           /\ Len(run.pending) \in Nat /\ Len(run.calls) \in Nat
BY DEF TypeOK, RunType

\* An entry that asks for nothing is appended.
LEMMA CompleteAppended ==
    ASSUME NEW t \in Seq(Entries), NEW base \in Nat, NEW e \in Entries, Complete(t, base),
           e.by # "assistant" \/ e.n = 0
    PROVE  Complete(Append(t, e), base)
<1> DEFINE u == Append(t, e)
<1>1. /\ Len(t) \in Nat /\ Len(u) = Len(t) + 1 /\ u[Len(t) + 1] = e
      /\ \A i \in 1..Len(t) : u[i] = t[i]
  OBVIOUS
<1> HIDE DEF u
<1> SUFFICES ASSUME NEW i \in (base + 1)..Len(u), u[i].by = "assistant", NEW n \in 1..u[i].n
             PROVE  i + n <= Len(u) /\ u[i + n] = Result(n)
  BY DEF Complete, u
<1>2. CASE i = Len(t) + 1
  <2>1. u[i] = e /\ e.n = 0
    BY <1>1, <1>2
  <2> QED BY <2>1
<1>3. CASE i # Len(t) + 1
  <2>1. i \in (base + 1)..Len(t) /\ u[i] = t[i]
    BY <1>1, <1>3
  <2>2. i + n <= Len(t) /\ t[i + n] = Result(n)
    BY <2>1 DEF Complete
  <2>3. t[i].n \in Int
    <3>1. t[i] \in Entries
      BY <2>1
    <3> QED BY <3>1 DEF Entries, Said, Answer, Result
  <2>4. i + n \in 1..Len(t)
    BY <1>1, <2>1, <2>2, <2>3
  <2> QED BY <1>1, <2>2, <2>4
<1> QED BY <1>2, <1>3

\* A transcript of messages only after base.
LEMMA CompleteMessages ==
    ASSUME NEW t, NEW base, \A i \in (base + 1)..Len(t) : t[i].by = "user"
    PROVE  Complete(t, base)
BY DEF Complete

\* A run begins.
LEMMA BegunContext ==
    ASSUME TypeOK, TypeOK', NEW t \in Seq(Entries), NEW ms \in Seq(Messages), NEW skip \in BOOLEAN,
           transcript' = t, run' = Begun(t, ms, skip)
    PROVE  Contexts'
<1>1. /\ run'.pc = "prompts" /\ run'.pending = ms /\ run'.base = Len(t)
      /\ run'.context = t \o AllSaid(ms)
  BY BegunParts
<1>2. /\ AllSaid(ms) \in Seq(Entries) /\ Len(AllSaid(ms)) = Len(ms)
      /\ \A i \in 1..Len(ms) : AllSaid(ms)[i] = Said(ms[i])
      /\ Len(t) \in Nat /\ Len(ms) \in Nat
  BY AllSaidType
<1>3. /\ Len(run'.context) = Len(t) + Len(ms)
      /\ \A i \in 1..Len(t) : run'.context[i] = t[i]
      /\ \A i \in 1..Len(ms) : run'.context[Len(t) + i] = Said(ms[i])
  <2> DEFINE a == AllSaid(ms)
  <2>1. a \in Seq(Entries) /\ Len(a) = Len(ms)
    BY <1>2
  <2> HIDE DEF a
  <2>2. /\ Len(t \o a) = Len(t) + Len(a)
        /\ \A i \in 1..Len(t) : (t \o a)[i] = t[i]
        /\ \A i \in 1..Len(a) : (t \o a)[Len(t) + i] = a[i]
    BY <2>1
  <2> QED BY <1>1, <1>2, <2>1, <2>2 DEF a
<1>4. Ahead'
  BY <1>1, <1>2, <1>3 DEF Ahead
<1> QED BY <1>1, <1>4 DEF Contexts

\* The first message in the hands of the loop is put in, into the context too if the run
\* did not begin with it.
LEMMA CommitContext ==
    ASSUME TypeOK, Alternate, Contexts, Commit
    PROVE  Contexts'
<1> DEFINE m == Head(run.pending)
           rest == Tail(run.pending)
<1>1. /\ run.pc \in {"prompts", "inject"} /\ run.pending # <<>> /\ m \in Messages
      /\ Said(m) \in Entries /\ Said(m).by = "user" /\ m = run.pending[1]
  <2>1. run.pending \in Seq(Messages) /\ run.pending # <<>>
    BY RunParts DEF Commit
  <2>2. m \in Messages /\ m = run.pending[1]
    BY <2>1
  <2> QED BY <2>1, <2>2, EntryTypes DEF Commit, Said
<1>2. /\ Len(run.pending) > 0 /\ Len(rest) = Len(run.pending) - 1
      /\ \A i \in 1..Len(rest) : rest[i] = run.pending[i + 1]
  <2>1. run.pending \in Seq(Messages)
    BY RunParts
  <2>2. Len(run.pending) \in Nat \ {0}
    BY <1>1, <2>1, EmptySeq
  <2> QED BY <1>1, <2>1, <2>2, HeadTailProperties
<1> HIDE DEF m, rest
<1>3. CASE /\ Record(Said(m))
           /\ run' = [run EXCEPT
                 !.pending = rest,
                 !.context = IF run.pc = "inject" THEN Append(@, Said(m)) ELSE @,
                 !.pc = IF @ = "inject" /\ Len(run.pending) = 1 THEN "request" ELSE @]
  <2>1. transcript' = Append(transcript, Said(m))
    BY <1>3 DEF Record
  <2>2. /\ Len(transcript') = Len(transcript) + 1
        /\ \A i \in 1..Len(transcript) : transcript'[i] = transcript[i]
        /\ transcript'[Len(transcript) + 1] = Said(m)
    BY <1>1, <2>1, RunParts, AppendProperties
  <2>3. CASE run.pc = "prompts"
    <3>1. /\ run'.pc = "prompts" /\ run'.context = run.context /\ run'.pending = rest
          /\ run'.base = run.base
      BY <1>3, <2>3, RunParts DEF RunType
    <3>2. Ahead
      BY <2>3 DEF Contexts
    <3>3. run.base <= Len(transcript') /\ Len(run.context) = Len(transcript') + Len(rest)
      <4>1. run.base <= Len(transcript) /\ Len(run.context) = Len(transcript) + Len(run.pending)
        BY <3>2 DEF Ahead
      <4>2. run.base \in Nat /\ Len(transcript) \in Nat /\ Len(run.pending) \in Nat
        BY RunParts
      <4>3. Len(rest) = Len(run.pending) - 1 /\ Len(transcript') = Len(transcript) + 1
        BY <1>2, <2>2
      <4>4. run.base <= Len(transcript')
        BY <4>1, <4>2, <4>3
      <4>5. PICK p \in Nat : p = Len(run.pending)
        BY <4>2
      <4>6. Len(run.context) = Len(transcript) + p /\ Len(rest) = p - 1
        BY <4>1, <4>3, <4>5
      <4>7. Len(run.context) = Len(transcript') + Len(rest)
        <5>1. Len(transcript') = Len(transcript) + 1 /\ Len(transcript) \in Nat
          BY <4>2, <4>3
        <5> QED BY <4>6, <5>1
      <4> QED BY <4>4, <4>7
    <3>4. \A i \in (run.base + 1)..Len(transcript') : transcript'[i].by = "user"
      <4> TAKE i \in (run.base + 1)..Len(transcript')
      <4>1. CASE i \in (run.base + 1)..Len(transcript)
        <5>1. i \in 1..Len(transcript)
          BY <4>1, RunParts
        <5> QED BY <2>2, <3>2, <4>1, <5>1 DEF Ahead
      <4>2. CASE i = Len(transcript) + 1
        BY <1>1, <2>2, <4>2
      <4> QED BY <2>2, <4>1, <4>2, RunParts
    <3>5. \A i \in 1..Len(transcript') : run.context[i] = transcript'[i]
      <4> TAKE i \in 1..Len(transcript')
      <4>1. CASE i \in 1..Len(transcript)
        BY <2>2, <3>2, <4>1 DEF Ahead
      <4>2. CASE i = Len(transcript) + 1
        <5>1. 1 \in 1..Len(run.pending)
          BY <1>2, RunParts
        <5> QED BY <1>1, <2>2, <3>2, <4>2, <5>1 DEF Ahead
      <4> QED BY <2>2, <4>1, <4>2, RunParts
    <3>6. \A i \in 1..Len(rest) : run.context[Len(transcript') + i] = Said(rest[i])
      <4> TAKE i \in 1..Len(rest)
      <4>1. i + 1 \in 1..Len(run.pending) /\ Len(transcript') + i = Len(transcript) + (i + 1)
        BY <1>2, <2>2, RunParts
      <4> QED BY <1>2, <3>2, <4>1 DEF Ahead
    <3>7. Ahead'
      BY <3>1, <3>3, <3>4, <3>5, <3>6 DEF Ahead
    <3> QED BY <3>1, <3>7 DEF Contexts
  <2>4. CASE run.pc = "inject"
    <3>1. /\ run'.pc \in {"inject", "request"} /\ run'.context = Append(run.context, Said(m))
          /\ run'.base = run.base /\ run'.aborted = run.aborted
      BY <1>3, <2>4, RunParts DEF RunType
    <3>2. /\ run.context = transcript /\ run.base <= Len(transcript)
          /\ ~run.aborted => Complete(transcript, run.base)
      BY <2>4 DEF Contexts
    <3>3. ~run.aborted => Complete(transcript', run.base)
      BY <1>1, <2>1, <3>2, RunParts, CompleteAppended
    <3> QED BY <2>1, <2>2, <3>1, <3>2, <3>3, RunParts DEF Contexts
  <2> QED BY <1>1, <2>3, <2>4
<1>4. ASSUME NEW lost, Fail(lost)
      PROVE  Contexts'
  BY <1>4 DEF Fail, NoRun, Contexts
<1> QED BY <1>3, <1>4 DEF Commit, m, rest

\* The loop looks into a queue.
LEMMA PollContext ==
    ASSUME TypeOK, Alternate, Contexts, FirstPoll \/ PollSteering \/ PollFollowUps
    PROVE  Contexts'
<1>1. run.pc \in {"prompts", "turnEnd", "followUps"} /\ run.pending = <<>> /\ transcript' = transcript
  BY DEF FirstPoll, PollSteering, PollFollowUps, books, Alternate
<1>2. /\ run.context = transcript /\ run.base <= Len(transcript)
      /\ ~run.aborted => Complete(transcript, run.base)
  <2>1. CASE run.pc = "prompts"
    <3>1. Ahead /\ Len(run.pending) = 0
      BY <1>1, <2>1 DEF Contexts
    <3>2. Len(run.context) = Len(transcript)
      BY <3>1, RunParts DEF Ahead
    <3>3. run.context = transcript
      BY <3>1, <3>2, RunParts, SeqEqual DEF Ahead
    <3>4. Complete(transcript, run.base)
      BY <3>1, CompleteMessages DEF Ahead
    <3> QED BY <3>1, <3>3, <3>4 DEF Ahead
  <2>2. CASE run.pc # "prompts"
    BY <1>1, <2>2 DEF Contexts
  <2> QED BY <2>1, <2>2
<1>3. \A ms : DrainSteering(ms) \/ DrainFollowUps(ms) => ms \in Seq(Messages)
  BY DrainSteeringType, DrainFollowUpsType
<1>4. <<>> \in Seq(Messages)
  OBVIOUS
<1>5. \/ \E ms \in Seq(Messages) : run' = Turn(ms)
      \/ run' = [run EXCEPT !.pc = "followUps"]
      \/ run' = [run EXCEPT !.pc = "ended"]
  BY <1>3, <1>4 DEF FirstPoll, PollSteering, PollFollowUps
<1>6. /\ run'.context = run.context /\ run'.base = run.base /\ run'.aborted = run.aborted
      /\ run'.pc \in {"request", "inject", "followUps", "ended"}
  <2>1. CASE \E ms \in Seq(Messages) : run' = Turn(ms)
    BY <2>1, RunParts, TurnType
  <2>2. CASE run' = [run EXCEPT !.pc = "followUps"] \/ run' = [run EXCEPT !.pc = "ended"]
    BY <2>2, RunParts DEF RunType
  <2> QED BY <1>5, <2>1, <2>2
<1> QED BY <1>1, <1>2, <1>6 DEF Contexts

\* An answer: its tool calls come next, or the end of the turn.
LEMMA RespondContext ==
    ASSUME TypeOK, Alternate, Contexts, NEW stop \in Stops, NEW n \in 0..MaxCalls, Respond(stop, n)
    PROVE  Contexts'
<1> DEFINE answer == Answer(stop, n)
<1>1. /\ answer \in Entries /\ answer.by = "assistant" /\ answer.n = n /\ n \in Nat
      /\ run.pc = "request" /\ (stop # "toolUse" => n = 0)
  <2>1. n \in Nat
    BY Bounds
  <2>2. answer \in Entries
    BY <2>1, EntryTypes
  <2> QED BY <2>1, <2>2 DEF Respond, Answer
<1> HIDE DEF answer
<1>2. /\ run.context = transcript /\ run.base <= Len(transcript)
      /\ ~run.aborted => Complete(transcript, run.base)
  BY <1>1 DEF Contexts
<1>3. CASE RecordThrows(answer) /\ Fail(<<>>)
  BY <1>3 DEF Fail, NoRun, Contexts
<1>4. CASE /\ Record(answer)
           /\ \E next \in Following(answer) :
                 run' = [next EXCEPT !.context = Append(@, answer)]
  <2>1. PICK next \in Following(answer) : run' = [next EXCEPT !.context = Append(@, answer)]
    BY <1>4
  <2>2. /\ next \in RunType /\ next.pc \in {"ended", "turnEnd", "tools"}
        /\ next.context = run.context /\ next.base = run.base /\ next.aborted = run.aborted
        /\ next.pc = "turnEnd" <=> stop = "stop"
        /\ next.pc = "tools" => next.calls = [i \in 1..n |-> "new"]
    <3>1. run \in RunType /\ n \in Nat
      BY <1>1, RunParts
    <3>2. /\ next \in RunType /\ next.context = run.context
          /\ next.pc \in {"ended", "turnEnd", "tools"}
      BY <2>1, <3>1, FollowingParts DEF answer
    <3>3. /\ next.base = run.base /\ next.aborted = run.aborted
          /\ next.pc = "turnEnd" <=> stop = "stop"
          /\ next.pc = "tools" => next.calls = [i \in 1..n |-> "new"]
      BY <2>1, <3>1, FollowingCalls DEF answer
    <3> QED BY <3>2, <3>3
  <2>3. /\ run'.pc = next.pc /\ run'.context = Append(transcript, answer) /\ run'.base = run.base
        /\ run'.aborted = run.aborted /\ run'.calls = next.calls
        /\ transcript' = Append(transcript, answer)
    BY <1>2, <1>4, <2>1, <2>2 DEF RunType, Record
  <2>4. /\ Len(transcript') = Len(transcript) + 1
        /\ \A i \in 1..Len(transcript) : transcript'[i] = transcript[i]
        /\ transcript'[Len(transcript) + 1] = answer
        /\ transcript' \in Seq(Entries)
    BY <1>1, <2>3, RunParts, AppendProperties
  <2>5. CASE next.pc = "ended"
    BY <2>3, <2>5 DEF Contexts
  <2>6. CASE next.pc = "turnEnd"
    <3>1. answer.n = 0
      BY <1>1, <2>2, <2>6
    <3>2. ~run.aborted => Complete(transcript', run.base)
      BY <1>1, <1>2, <2>3, <3>1, RunParts, CompleteAppended
    <3>3. run.base <= Len(transcript')
      BY <1>2, <2>4, RunParts
    <3> QED BY <2>3, <2>6, <3>2, <3>3 DEF Contexts
  <2>7. CASE next.pc = "tools"
    <3>1. /\ run'.calls = [i \in 1..n |-> "new"] /\ Len(run'.calls) = n
          /\ \A i \in 1..n : run'.calls[i] = "new"
      BY <1>1, <2>2, <2>3, <2>7
    <3>2. Front(run'.context) = transcript
      <4>1. /\ Front(transcript') \in Seq(Entries)
            /\ Len(Front(transcript')) = Len(transcript') - 1
            /\ \A i \in 1..Len(transcript') - 1 : Front(transcript')[i] = transcript'[i]
        <5>1. transcript' # <<>>
          BY <2>4, RunParts, EmptySeq
        <5> QED BY <2>4, <5>1, FrontType
      <4>2. Len(transcript') - 1 = Len(transcript)
        BY <2>4, RunParts
      <4>3. Front(transcript') = transcript
        BY <2>4, <4>1, <4>2, RunParts, SeqEqual
      <4> QED BY <2>3, <4>3
    <3>3. Behind(0)'
      <4>1. run.base < Len(transcript') /\ 0 <= n /\ Len(transcript') = Len(transcript') + 0
        BY <1>1, <1>2, <2>4, RunParts
      <4>2. transcript'[Len(transcript')] = answer
        BY <2>4
      <4>3. run'.context = transcript'
        BY <2>3
      <4> QED BY <1>1, <1>2, <2>3, <3>1, <3>2, <4>1, <4>2, <4>3 DEF Behind
    <3> QED BY <2>3, <2>7, <3>3 DEF Contexts
  <2> QED BY <2>2, <2>5, <2>6, <2>7
<1> QED BY <1>3, <1>4 DEF Respond, answer

\* The calls of an answer: what has a result keeps it.
LEMMA CallContext ==
    ASSUME TypeOK, Alternate, Contexts, NEW i \in 1..MaxCalls, BeginCall(i) \/ EndTool(i)
    PROVE  Contexts'
<1>1. run.pc = "tools" /\ i \in 1..Len(run.calls) /\ run.calls[i] \in {"new", "ready"}
      /\ transcript' = transcript
  BY RunParts DEF BeginCall, NextCall, EndTool, books
<1>2. PICK n \in Nat : Behind(n)
  BY <1>1 DEF Contexts
<1>3. /\ run'.pc = "tools" /\ run'.context = run.context /\ run'.base = run.base
      /\ run'.aborted = run.aborted
      /\ Len(run'.calls) = Len(run.calls)
      /\ \A j \in 1..Len(run.calls) :
            \/ run'.calls[j] = run.calls[j]
            \/ j >= i /\ run'.calls[j] # "answered" /\ (run'.calls[j] = "skipped" => run.aborted)
  <2>1. CASE i > 1 /\ run.aborted /\ run' = [run EXCEPT !.calls =
                [j \in DOMAIN @ |-> IF j < i THEN @[j] ELSE "skipped"]]
    <3> DEFINE c == [j \in DOMAIN run.calls |-> IF j < i THEN run.calls[j] ELSE "skipped"]
    <3>1. run' = [run EXCEPT !.calls = c]
      BY <2>1, RunParts DEF RunType
    <3>2. DOMAIN run.calls = 1..Len(run.calls)
      BY RunParts
    <3>3. Len(c) = Len(run.calls) /\ \A j \in 1..Len(run.calls) : c[j] = IF j < i THEN run.calls[j] ELSE "skipped"
      BY <3>2, RunParts
    <3> HIDE DEF c
    <3>4. /\ run'.pc = run.pc /\ run'.context = run.context /\ run'.base = run.base
          /\ run'.aborted = run.aborted /\ run'.calls = c
      BY <3>1, RunParts DEF RunType
    <3>5. \A j \in 1..Len(run.calls) : ~(j < i) => j >= i
      BY <1>1, RunParts
    <3>6. \A j \in 1..Len(run.calls) :
             \/ run'.calls[j] = run.calls[j]
             \/ j >= i /\ run'.calls[j] = "skipped"
      BY <3>3, <3>4, <3>5
    <3> QED BY <1>1, <2>1, <3>3, <3>4, <3>6
  <2>2. CASE \E s \in {"ended", "ready"} : run' = [run EXCEPT !.calls[i] = s]
    <3>1. PICK s \in {"ended", "ready"} : run' = [run EXCEPT !.calls[i] = s]
      BY <2>2
    <3>2. /\ run'.pc = run.pc /\ run'.context = run.context /\ run'.base = run.base
          /\ run'.aborted = run.aborted /\ run'.calls = [run.calls EXCEPT ![i] = s]
      BY <3>1, RunParts DEF RunType
    <3>3. /\ Len([run.calls EXCEPT ![i] = s]) = Len(run.calls)
          /\ \A j \in 1..Len(run.calls) :
                [run.calls EXCEPT ![i] = s][j] = IF j = i THEN s ELSE run.calls[j]
      BY <1>1, RunParts
    <3> QED BY <1>1, <3>2, <3>3
  <2> QED BY <2>1, <2>2 DEF BeginCall, EndTool
<1>4. n < i
  <2>1. ~(i <= n)
    BY <1>1, <1>2 DEF Behind
  <2> QED BY <1>1, <2>1, RunParts
<1>5. \A j \in 1..Len(run.calls) : run'.calls[j] = "answered" <=> j <= n
  <2> TAKE j \in 1..Len(run.calls)
  <2>1. run.calls[j] = "answered" <=> j <= n
    BY <1>2 DEF Behind
  <2>2. j >= i => ~(j <= n)
    BY <1>1, <1>4
  <2> QED BY <1>3, <2>1, <2>2
<1>6. ~run.aborted => \A j \in 1..Len(run.calls) : run'.calls[j] # "skipped"
  BY <1>2, <1>3 DEF Behind
<1>7. Behind(n)'
  BY <1>1, <1>2, <1>3, <1>5, <1>6 DEF Behind
<1> QED BY <1>3, <1>7 DEF Contexts

\* The result of a call is put in: that of the next one without a result.
LEMMA CommitResultContext ==
    ASSUME TypeOK, Alternate, Contexts, NEW i \in 1..MaxCalls, CommitResult(i)
    PROVE  Contexts'
<1>1. /\ run.pc = "tools" /\ i \in 1..Len(run.calls) /\ run.calls[i] = "ended"
      /\ \A j \in 1..(i - 1) : run.calls[j] = "answered"
      /\ Result(i) \in Entries
  BY RunParts, EntryTypes DEF CommitResult
<1>2. PICK n \in Nat : Behind(n)
  BY <1>1 DEF Contexts
<1>3. CASE RecordThrows(Result(i)) /\ Fail(<<>>)
  BY <1>3 DEF Fail, NoRun, Contexts
<1>4. CASE Record(Result(i)) /\ run' = [run EXCEPT !.calls[i] = "answered"]
  <2>1. i = n + 1
    <3>1. ~(i <= n)
      BY <1>1, <1>2 DEF Behind
    <3>2. i - 1 <= n
      <4>1. CASE i = 1
        BY <4>1
      <4>2. CASE i > 1
        <5>1. i - 1 \in 1..Len(run.calls) /\ i - 1 \in 1..(i - 1)
          BY <1>1, <4>2, RunParts
        <5> QED BY <1>1, <1>2, <5>1 DEF Behind
      <4> QED BY <1>1, <4>1, <4>2
    <3> QED BY <1>1, <3>1, <3>2
  <2>2. /\ Len(transcript') = Len(transcript) + 1
        /\ \A j \in 1..Len(transcript) : transcript'[j] = transcript[j]
        /\ transcript'[Len(transcript) + 1] = Result(i)
    BY <1>1, <1>4, RunParts, AppendProperties DEF Record
  <2>3. /\ run'.pc = "tools" /\ run'.context = run.context /\ run'.base = run.base
        /\ run'.aborted = run.aborted /\ run'.calls = [run.calls EXCEPT ![i] = "answered"]
    BY <1>1, <1>4, RunParts DEF RunType
  <2>4. /\ Len(run'.calls) = Len(run.calls)
        /\ \A j \in 1..Len(run.calls) :
              run'.calls[j] = IF j = i THEN "answered" ELSE run.calls[j]
    BY <1>1, <2>3, RunParts
  <2>5. /\ n + 1 <= Len(run.calls) /\ Len(transcript') = Len(run.context) + (n + 1)
        /\ Len(transcript) = Len(run.context) + n
    <3>1. Len(transcript) = Len(run.context) + n
      BY <1>2 DEF Behind
    <3>2. Len(run.context) \in Nat /\ Len(run.calls) \in Nat
      BY RunParts
    <3>3. n + 1 <= Len(run.calls)
      BY <1>1, <2>1, <3>2
    <3>4. PICK c \in Nat : c = Len(run.context)
      BY <3>2
    <3>5. Len(transcript) = c + n
      BY <3>1, <3>4
    <3>6. Len(transcript') = c + (n + 1)
      BY <2>2, <3>5
    <3> QED BY <3>1, <3>3, <3>4, <3>6
  <2>6. \A j \in 1..Len(run.context) : transcript'[j] = run.context[j]
    <3> TAKE j \in 1..Len(run.context)
    <3>1. j \in 1..Len(transcript)
      BY <2>5, RunParts
    <3> QED BY <1>2, <2>2, <3>1 DEF Behind
  <2>7. \A j \in 1..(n + 1) : transcript'[Len(run.context) + j] = Result(j)
    <3> TAKE j \in 1..(n + 1)
    <3>1. CASE j \in 1..n
      <4>1. Len(run.context) + j \in 1..Len(transcript)
        BY <2>5, <3>1, RunParts
      <4> QED BY <1>2, <2>2, <3>1, <4>1 DEF Behind
    <3>2. CASE j = n + 1
      <4>1. Len(run.context) + j = Len(transcript) + 1
        <5>1. PICK c \in Nat : c = Len(run.context)
          BY RunParts
        <5>2. Len(transcript) = c + n
          BY <2>5, <5>1
        <5>3. c + j = Len(transcript) + 1
          BY <3>2, <5>2
        <5> QED BY <5>1, <5>3
      <4> QED BY <2>1, <2>2, <3>2, <4>1
    <3> QED BY <3>1, <3>2
  <2>8. \A j \in 1..Len(run.calls) : run'.calls[j] = "answered" <=> j <= n + 1
    <3> TAKE j \in 1..Len(run.calls)
    <3>1. run.calls[j] = "answered" <=> j <= n
      BY <1>2 DEF Behind
    <3>2. j <= n + 1 <=> j <= n \/ j = i
      BY <2>1
    <3> QED BY <2>4, <3>1, <3>2
  <2>9. ~run.aborted => \A j \in 1..Len(run.calls) : run'.calls[j] # "skipped"
    BY <1>2, <2>4 DEF Behind
  <2>10. Behind(n + 1)'
    BY <1>2, <2>3, <2>4, <2>5, <2>6, <2>7, <2>8, <2>9 DEF Behind
  <2> QED BY <2>3, <2>10 DEF Contexts
<1> QED BY <1>3, <1>4 DEF CommitResult

\* All calls are over: the results come into the context, which has caught up.  Unless the
\* run is aborted no call was left out, and the answer has all its results.
LEMMA BatchOverContext ==
    ASSUME TypeOK, Alternate, Contexts, BatchOver
    PROVE  Contexts'
<1> DEFINE A == {j \in DOMAIN run.calls : run.calls[j] = "answered"}
           results == [i \in 1..Cardinality(A) |-> Result(i)]
<1>1. run.pc = "tools" /\ Range(run.calls) \subseteq {"answered", "skipped"} /\ transcript' = transcript
  BY DEF BatchOver, books
<1>2. PICK n \in Nat : Behind(n)
  BY <1>1 DEF Contexts
<1>3. PICK c \in Nat : c = Len(run.context)
  BY RunParts
<1>4. /\ n <= Len(run.calls) /\ Len(transcript) = c + n
      /\ \A i \in 1..c : transcript[i] = run.context[i]
      /\ \A i \in 1..n : transcript[c + i] = Result(i)
      /\ run.base < c
      /\ \A i \in 1..Len(run.calls) : run.calls[i] = "answered" <=> i <= n
  BY <1>2, <1>3 DEF Behind
<1>5. Cardinality(A) = n
  <2>1. DOMAIN run.calls = 1..Len(run.calls) /\ Len(run.calls) \in Nat
    BY RunParts
  <2>2. A = 1..n
    BY <1>4, <2>1
  <2> HIDE DEF A
  <2> QED BY <2>2, FS_Interval
<1>6. \E more \in BOOLEAN :
         run' = [run EXCEPT !.pc = "turnEnd", !.more = more, !.calls = <<>>,
                            !.parallel = FALSE, !.context = @ \o results]
  BY DEF BatchOver
<1> HIDE DEF A
<1>7. results \in Seq(Entries) /\ Len(results) = n /\ \A i \in 1..n : results[i] = Result(i)
  <2>1. results \in [1..n -> Entries]
    BY <1>5, EntryTypes
  <2> QED BY <1>5, <2>1
<1> HIDE DEF results
<1>8. /\ run'.pc = "turnEnd" /\ run'.context = run.context \o results
      /\ run'.base = run.base /\ run'.aborted = run.aborted
  BY <1>6, RunParts DEF RunType
<1>9. run.context \o results = transcript
  <2>1. /\ run.context \o results \in Seq(Entries) /\ Len(run.context \o results) = c + n
        /\ \A i \in 1..c : (run.context \o results)[i] = run.context[i]
        /\ \A i \in 1..n : (run.context \o results)[c + i] = results[i]
    <3>1. run.context \in Seq(Entries) /\ results \in Seq(Entries)
      BY <1>7, RunParts
    <3>2. PICK a : a = run.context
      OBVIOUS
    <3>3. a \in Seq(Entries) /\ Len(a) = c /\ Len(results) = n
      BY <1>3, <1>7, <3>1, <3>2
    <3>4. /\ a \o results \in Seq(Entries) /\ Len(a \o results) = c + n
          /\ \A i \in 1..c + n : (a \o results)[i] = IF i <= c THEN a[i] ELSE results[i - c]
      BY <3>1, <3>3, ConcatProperties
    <3>5. /\ \A i \in 1..c : (a \o results)[i] = a[i]
          /\ \A i \in 1..n : (a \o results)[c + i] = results[i]
      <4>1. \A i \in 1..c : i \in 1..c + n /\ i <= c
        OBVIOUS
      <4>2. \A i \in 1..n : c + i \in 1..c + n /\ ~(c + i <= c) /\ (c + i) - c = i
        OBVIOUS
      <4> QED BY <3>4, <4>1, <4>2
    <3> QED BY <3>2, <3>4, <3>5
  <2> DEFINE u == run.context \o results
  <2> HIDE DEF u
  <2>2. \A i \in 1..Len(u) : u[i] = transcript[i]
    <3> TAKE i \in 1..Len(u)
    <3>1. CASE i <= c
      BY <1>4, <2>1, <3>1 DEF u
    <3>2. CASE i > c
      <4>1. i - c \in 1..n /\ c + (i - c) = i
        BY <2>1, <3>2 DEF u
      <4>2. u[c + (i - c)] = results[i - c] /\ transcript[c + (i - c)] = Result(i - c)
            /\ results[i - c] = Result(i - c)
        BY <1>4, <1>7, <2>1, <4>1 DEF u
      <4> QED BY <4>1, <4>2
    <3> QED BY <2>1, <3>1, <3>2 DEF u
  <2>3. u \in Seq(Entries) /\ transcript \in Seq(Entries) /\ Len(u) = Len(transcript)
    BY <1>4, <2>1, RunParts DEF u
  <2>4. u = transcript
    BY <2>2, <2>3, SeqEqual
  <2> QED BY <2>4 DEF u
<1>10. run.base <= Len(transcript)
  <2>1. run.base \in Nat
    BY RunParts
  <2> QED BY <1>4, <2>1
<1>11. ASSUME ~run.aborted
       PROVE  Complete(transcript, run.base)
  <2>1. /\ \A i \in 1..Len(run.calls) : run.calls[i] # "skipped"
        /\ Complete(Front(run.context), run.base)
        /\ run.context[c].n = Len(run.calls)
    BY <1>2, <1>3, <1>11 DEF Behind
  <2>2. n = Len(run.calls)
    <3>1. Len(run.calls) \in Nat /\ DOMAIN run.calls = 1..Len(run.calls)
      BY RunParts
    <3>2. \A i \in 1..Len(run.calls) : run.calls[i] = "answered"
      BY <1>1, <2>1, <3>1 DEF Range
    <3>3. CASE Len(run.calls) = 0
      BY <1>4, <3>3
    <3>4. CASE Len(run.calls) > 0
      <4>1. Len(run.calls) \in 1..Len(run.calls)
        BY <3>1, <3>4
      <4>2. Len(run.calls) <= n
        BY <1>4, <3>2, <4>1
      <4> QED BY <1>4, <3>1, <4>2
    <3> QED BY <3>1, <3>3, <3>4
  <2>3. /\ Len(Front(run.context)) = c - 1
        /\ \A i \in 1..c - 1 : Front(run.context)[i] = run.context[i]
    <3>1. run.base \in Nat /\ run.context \in Seq(Entries)
      BY RunParts
    <3>2. run.context # <<>>
      BY <1>3, <1>4, <3>1, EmptySeq
    <3> QED BY <1>3, <3>1, <3>2, FrontType
  <2> SUFFICES ASSUME NEW i \in (run.base + 1)..Len(transcript), transcript[i].by = "assistant",
                      NEW k \in 1..transcript[i].n
               PROVE  i + k <= Len(transcript) /\ transcript[i + k] = Result(k)
    BY DEF Complete
  <2>4. run.base \in Nat /\ i \in Nat /\ i >= 1 /\ i <= c + n /\ i >= run.base + 1
    BY <1>4, RunParts
  <2>5. transcript[i].n \in Nat
    <3>1. i \in 1..Len(transcript)
      BY <1>4, <2>4
    <3>2. transcript[i] \in Entries
      BY <3>1, RunParts
    <3> QED BY <3>2 DEF Entries, Said, Answer, Result
  <2>6. CASE i < c
    <3>1. i \in 1..c - 1 /\ i \in (run.base + 1)..(c - 1) /\ i \in 1..c
      BY <2>4, <2>6
    <3>2. Front(run.context)[i] = transcript[i]
      BY <1>4, <2>3, <3>1
    <3>3. i + k <= c - 1 /\ Front(run.context)[i + k] = Result(k)
      BY <2>1, <2>3, <3>1, <3>2 DEF Complete
    <3>4. i + k \in 1..c - 1 /\ i + k \in 1..c
      BY <2>4, <2>5, <3>3
    <3>5. transcript[i + k] = Front(run.context)[i + k]
      BY <1>4, <2>3, <3>4
    <3>6. i + k <= Len(transcript)
      BY <1>4, <3>3, <3>4
    <3> QED BY <3>3, <3>5, <3>6
  <2>7. CASE i = c
    <3>1. i \in 1..c
      BY <2>4, <2>7
    <3>2. transcript[i].n = n
      BY <1>4, <2>1, <2>2, <2>7, <3>1
    <3>3. k \in 1..n
      BY <3>2
    <3> QED BY <1>4, <2>7, <3>3
  <2>8. CASE i > c
    <3>1. i - c \in 1..n /\ c + (i - c) = i
      BY <2>4, <2>8
    <3>2. transcript[i] = Result(i - c)
      BY <1>4, <3>1
    <3>3. transcript[i].by = "tool"
      BY <3>2 DEF Result
    <3> QED BY <3>3
  <2> QED BY <2>4, <2>6, <2>7, <2>8
<1> QED BY <1>1, <1>8, <1>9, <1>10, <1>11 DEF Contexts

\* Steps that leave the run alone, end it or begin another.
LEMMA OtherContext ==
    ASSUME TypeOK, Alternate, Contexts,
           \/ \E m \in Steers : Steer(m)
           \/ \E m \in FollowUps : FollowUp(m)
           \/ \E m \in Waiters : GiveUp(m)
           \/ Throw \/ RecordFailure \/ RejectRun
    PROVE  Contexts'
<1>1. CASE UNCHANGED <<transcript, run>>
  BY <1>1 DEF Contexts, Ahead, Behind
<1>2. CASE Throw \/ RecordFailure \/ RejectRun
  <2>1. run'.pc \in {"none", "failing", "aborting", "failed"}
    <3>1. CASE Throw
      BY <3>1, RunParts, FailTypes DEF Throw
    <3>2. CASE RecordFailure
      BY <3>2, RunParts DEF RecordFailure, RunType
    <3>3. CASE RejectRun
      BY <3>3 DEF RejectRun, NoRun
    <3> QED BY <1>2, <3>1, <3>2, <3>3
  <2> QED BY <2>1 DEF Contexts
<1> QED BY <1>1, <1>2 DEF Steer, FollowUp, GiveUp, books

LEMMA SessionStepContext ==
    ASSUME TypeOK, Alternate, SessionStep
    PROVE  Contexts'
<1> PICK t \in Transcripts : Between(t)
  BY DEF SessionStep
<1>1. t \in Seq(Entries) /\ transcript' = t
  BY TranscriptTypes DEF Between
<1>2. CASE run' # NoRun \/ sess'.pc = "running"
  <2>1. PICK ms \in Seq(Messages), skip \in BOOLEAN : run' = Begun(t, ms, skip)
    BY <1>1, <1>2, BegunPossible
  <2>2. TypeOK'
    BY SessionStepTypes
  <2> QED BY <1>1, <2>1, <2>2, BegunContext
<1>3. CASE run' = NoRun
  BY <1>3 DEF NoRun, Contexts
<1> QED BY <1>2, <1>3

LEMMA StepContexts ==
    ASSUME TypeOK, Alternate, Contexts, [Next]_vars
    PROVE  Contexts'
<1>1. CASE Abort
  <2>1. CASE SessionStep
    BY <2>1, SessionStepContext
  <2>2. CASE run' = [run EXCEPT !.aborted = TRUE] /\ UNCHANGED books
    <3>1. /\ run'.pc = run.pc /\ run'.context = run.context /\ run'.base = run.base
          /\ run'.pending = run.pending /\ run'.calls = run.calls /\ run'.aborted
          /\ transcript' = transcript
      BY <2>2, RunParts DEF RunType, books
    <3>2. Ahead => Ahead'
      BY <3>1 DEF Ahead
    <3>3. \A n : Behind(n) => Behind(n)'
      BY <3>1 DEF Behind
    <3> QED BY <3>1, <3>2, <3>3 DEF Contexts
  <2> QED BY <1>1, <2>1, <2>2, AbortBetween
<1>2. CASE Next
  BY <1>1, <1>2, Steps, OtherContext, CommitContext, PollContext, RespondContext, CallContext,
     CommitResultContext, BatchOverContext, SessionStepContext
<1>3. CASE UNCHANGED vars
  BY <1>3 DEF vars, books, Contexts, Ahead, Behind
<1> QED BY <1>2, <1>3

\* Whenever the model is asked, the context of the loop is the whole transcript, and unless
\* the run is aborted each call of its answers has its result right after it, in order.
THEOREM AskedWithEverything == Spec => []AskedWithWholeTranscript
<1>1. Init => TypeOK /\ Alternate /\ Contexts
  <2>1. Init => Contexts
    BY DEF Init, NoRun, Contexts
  <2> QED BY <2>1, InitTypes
<1>2. (TypeOK /\ Alternate /\ Contexts) /\ [Next]_vars => (TypeOK /\ Alternate /\ Contexts)'
  BY StepTypes, StepContexts
<1>3. TypeOK /\ Alternate /\ Contexts => AskedWithWholeTranscript
  BY DEF Contexts, Complete, AskedWithWholeTranscript
<1> QED BY <1>1, <1>2, <1>3, PTL DEF Spec
=============================================================================
