--------------------------- MODULE AttemptLockProofs ---------------------------
(***************************************************************************)
(* Proofs about the session lock of embedded attempts, for any number of    *)
(* attempts, writers, streams, aborts and writes of others.                 *)
(***************************************************************************)
EXTENDS AttemptLock, TLAPS

TasksOf(a) == {t \in Tasks : t[1] = a}

\* t is a writer's.
Writer(t) == t # Flow(t[1]) /\ t # Agent(t[1]) /\ t # AbortOf(t[1])

Pcs == {"idle", "create", "prepare", "prompt", "results", "write", "lock write", "cleanup",
        "lock cleanup", "flush", "dispose", "over", "turn", "stream", "lock turn", "done",
        "assert", "compare", "rewrite", "adopt", "drain", "drained", "idle users", "set fence",
        "free", "stat", "running", "ran", "over taken", "published"}

TaskType == [pc : Pcs, then : Pcs, since : Nat, read : Nat, seen : Nat,
             key : Tasks \cup {None}]

FenceType == [active : BOOLEAN, fp : Nat, snap : Nat, text : BOOLEAN, gen : Nat]

CtlType == [held : Tasks \cup {None}, fence : FenceType, takeover : BOOLEAN,
            users : SUBSET Tasks, drain : Tasks \cup {None}]

TypeOK ==
    /\ log \in Seq({"own"} \cup OtherKinds)
    /\ lock \in Tasks \cup {None, Other}
    /\ owner \in Attempts \cup {None}
    /\ ctl \in [Attempts -> CtlType]
    /\ at \in [Tasks -> TaskType]
    /\ trusted \in [ver : Nat, gen : Nat, base : Nat]
    /\ published \in [ver : Nat, gen : Nat]
    /\ lastGen \in Nat
    /\ streams \in [Attempts -> Nat]
    /\ intruded \subseteq Attempts

-----------------------------------------------------------------------------
(* Where tasks are *)

FencePcs == {"assert", "compare", "rewrite", "adopt"}
FencingPcs == {"set fence", "free"}
DrainPcs == {"drain", "drained", "idle users"} \cup FencingPcs
LockedPcs == {"stat", "running", "ran", "over taken", "published"}

\* What a task asserts the fence for, and what it gives the lock up for.
Asserts(t, then) == at[t].pc \in FencePcs /\ at[t].then = then

Writing(t) == Asserts(t, "stat") \/ at[t].pc \in LockedPcs
Cleaning(t) == Asserts(t, "flush") \/ at[t].pc = "flush"
Fencing(t) == at[t].pc \in FencingPcs
Resting(t) == at[t].pc \in {"idle", "done"}

FlowAt(t) ==
    \/ at[t].pc \in {"idle", "create", "prepare", "prompt", "results", "write", "lock write",
                     "cleanup", "lock cleanup", "flush", "dispose", "over"}
    \/ at[t].pc \in LockedPcs \ {"published"}
    \/ Asserts(t, "stat") \/ Asserts(t, "flush")
    \/ at[t].pc \in DrainPcs /\ at[t].then = "results"
    \/ at[t].pc \in {"drain", "idle users"} /\ at[t].then = "flush"
    \/ at[t].pc \in {"drain", "drained", "idle users"} /\ at[t].then = "over"

AgentAt(t) ==
    \/ at[t].pc \in {"idle", "turn", "stream", "lock turn", "done"}
    \/ Asserts(t, "turn")
    \/ at[t].pc \in DrainPcs /\ at[t].then = "stream"

AbortAt(t) == Resting(t) \/ (at[t].pc \in DrainPcs /\ at[t].then = "done")

WriterAt(t) ==
    at[t].pc \in {"write", "lock write"} \cup LockedPcs \/ Asserts(t, "stat") \/ Resting(t)

Placed(t) ==
    /\ t = Flow(t[1]) => FlowAt(t)
    /\ t = Agent(t[1]) => AgentAt(t)
    /\ t = AbortOf(t[1]) => AbortAt(t)
    /\ Writer(t) => WriterAt(t)

\* Writers work for an agent that works, and the flow goes on without it only after an abort.
Phases(a) ==
    /\ \A t \in TasksOf(a) : Writer(t) /\ ~Resting(t) => at[Agent(a)].pc \in {"turn", "stream"}
    /\ at[Flow(a)].pc \in {"idle", "create"} =>
          /\ ~Aborted(a) /\ ~ctl[a].takeover
          /\ ctl[a].held = None /\ ctl[a].users = {} /\ ctl[a].drain = None
    /\ at[Flow(a)].pc \in {"idle", "create", "prepare"} => at[Agent(a)].pc = "idle"
    /\ at[Flow(a)].pc # "prompt" => Aborted(a) \/ Resting(Agent(a))

-----------------------------------------------------------------------------
(* Who holds the lock *)

\* The lock that k acquired is with the task that sets the fence.
Handed(a, k) == \E u \in TasksOf(a) : Fencing(u) /\ at[u].key = k

\* A lock that was taken from the agent while it asserted the fence, and freed by it.
Lost(a) == ctl[a].takeover /\ Aborted(a) /\ at[Agent(a)].pc # "lock turn"

\* What was acquired by k is in somebody's hands.
InHand(a, k) == k \in {Flow(a), Agent(a)} /\ (lock = k \/ (k = Agent(a) /\ Lost(a)))

Controlled(a) ==
    LET c == ctl[a]
    IN  /\ c.held \in {None, Flow(a), Agent(a)}
        /\ c.held # None => lock = c.held
        /\ c.users \subseteq TasksOf(a)
        /\ c.drain \in TasksOf(a) \cup {None}

\* Who shares the lock works under it, and who does not acquired one of its own.
Shared(a) ==
    \A t \in TasksOf(a) :
        /\ t \in ctl[a].users =>
              /\ Writing(t)
              /\ \/ ctl[a].held # None /\ at[t].key = ctl[a].held
                 \/ t = Flow(a) /\ Aborted(a)
        /\ Writing(t) /\ t \notin ctl[a].users =>
              at[t].key = t /\ lock = t /\ ctl[a].held = None /\ ~Handed(a, t)

\* One task drains, and has the lock to itself.
Drained(a) ==
    /\ \A t \in TasksOf(a) : ctl[a].drain = t <=> at[t].pc = "idle users" \/ Fencing(t)
    /\ \A t \in TasksOf(a) : Fencing(t) =>
          ctl[a].held = None /\ ctl[a].users = {} /\ InHand(a, at[t].key)

\* Nobody sets the fence.
Unfenced(a) == \A t \in TasksOf(a) : ~Fencing(t)

Cleaned(a) ==
    Cleaning(Flow(a)) => ctl[a].held = None /\ Unfenced(a) /\ InHand(a, at[Flow(a)].key)

AgentHolds(a) ==
    /\ at[Agent(a)].pc = "lock turn" => ctl[a].held = None /\ Unfenced(a)
    /\ Asserts(Agent(a), "turn") => ctl[a].held = Agent(a) \/ (ctl[a].held = None /\ Aborted(a))

\* What an attempt acquired is somewhere to be freed.
Freed(a) ==
    /\ lock = Flow(a) =>
          \/ ctl[a].held = Flow(a) \/ Handed(a, Flow(a))
          \/ Cleaning(Flow(a)) /\ at[Flow(a)].key = Flow(a)
          \/ Writing(Flow(a)) /\ Flow(a) \notin ctl[a].users
    /\ lock = Agent(a) =>
          \/ ctl[a].held = Agent(a) \/ Handed(a, Agent(a))
          \/ Cleaning(Flow(a)) /\ at[Flow(a)].key = Agent(a)

\* Once the flow gave the lock up, only an agent that works on can have one.
GaveUp(a) ==
    /\ at[Flow(a)].pc \in {"drained", "over"} =>
          ctl[a].held # Flow(a) /\ (Aborted(a) \/ ctl[a].held = None)
    /\ at[Flow(a)].pc = "over" => ~Handed(a, Flow(a)) /\ (Aborted(a) \/ ctl[a].drain = None)

LockInv(a) ==
    /\ \A t \in TasksOf(a) : Placed(t)
    /\ Phases(a) /\ Controlled(a) /\ Shared(a) /\ Drained(a) /\ Cleaned(a) /\ AgentHolds(a)
    /\ Freed(a) /\ GaveUp(a)

-----------------------------------------------------------------------------
(* Tasks *)

\* The tasks of an attempt are its flow, its agent, its abort and its writers.
LEMMA TasksOfAttempts ==
    /\ \A a \in Attempts :
          /\ Flow(a) \in TasksOf(a) /\ Agent(a) \in TasksOf(a) /\ AbortOf(a) \in TasksOf(a)
          /\ Flow(a)[1] = a /\ Agent(a)[1] = a /\ AbortOf(a)[1] = a
          /\ Flow(a) # Agent(a) /\ Flow(a) # AbortOf(a) /\ Agent(a) # AbortOf(a)
    /\ \A w \in Writers :
          /\ WriterOf[w] \in Attempts /\ WriterTask(w) \in TasksOf(WriterOf[w])
          /\ WriterTask(w)[1] = WriterOf[w] /\ WriterTask(w)[2] = w /\ Writer(WriterTask(w))
    /\ \A t \in Tasks : t[1] \in Attempts /\ t \in TasksOf(t[1])
    /\ \A t \in Tasks : Writer(t) => \E w \in Writers : t = WriterTask(w) /\ WriterOf[w] = t[1]
    /\ None \notin Tasks /\ Other \notin Tasks /\ None # Other
<1> USE AttemptLockAssumption, TaskAssumption
<1>1. \A a \in Attempts :
          /\ Flow(a) \in TasksOf(a) /\ Agent(a) \in TasksOf(a) /\ AbortOf(a) \in TasksOf(a)
          /\ Flow(a)[1] = a /\ Agent(a)[1] = a /\ AbortOf(a)[1] = a
          /\ Flow(a) # Agent(a) /\ Flow(a) # AbortOf(a) /\ Agent(a) # AbortOf(a)
  BY DEF TasksOf, Tasks, Flow, Agent, AbortOf
<1>2. \A w \in Writers :
          /\ WriterOf[w] \in Attempts /\ WriterTask(w) \in TasksOf(WriterOf[w])
          /\ WriterTask(w)[1] = WriterOf[w] /\ WriterTask(w)[2] = w /\ Writer(WriterTask(w))
  BY DEF TasksOf, Tasks, WriterTask, Writer, Flow, Agent, AbortOf
<1>3. \A t \in Tasks :
          /\ t[1] \in Attempts
          /\ \/ t = Flow(t[1]) \/ t = Agent(t[1]) \/ t = AbortOf(t[1])
             \/ \E w \in Writers : t = WriterTask(w) /\ WriterOf[w] = t[1]
  BY DEF Tasks, WriterTask, Flow, Agent, AbortOf
<1>4. \A t \in Tasks : t[1] \in Attempts /\ t \in TasksOf(t[1])
  BY <1>3 DEF TasksOf
<1>5. \A t \in Tasks : Writer(t) => \E w \in Writers : t = WriterTask(w) /\ WriterOf[w] = t[1]
  BY <1>3 DEF Writer
<1>6. None \notin Tasks /\ Other \notin Tasks /\ None # Other
  OBVIOUS
<1> QED BY <1>1, <1>2, <1>4, <1>5, <1>6

-----------------------------------------------------------------------------
(* What a step does to a task and to a controller *)

\* Only task t moves.
Moves(t, pc, then, key) ==
    /\ at' \in [Tasks -> TaskType]
    /\ \A u \in Tasks : u # t => at'[u] = at[u]
    /\ at'[t].pc = pc /\ at'[t].then = then /\ at'[t].key = key

\* What it had read.
Knows(t, since, read, seen) == at'[t].since = since /\ at'[t].read = read /\ at'[t].seen = seen

\* Only a's controller changes.
Controls(a, held, users, drain, takeover) ==
    /\ ctl' \in [Attempts -> CtlType]
    /\ \A b \in Attempts : b # a => ctl'[b] = ctl[b]
    /\ ctl'[a].held = held /\ ctl'[a].users = users
    /\ ctl'[a].drain = drain /\ ctl'[a].takeover = takeover

Kept(a) == Controls(a, ctl[a].held, ctl[a].users, ctl[a].drain, ctl[a].takeover)

\* The fence of a is f.
FenceIs(a, f) == ctl'[a].fence = f

\* One field of a task, or of a controller, is set.
LEMMA TaskFields ==
    /\ Task \in TaskType
    /\ Task.pc = "idle" /\ Task.then = "idle" /\ Task.since = 0 /\ Task.read = 0
    /\ Task.seen = 0 /\ Task.key = None
<1> DEFINE n == None
<1>1. n \in Tasks \cup {n}
  OBVIOUS
<1>2. Task = [pc |-> "idle", then |-> "idle", since |-> 0, read |-> 0, seen |-> 0, key |-> n]
  BY DEF Task
<1>3. "idle" \in Pcs
  BY DEF Pcs
<1> QED BY <1>1, <1>2, <1>3 DEF TaskType

LEMMA SetPc ==
    ASSUME NEW x \in TaskType, NEW v \in Pcs
    PROVE  LET y == [x EXCEPT !.pc = v]
           IN  /\ y \in TaskType
               /\ y.pc = v /\ y.then = x.then /\ y.since = x.since /\ y.read = x.read
               /\ y.seen = x.seen /\ y.key = x.key
  BY DEF TaskType

LEMMA SetThen ==
    ASSUME NEW x \in TaskType, NEW v \in Pcs
    PROVE  LET y == [x EXCEPT !.then = v]
           IN  /\ y \in TaskType
               /\ y.pc = x.pc /\ y.then = v /\ y.since = x.since /\ y.read = x.read
               /\ y.seen = x.seen /\ y.key = x.key
  BY DEF TaskType

LEMMA SetSince ==
    ASSUME NEW x \in TaskType, NEW v \in Nat
    PROVE  LET y == [x EXCEPT !.since = v]
           IN  /\ y \in TaskType
               /\ y.pc = x.pc /\ y.then = x.then /\ y.since = v /\ y.read = x.read
               /\ y.seen = x.seen /\ y.key = x.key
  BY DEF TaskType

LEMMA SetRead ==
    ASSUME NEW x \in TaskType, NEW v \in Nat
    PROVE  LET y == [x EXCEPT !.read = v]
           IN  /\ y \in TaskType
               /\ y.pc = x.pc /\ y.then = x.then /\ y.since = x.since /\ y.read = v
               /\ y.seen = x.seen /\ y.key = x.key
  BY DEF TaskType

LEMMA SetSeen ==
    ASSUME NEW x \in TaskType, NEW v \in Nat
    PROVE  LET y == [x EXCEPT !.seen = v]
           IN  /\ y \in TaskType
               /\ y.pc = x.pc /\ y.then = x.then /\ y.since = x.since /\ y.read = x.read
               /\ y.seen = v /\ y.key = x.key
  BY DEF TaskType

LEMMA SetKey ==
    ASSUME NEW x \in TaskType, NEW v \in Tasks \cup {None}
    PROVE  LET y == [x EXCEPT !.key = v]
           IN  /\ y \in TaskType
               /\ y.pc = x.pc /\ y.then = x.then /\ y.since = x.since /\ y.read = x.read
               /\ y.seen = x.seen /\ y.key = v
  BY DEF TaskType

\* Task t becomes y.
LEMMA TaskMoves ==
    ASSUME TypeOK, NEW t \in Tasks, NEW y \in TaskType, at' = [at EXCEPT ![t] = y]
    PROVE  Moves(t, y.pc, y.then, y.key) /\ Knows(t, y.since, y.read, y.seen)
<1>1. at \in [Tasks -> TaskType]
  BY DEF TypeOK
<1> QED BY <1>1 DEF Moves, Knows

LEMMA VersionType == TypeOK => Version \in Nat
  BY DEF TypeOK, Version

LEMMA TaskAt ==
    ASSUME TypeOK, NEW t \in Tasks
    PROVE  /\ at[t] \in TaskType /\ at[t].pc \in Pcs /\ at[t].then \in Pcs
           /\ at[t].since \in Nat /\ at[t].read \in Nat /\ at[t].seen \in Nat
           /\ at[t].key \in Tasks \cup {None}
<1>1. at \in [Tasks -> TaskType]
  BY DEF TypeOK
<1> QED BY <1>1 DEF TaskType

LEMMA AtPc ==
    ASSUME NEW f \in [Tasks -> TaskType], NEW t \in Tasks, NEW v \in Pcs
    PROVE  LET g == [f EXCEPT ![t].pc = v]
           IN  /\ g \in [Tasks -> TaskType]
               /\ \A u \in Tasks : u # t => g[u] = f[u]
               /\ g[t].pc = v /\ g[t].then = f[t].then /\ g[t].since = f[t].since
               /\ g[t].read = f[t].read /\ g[t].seen = f[t].seen /\ g[t].key = f[t].key
<1> DEFINE y == [f[t] EXCEPT !.pc = v]
           g == [f EXCEPT ![t] = y]
<1>1. f[t] \in TaskType
  OBVIOUS
<1>2. /\ y \in TaskType
      /\ y.pc = v /\ y.then = f[t].then /\ y.since = f[t].since
      /\ y.read = f[t].read /\ y.seen = f[t].seen /\ y.key = f[t].key
  BY <1>1, SetPc
<1>3. [f EXCEPT ![t].pc = v] = g
  OBVIOUS
<1> HIDE DEF y
<1>4. g \in [Tasks -> TaskType] /\ g[t] = y /\ \A u \in Tasks : u # t => g[u] = f[u]
  BY <1>2
<1> QED BY <1>2, <1>3, <1>4

LEMMA AtThen ==
    ASSUME NEW f \in [Tasks -> TaskType], NEW t \in Tasks, NEW v \in Pcs
    PROVE  LET g == [f EXCEPT ![t].then = v]
           IN  /\ g \in [Tasks -> TaskType]
               /\ \A u \in Tasks : u # t => g[u] = f[u]
               /\ g[t].pc = f[t].pc /\ g[t].then = v /\ g[t].since = f[t].since
               /\ g[t].read = f[t].read /\ g[t].seen = f[t].seen /\ g[t].key = f[t].key
<1> DEFINE y == [f[t] EXCEPT !.then = v]
           g == [f EXCEPT ![t] = y]
<1>1. f[t] \in TaskType
  OBVIOUS
<1>2. /\ y \in TaskType
      /\ y.pc = f[t].pc /\ y.then = v /\ y.since = f[t].since
      /\ y.read = f[t].read /\ y.seen = f[t].seen /\ y.key = f[t].key
  BY <1>1, SetThen
<1>3. [f EXCEPT ![t].then = v] = g
  OBVIOUS
<1> HIDE DEF y
<1>4. g \in [Tasks -> TaskType] /\ g[t] = y /\ \A u \in Tasks : u # t => g[u] = f[u]
  BY <1>2
<1> QED BY <1>2, <1>3, <1>4

LEMMA AtSince ==
    ASSUME NEW f \in [Tasks -> TaskType], NEW t \in Tasks, NEW v \in Nat
    PROVE  LET g == [f EXCEPT ![t].since = v]
           IN  /\ g \in [Tasks -> TaskType]
               /\ \A u \in Tasks : u # t => g[u] = f[u]
               /\ g[t].pc = f[t].pc /\ g[t].then = f[t].then /\ g[t].since = v
               /\ g[t].read = f[t].read /\ g[t].seen = f[t].seen /\ g[t].key = f[t].key
<1> DEFINE y == [f[t] EXCEPT !.since = v]
           g == [f EXCEPT ![t] = y]
<1>1. f[t] \in TaskType
  OBVIOUS
<1>2. /\ y \in TaskType
      /\ y.pc = f[t].pc /\ y.then = f[t].then /\ y.since = v
      /\ y.read = f[t].read /\ y.seen = f[t].seen /\ y.key = f[t].key
  BY <1>1, SetSince
<1>3. [f EXCEPT ![t].since = v] = g
  OBVIOUS
<1> HIDE DEF y
<1>4. g \in [Tasks -> TaskType] /\ g[t] = y /\ \A u \in Tasks : u # t => g[u] = f[u]
  BY <1>2
<1> QED BY <1>2, <1>3, <1>4

LEMMA AtRead ==
    ASSUME NEW f \in [Tasks -> TaskType], NEW t \in Tasks, NEW v \in Nat
    PROVE  LET g == [f EXCEPT ![t].read = v]
           IN  /\ g \in [Tasks -> TaskType]
               /\ \A u \in Tasks : u # t => g[u] = f[u]
               /\ g[t].pc = f[t].pc /\ g[t].then = f[t].then /\ g[t].since = f[t].since
               /\ g[t].read = v /\ g[t].seen = f[t].seen /\ g[t].key = f[t].key
<1> DEFINE y == [f[t] EXCEPT !.read = v]
           g == [f EXCEPT ![t] = y]
<1>1. f[t] \in TaskType
  OBVIOUS
<1>2. /\ y \in TaskType
      /\ y.pc = f[t].pc /\ y.then = f[t].then /\ y.since = f[t].since
      /\ y.read = v /\ y.seen = f[t].seen /\ y.key = f[t].key
  BY <1>1, SetRead
<1>3. [f EXCEPT ![t].read = v] = g
  OBVIOUS
<1> HIDE DEF y
<1>4. g \in [Tasks -> TaskType] /\ g[t] = y /\ \A u \in Tasks : u # t => g[u] = f[u]
  BY <1>2
<1> QED BY <1>2, <1>3, <1>4

LEMMA AtSeen ==
    ASSUME NEW f \in [Tasks -> TaskType], NEW t \in Tasks, NEW v \in Nat
    PROVE  LET g == [f EXCEPT ![t].seen = v]
           IN  /\ g \in [Tasks -> TaskType]
               /\ \A u \in Tasks : u # t => g[u] = f[u]
               /\ g[t].pc = f[t].pc /\ g[t].then = f[t].then /\ g[t].since = f[t].since
               /\ g[t].read = f[t].read /\ g[t].seen = v /\ g[t].key = f[t].key
<1> DEFINE y == [f[t] EXCEPT !.seen = v]
           g == [f EXCEPT ![t] = y]
<1>1. f[t] \in TaskType
  OBVIOUS
<1>2. /\ y \in TaskType
      /\ y.pc = f[t].pc /\ y.then = f[t].then /\ y.since = f[t].since
      /\ y.read = f[t].read /\ y.seen = v /\ y.key = f[t].key
  BY <1>1, SetSeen
<1>3. [f EXCEPT ![t].seen = v] = g
  OBVIOUS
<1> HIDE DEF y
<1>4. g \in [Tasks -> TaskType] /\ g[t] = y /\ \A u \in Tasks : u # t => g[u] = f[u]
  BY <1>2
<1> QED BY <1>2, <1>3, <1>4

LEMMA AtKey ==
    ASSUME NEW f \in [Tasks -> TaskType], NEW t \in Tasks, NEW v \in Tasks \cup {None}
    PROVE  LET g == [f EXCEPT ![t].key = v]
           IN  /\ g \in [Tasks -> TaskType]
               /\ \A u \in Tasks : u # t => g[u] = f[u]
               /\ g[t].pc = f[t].pc /\ g[t].then = f[t].then /\ g[t].since = f[t].since
               /\ g[t].read = f[t].read /\ g[t].seen = f[t].seen /\ g[t].key = v
<1> DEFINE y == [f[t] EXCEPT !.key = v]
           g == [f EXCEPT ![t] = y]
<1>1. f[t] \in TaskType
  OBVIOUS
<1>2. /\ y \in TaskType
      /\ y.pc = f[t].pc /\ y.then = f[t].then /\ y.since = f[t].since
      /\ y.read = f[t].read /\ y.seen = f[t].seen /\ y.key = v
  BY <1>1, SetKey
<1>3. [f EXCEPT ![t].key = v] = g
  OBVIOUS
<1> HIDE DEF y
<1>4. g \in [Tasks -> TaskType] /\ g[t] = y /\ \A u \in Tasks : u # t => g[u] = f[u]
  BY <1>2
<1> QED BY <1>2, <1>3, <1>4

LEMMA CtlHeld ==
    ASSUME NEW x \in CtlType, NEW v \in Tasks \cup {None}
    PROVE  LET y == [x EXCEPT !.held = v]
           IN  /\ y \in CtlType
               /\ y.held = v /\ y.fence = x.fence /\ y.takeover = x.takeover /\ y.users = x.users /\ y.drain = x.drain
  BY DEF CtlType

LEMMA CtlFence ==
    ASSUME NEW x \in CtlType, NEW v \in FenceType
    PROVE  LET y == [x EXCEPT !.fence = v]
           IN  /\ y \in CtlType
               /\ y.held = x.held /\ y.fence = v /\ y.takeover = x.takeover /\ y.users = x.users /\ y.drain = x.drain
  BY DEF CtlType

LEMMA CtlTakeover ==
    ASSUME NEW x \in CtlType, NEW v \in BOOLEAN
    PROVE  LET y == [x EXCEPT !.takeover = v]
           IN  /\ y \in CtlType
               /\ y.held = x.held /\ y.fence = x.fence /\ y.takeover = v /\ y.users = x.users /\ y.drain = x.drain
  BY DEF CtlType

LEMMA CtlUsers ==
    ASSUME NEW x \in CtlType, NEW v \in SUBSET Tasks
    PROVE  LET y == [x EXCEPT !.users = v]
           IN  /\ y \in CtlType
               /\ y.held = x.held /\ y.fence = x.fence /\ y.takeover = x.takeover /\ y.users = v /\ y.drain = x.drain
  BY DEF CtlType

LEMMA CtlDrain ==
    ASSUME NEW x \in CtlType, NEW v \in Tasks \cup {None}
    PROVE  LET y == [x EXCEPT !.drain = v]
           IN  /\ y \in CtlType
               /\ y.held = x.held /\ y.fence = x.fence /\ y.takeover = x.takeover /\ y.users = x.users /\ y.drain = v
  BY DEF CtlType

LEMMA FenceActive ==
    ASSUME NEW x \in FenceType, NEW v \in BOOLEAN
    PROVE  LET y == [x EXCEPT !.active = v]
           IN  /\ y \in FenceType
               /\ y.active = v /\ y.fp = x.fp /\ y.snap = x.snap /\ y.text = x.text /\ y.gen = x.gen
  BY DEF FenceType

LEMMA FenceFp ==
    ASSUME NEW x \in FenceType, NEW v \in Nat
    PROVE  LET y == [x EXCEPT !.fp = v]
           IN  /\ y \in FenceType
               /\ y.active = x.active /\ y.fp = v /\ y.snap = x.snap /\ y.text = x.text /\ y.gen = x.gen
  BY DEF FenceType

LEMMA FenceSnap ==
    ASSUME NEW x \in FenceType, NEW v \in Nat
    PROVE  LET y == [x EXCEPT !.snap = v]
           IN  /\ y \in FenceType
               /\ y.active = x.active /\ y.fp = x.fp /\ y.snap = v /\ y.text = x.text /\ y.gen = x.gen
  BY DEF FenceType

LEMMA FenceText ==
    ASSUME NEW x \in FenceType, NEW v \in BOOLEAN
    PROVE  LET y == [x EXCEPT !.text = v]
           IN  /\ y \in FenceType
               /\ y.active = x.active /\ y.fp = x.fp /\ y.snap = x.snap /\ y.text = v /\ y.gen = x.gen
  BY DEF FenceType

LEMMA FenceGen ==
    ASSUME NEW x \in FenceType, NEW v \in Nat
    PROVE  LET y == [x EXCEPT !.gen = v]
           IN  /\ y \in FenceType
               /\ y.active = x.active /\ y.fp = x.fp /\ y.snap = x.snap /\ y.text = x.text /\ y.gen = v
  BY DEF FenceType

LEMMA ReadByType ==
    ASSUME TypeOK, NEW t \in Tasks, NEW v \in ReadBy(t)
    PROVE  v \in Nat /\ v <= Version /\ at[t].since <= v /\ Version \in Nat /\ at[t].since \in Nat
  BY TaskAt, VersionType DEF ReadBy

LEMMA AtMoves ==
    ASSUME TypeOK, NEW t \in Tasks, NEW pc \in Pcs, At(t, pc)
    PROVE  Moves(t, pc, "idle", None) /\ Knows(t, 0, 0, 0)
<1> DEFINE x == [Task EXCEPT !.pc = pc]
<1>1. /\ x \in TaskType
      /\ x.pc = pc /\ x.then = "idle" /\ x.since = 0 /\ x.read = 0 /\ x.seen = 0 /\ x.key = None
  BY TaskFields, SetPc
<1>2. at' = [at EXCEPT ![t] = x]
  BY DEF At
<1> HIDE DEF x
<1>3. Moves(t, x.pc, x.then, x.key) /\ Knows(t, x.since, x.read, x.seen)
  BY <1>1, <1>2, TaskMoves
<1> QED BY <1>1, <1>3

LEMMA FencedMoves ==
    ASSUME TypeOK, NEW t \in Tasks, NEW k \in Tasks, NEW pc \in Pcs, Fenced(t, k, pc)
    PROVE  /\ Moves(t, IF ctl[t[1]].fence.active THEN "assert" ELSE pc, pc, k)
           /\ Knows(t, Version, 0, 0)
<1> DEFINE q == IF ctl[t[1]].fence.active THEN "assert" ELSE pc
           x1 == [Task EXCEPT !.pc = q]
           x2 == [x1 EXCEPT !.then = pc]
           x3 == [x2 EXCEPT !.since = Version]
           x4 == [x3 EXCEPT !.key = k]
<1>0. at' = [at EXCEPT ![t] = x4]
  BY DEF Fenced
<1>1. q \in Pcs
  <2>1. "assert" \in Pcs /\ "drain" \in Pcs /\ "drained" \in Pcs
    BY DEF Pcs
  <2> QED BY <2>1, Zenon
<1> HIDE DEF q
<1>2. /\ x1 \in TaskType
      /\ x1.pc = q /\ x1.read = 0 /\ x1.seen = 0
  BY <1>1, TaskFields, SetPc
<1> HIDE DEF x1
<1>3. /\ x2 \in TaskType
      /\ x2.pc = q /\ x2.then = pc /\ x2.read = 0 /\ x2.seen = 0
  BY <1>2, SetThen
<1> HIDE DEF x2
<1>4. /\ x3 \in TaskType
      /\ x3.pc = q /\ x3.then = pc /\ x3.since = Version /\ x3.read = 0 /\ x3.seen = 0
  BY <1>3, SetSince, VersionType
<1> HIDE DEF x3
<1>5. /\ x4 \in TaskType
      /\ x4.pc = q /\ x4.then = pc /\ x4.since = Version /\ x4.read = 0 /\ x4.seen = 0
      /\ x4.key = k
  BY <1>4, SetKey
<1> HIDE DEF x4
<1>6. Moves(t, q, pc, k) /\ Knows(t, Version, 0, 0)
  BY <1>0, <1>5, TaskMoves
<1> QED BY <1>6 DEF q

LEMMA FenceHoldsMoves ==
    ASSUME TypeOK, NEW t \in Tasks, FenceHolds(t)
    PROVE  Moves(t, at[t].then, "idle", at[t].key) /\ Knows(t, Version, 0, 0)
<1> DEFINE q == at[t].then
           k == at[t].key
           x1 == [Task EXCEPT !.pc = q]
           x2 == [x1 EXCEPT !.since = Version]
           x3 == [x2 EXCEPT !.key = k]
<1>0. at' = [at EXCEPT ![t] = x3]
  BY DEF FenceHolds
<1>1. q \in Pcs /\ k \in Tasks \cup {None}
  BY TaskAt
<1> HIDE DEF q, k
<1>2. /\ x1 \in TaskType
      /\ x1.pc = q /\ x1.then = "idle" /\ x1.read = 0 /\ x1.seen = 0
  BY <1>1, TaskFields, SetPc
<1> HIDE DEF x1
<1>3. /\ x2 \in TaskType
      /\ x2.pc = q /\ x2.then = "idle" /\ x2.since = Version /\ x2.read = 0 /\ x2.seen = 0
  BY <1>2, SetSince, VersionType
<1> HIDE DEF x2
<1>4. /\ x3 \in TaskType
      /\ x3.pc = q /\ x3.then = "idle" /\ x3.since = Version /\ x3.read = 0 /\ x3.seen = 0
      /\ x3.key = k
  BY <1>1, <1>3, SetKey
<1> HIDE DEF x3
<1>5. Moves(t, q, "idle", k) /\ Knows(t, Version, 0, 0)
  BY <1>0, <1>4, TaskMoves
<1> QED BY <1>5 DEF q, k

LEMMA ReleaseMoves ==
    ASSUME TypeOK, NEW t \in Tasks, NEW pc \in Pcs, Release(t, pc)
    PROVE  /\ Moves(t, IF ctl[t[1]].held # None THEN "drain" ELSE "drained", pc, None)
           /\ Knows(t, 0, 0, 0)
<1> DEFINE q == IF ctl[t[1]].held # None THEN "drain" ELSE "drained"
           x1 == [Task EXCEPT !.pc = q]
           x2 == [x1 EXCEPT !.then = pc]
<1>0. at' = [at EXCEPT ![t] = x2]
  BY DEF Release
<1>1. q \in Pcs
  <2>1. "assert" \in Pcs /\ "drain" \in Pcs /\ "drained" \in Pcs
    BY DEF Pcs
  <2> QED BY <2>1, Zenon
<1> HIDE DEF q
<1>2. /\ x1 \in TaskType
      /\ x1.pc = q /\ x1.since = 0 /\ x1.read = 0 /\ x1.seen = 0 /\ x1.key = None
  BY <1>1, TaskFields, SetPc
<1> HIDE DEF x1
<1>3. /\ x2 \in TaskType
      /\ x2.pc = q /\ x2.then = pc /\ x2.since = 0 /\ x2.read = 0 /\ x2.seen = 0
      /\ x2.key = None
  BY <1>2, SetThen
<1> HIDE DEF x2
<1>4. Moves(t, q, pc, None) /\ Knows(t, 0, 0, 0)
  BY <1>0, <1>3, TaskMoves
<1> QED BY <1>4 DEF q

\* A controller that changes becomes c.
LEMMA BecomesControls ==
    ASSUME TypeOK, NEW a \in Attempts, NEW c \in CtlType, Becomes(a, c)
    PROVE  Controls(a, c.held, c.users, c.drain, c.takeover) /\ FenceIs(a, c.fence)
  BY DEF TypeOK, Becomes, Controls, FenceIs

LEMMA CtlKept ==
    ASSUME TypeOK, NEW a \in Attempts, UNCHANGED ctl
    PROVE  Kept(a) /\ FenceIs(a, ctl[a].fence)
  BY DEF TypeOK, Kept, Controls, FenceIs

-----------------------------------------------------------------------------
(* What a step leaves alone *)

\* Nothing of attempt b changes, and none of its tasks gets or loses the lock.
Untouched(b) ==
    /\ \A u \in TasksOf(b) : at'[u] = at[u] /\ (lock' = u <=> lock = u)
    /\ ctl'[b] = ctl[b]

LEMMA SameTask ==
    ASSUME NEW u \in Tasks, at'[u] = at[u]
    PROVE  /\ Placed(u)' <=> Placed(u)
           /\ Writing(u)' <=> Writing(u)
           /\ Cleaning(u)' <=> Cleaning(u)
           /\ Fencing(u)' <=> Fencing(u)
           /\ Resting(u)' <=> Resting(u)
           /\ \A p : Asserts(u, p)' <=> Asserts(u, p)
<1>1. \A p : Asserts(u, p)' <=> Asserts(u, p)
  BY DEF Asserts
<1>2. Placed(u)' <=> Placed(u)
  BY <1>1 DEF Placed, FlowAt, AgentAt, AbortAt, WriterAt, Resting
<1> QED BY <1>1, <1>2 DEF Writing, Cleaning, Fencing, Resting

LEMMA LockInvUntouched ==
    ASSUME NEW b \in Attempts, LockInv(b), Untouched(b)
    PROVE  LockInv(b)'
<1> USE DEF Untouched
<1>0. /\ Flow(b) \in TasksOf(b) /\ Agent(b) \in TasksOf(b) /\ AbortOf(b) \in TasksOf(b)
      /\ None \notin TasksOf(b)
  BY TasksOfAttempts DEF TasksOf
<1>1. \A u \in TasksOf(b) :
          /\ Placed(u)' <=> Placed(u)
          /\ Writing(u)' <=> Writing(u)
          /\ Cleaning(u)' <=> Cleaning(u)
          /\ Fencing(u)' <=> Fencing(u)
          /\ Resting(u)' <=> Resting(u)
  BY SameTask DEF TasksOf
<1>2. Aborted(b)' <=> Aborted(b)
  BY <1>0 DEF Aborted
<1>3. Lost(b)' <=> Lost(b)
  BY <1>0, <1>2 DEF Lost
<1>4. \A k : InHand(b, k)' <=> InHand(b, k)
  BY <1>0, <1>3 DEF InHand
<1>5. Controlled(b)'
  BY <1>0 DEF LockInv, Controlled
<1>6. \A k : Handed(b, k)' <=> Handed(b, k)
  BY <1>1 DEF Handed
<1>7. Phases(b)'
  BY <1>0, <1>1, <1>2 DEF LockInv, Phases
<1>8. Shared(b)'
  BY <1>0, <1>1, <1>2, <1>6 DEF LockInv, Shared
<1>9. Drained(b)'
  BY ZenonT(40), <1>0, <1>1, <1>4 DEF LockInv, Drained
<1>10. Cleaned(b)'
  BY <1>0, <1>1, <1>4 DEF LockInv, Cleaned, Unfenced
<1>11. AgentHolds(b)'
  BY <1>0, <1>1, <1>2 DEF LockInv, AgentHolds, Asserts, Unfenced
<1>12. Freed(b)'
  BY <1>0, <1>1, <1>6 DEF LockInv, Freed
<1>13. GaveUp(b)'
  BY <1>0, <1>2, <1>6 DEF LockInv, GaveUp
<1> QED BY <1>1, <1>5, <1>7, <1>8, <1>9, <1>10, <1>11, <1>12, <1>13 DEF LockInv

-----------------------------------------------------------------------------
(* What a task's own steps keep *)

\* Whose tasks an attempt's are, for the steps of one of them.
LEMMA OwnTasks ==
    ASSUME NEW a \in Attempts
    PROVE  /\ Flow(a) \in TasksOf(a) /\ Agent(a) \in TasksOf(a) /\ AbortOf(a) \in TasksOf(a)
           /\ Flow(a) # Agent(a) /\ Flow(a) # AbortOf(a) /\ Agent(a) # AbortOf(a)
           /\ None \notin TasksOf(a) /\ Other \notin TasksOf(a)
           /\ \A u \in TasksOf(a) : u \in Tasks /\ u[1] = a /\ u # None /\ u # Other
  BY TasksOfAttempts DEF TasksOf

\* u is where it was.
Same(u) ==
    /\ Placed(u)'
    /\ Writing(u)' <=> Writing(u)
    /\ Cleaning(u)' <=> Cleaning(u)
    /\ Fencing(u)' <=> Fencing(u)
    /\ Resting(u)' <=> Resting(u)
    /\ \A p : Asserts(u, p)' <=> Asserts(u, p)
    /\ at'[u].key = at[u].key
    /\ at'[u].pc = at[u].pc

LEMMA OtherTasks ==
    ASSUME NEW a \in Attempts, NEW t \in TasksOf(a), LockInv(a),
           \A u \in TasksOf(a) : u # t => at'[u] = at[u]
    PROVE  \A u \in TasksOf(a) : u # t => Same(u)
  BY SameTask, OwnTasks DEF LockInv, Same

LEMMA SettledWriters ==
    ASSUME NEW a \in Attempts, Settled(a)
    PROVE  \A u \in TasksOf(a) : Writer(u) => Resting(u)
  BY TasksOfAttempts, OwnTasks DEF Settled, Resting

\* Nobody starts or stops out of turn.
InPhase(t) ==
    LET a == t[1]
    IN  /\ ~Resting(t) \/ t = Flow(a)
           \/ (Writer(t) /\ at[Agent(a)].pc \in {"turn", "stream"})
           \/ (t = AbortOf(a) /\ at[Flow(a)].pc \notin {"idle", "create"})
        /\ t = Agent(a) => at'[t].pc \in {"turn", "stream"} \/ at[t].pc \notin {"turn", "stream"} \/ Settled(a)
        /\ t = AbortOf(a) => at'[t].pc # "idle"
        /\ t = Flow(a) =>
              /\ at'[t].pc # "idle"
              /\ at'[t].pc = "create" => at[t].pc = "idle" /\ ctl'[a] = ctl[a]
              /\ at'[t].pc = "prepare" => at[t].pc = "create"
              /\ at[t].pc = "prompt" => Aborted(a) \/ Resting(Agent(a))

LEMMA PhasesKept ==
    ASSUME NEW a \in Attempts, NEW t \in TasksOf(a), LockInv(a), InPhase(t),
           \A u \in TasksOf(a) : u # t => at'[u] = at[u]
    PROVE  Phases(a)'
<1> USE OwnTasks
<1>0. t[1] = a /\ Phases(a)
  BY DEF LockInv
<1>1. \A u \in TasksOf(a) : u # t => (Resting(u)' <=> Resting(u)) /\ at'[u] = at[u]
  BY OtherTasks DEF Same
<1>2. \A u \in TasksOf(a) : Writer(u) /\ ~Resting(u)' => at'[Agent(a)].pc \in {"turn", "stream"}
  BY <1>0, <1>1, SettledWriters DEF InPhase, Phases, Writer
<1>3. at'[Flow(a)].pc \in {"idle", "create"} =>
          /\ ~Aborted(a)' /\ ~ctl'[a].takeover
          /\ ctl'[a].held = None /\ ctl'[a].users = {} /\ ctl'[a].drain = None
  <2> SUFFICES ASSUME at'[Flow(a)].pc \in {"idle", "create"}
               PROVE  /\ ~Aborted(a)' /\ ~ctl'[a].takeover
                      /\ ctl'[a].held = None /\ ctl'[a].users = {} /\ ctl'[a].drain = None
    OBVIOUS
  <2>1. CASE t = Flow(a)
    <3>1. at[Flow(a)].pc = "idle" /\ ctl'[a] = ctl[a] /\ at'[AbortOf(a)] = at[AbortOf(a)]
      BY <2>1, <1>0 DEF InPhase
    <3> QED BY <3>1, <1>0 DEF Phases, Aborted
  <2>2. CASE t # Flow(a)
    <3>1. at[Flow(a)].pc \in {"idle", "create"}
      BY <2>2
    <3>2. at[Agent(a)].pc = "idle" /\ at[AbortOf(a)].pc = "idle"
      BY <3>1, <1>0 DEF Phases, Aborted
    <3>3. Writer(t) => Resting(t)
      BY <3>2, <1>0 DEF Phases
    <3> QED BY <2>2, <3>1, <3>2, <3>3, <1>0 DEF InPhase, Writer, Resting
  <2> QED BY <2>1, <2>2
<1>4. at'[Flow(a)].pc \in {"idle", "create", "prepare"} => at'[Agent(a)].pc = "idle"
  BY <1>0, <1>1 DEF InPhase, Phases, Resting
<1>5. at'[Flow(a)].pc # "prompt" => Aborted(a)' \/ Resting(Agent(a))'
  BY <1>0, <1>1 DEF InPhase, Phases, Resting, Aborted
<1> QED BY <1>2, <1>3, <1>4, <1>5 DEF Phases

\* t goes on without a lock that it did not have, or keeps what it has.
Alike(t) ==
    LET a == t[1]
    IN  /\ Controls(a, ctl[a].held, ctl[a].users, ctl[a].drain, ctl'[a].takeover)
        /\ ctl[a].takeover => ctl'[a].takeover
        /\ UNCHANGED lock
        /\ Placed(t)' /\ InPhase(t)
        /\ Writing(t)' <=> Writing(t)
        /\ Cleaning(t)' <=> Cleaning(t)
        /\ Fencing(t)' <=> Fencing(t)
        /\ Writing(t) \/ Cleaning(t) \/ Fencing(t) => at'[t].key = at[t].key
        /\ at'[t].pc = "idle users" <=> at[t].pc = "idle users"
        /\ Asserts(t, "turn")' => Asserts(t, "turn")
        /\ t = Agent(a) /\ at'[t].pc = "lock turn" =>
              ctl[a].held = None /\ Unfenced(a) /\ ~ctl[a].takeover
        /\ t = Flow(a) /\ at'[t].pc \in {"drained", "over"} =>
              ctl[a].held # Flow(a) /\ (Aborted(a) \/ ctl[a].held = None)
        /\ t = Flow(a) /\ at'[t].pc = "over" => ctl[a].drain = None

LEMMA AlikeKeeps ==
    ASSUME NEW a \in Attempts, NEW t \in TasksOf(a), LockInv(a), Alike(t),
           \A u \in TasksOf(a) : u # t => at'[u] = at[u]
    PROVE  LockInv(a)'
<1> USE OwnTasks
<1>0. t \in Tasks /\ t[1] = a
  OBVIOUS
<1>a. /\ ctl'[a].held = ctl[a].held /\ ctl'[a].users = ctl[a].users
      /\ ctl'[a].drain = ctl[a].drain /\ (ctl[a].takeover => ctl'[a].takeover) /\ lock' = lock
  BY <1>0 DEF Alike, Controls
<1>b. Phases(a)'
  BY <1>0, PhasesKept DEF Alike
<1>1. \A u \in TasksOf(a) :
          /\ Placed(u)'
          /\ Writing(u)' <=> Writing(u)
          /\ Cleaning(u)' <=> Cleaning(u)
          /\ Fencing(u)' <=> Fencing(u)
          /\ Asserts(u, "turn")' => Asserts(u, "turn")
          /\ Writing(u) \/ Cleaning(u) \/ Fencing(u) => at'[u].key = at[u].key
          /\ at'[u].pc = "idle users" <=> at[u].pc = "idle users"
  <2> DEFINE Like(u) ==
          /\ Placed(u)'
          /\ Writing(u)' <=> Writing(u)
          /\ Cleaning(u)' <=> Cleaning(u)
          /\ Fencing(u)' <=> Fencing(u)
          /\ Asserts(u, "turn")' => Asserts(u, "turn")
          /\ Writing(u) \/ Cleaning(u) \/ Fencing(u) => at'[u].key = at[u].key
          /\ at'[u].pc = "idle users" <=> at[u].pc = "idle users"
  <2>1. \A u \in TasksOf(a) : u # t => Like(u)
    BY OtherTasks DEF Same
  <2>2. Like(t)
    BY <1>0 DEF Alike
  <2> HIDE DEF Like
  <2>3. \A u \in TasksOf(a) : Like(u)
    BY <2>1, <2>2
  <2> QED BY <2>3 DEF Like
<1>2. Aborted(a) => Aborted(a)'
  BY <1>0 DEF Aborted, Alike, InPhase
<1>3. \A k : InHand(a, k) => InHand(a, k)'
  <2>1. CASE at'[Agent(a)].pc = "lock turn" => at[Agent(a)].pc = "lock turn"
    BY <2>1, <1>a, <1>2 DEF InHand, Lost
  <2>2. CASE t = Agent(a) /\ at'[t].pc = "lock turn"
    BY <2>2, <1>0, <1>a DEF InHand, Lost, Alike
  <2> QED BY <2>1, <2>2
<1>4. Controlled(a)'
  BY <1>a DEF LockInv, Controlled
<1>5. \A k : Handed(a, k)' <=> Handed(a, k)
  BY <1>1 DEF Handed
<1>6. Shared(a)'
  BY <1>1, <1>2, <1>5, <1>a DEF LockInv, Shared
<1>7. Drained(a)'
  BY <1>1, <1>3, <1>a DEF LockInv, Drained
<1>8. Cleaned(a)'
  BY <1>1, <1>3, <1>a DEF LockInv, Cleaned, Unfenced
<1>9. AgentHolds(a)'
  <2>1. at'[Agent(a)].pc = "lock turn" => ctl'[a].held = None /\ Unfenced(a)
    BY <1>0, <1>a DEF LockInv, AgentHolds, Alike
  <2>2. Unfenced(a)' <=> Unfenced(a)
    BY <1>1 DEF Unfenced
  <2> QED BY <2>1, <2>2, <1>1, <1>2, <1>a DEF LockInv, AgentHolds
<1>10. Freed(a)'
  BY <1>1, <1>5, <1>a DEF LockInv, Freed
<1>11. GaveUp(a)'
  <2>1. at'[Flow(a)].pc \in {"drained", "over"} =>
            ctl'[a].held # Flow(a) /\ (Aborted(a)' \/ ctl'[a].held = None)
    BY <1>0, <1>2, <1>a DEF LockInv, GaveUp, Alike
  <2>2. at'[Flow(a)].pc = "over" => ~Handed(a, Flow(a))' /\ (Aborted(a)' \/ ctl'[a].drain = None)
    <3>1. CASE t = Flow(a)
      <4>1. at'[Flow(a)].pc = "over" => \A u \in TasksOf(a) : ~Fencing(u)
        <5>1. at'[Flow(a)].pc = "over" => ctl[a].drain = None
          BY <3>1, <1>0 DEF Alike
        <5>2. Drained(a)
          BY DEF LockInv
        <5>3. \A u \in TasksOf(a) : Fencing(u) => ctl[a].drain = u
          BY <5>2 DEF Drained
        <5>4. None \notin TasksOf(a)
          OBVIOUS
        <5> QED BY <5>1, <5>3, <5>4
      <4> QED BY <4>1, <3>1, <1>0, <1>1, <1>2, <1>a DEF Alike, Handed
    <3>2. CASE t # Flow(a)
      BY <3>2, <1>2, <1>5, <1>a DEF LockInv, GaveUp
    <3> QED BY <3>1, <3>2
  <2> QED BY <2>1, <2>2 DEF GaveUp
<1> QED BY <1>b, <1>1, <1>4, <1>6, <1>7, <1>8, <1>9, <1>10, <1>11 DEF LockInv

\* Who holds the lock for t when it works, what it is not, and what it does otherwise.
LEMMA Exclusive ==
    ASSUME NEW t
    PROVE  /\ Writing(t) => /\ ~Cleaning(t) /\ ~Fencing(t) /\ ~Resting(t)
                            /\ at[t].pc # "idle users" /\ ~Asserts(t, "turn")
           /\ Cleaning(t) => /\ ~Fencing(t) /\ ~Resting(t)
                             /\ at[t].pc # "idle users" /\ ~Asserts(t, "turn")
           /\ Fencing(t) => /\ ~Resting(t) /\ at[t].pc # "idle users"
                            /\ ~Asserts(t, "turn")
  BY DEF Writing, Cleaning, Fencing, Resting, Asserts, FencePcs, FencingPcs, LockedPcs

LEMMA Workers ==
    ASSUME NEW a \in Attempts, NEW t \in TasksOf(a), LockInv(a)
    PROVE  /\ Writing(t) => t # Agent(a) /\ t # AbortOf(a)
           /\ Cleaning(t) => t = Flow(a)
           /\ Asserts(t, "turn") => t = Agent(a)
           /\ at[t].pc = "idle users" \/ Fencing(t) => t = Flow(a) \/ t = Agent(a) \/ t = AbortOf(a)
<1>1. t[1] = a /\ Placed(t)
  BY OwnTasks DEF LockInv
<1>2. t = Flow(a) => ~Asserts(t, "turn")
  BY <1>1 DEF Placed, FlowAt, Asserts, FencePcs, FencingPcs, DrainPcs, LockedPcs
<1>3. t = Agent(a) => ~Writing(t) /\ ~Cleaning(t)
  BY <1>1 DEF Placed, AgentAt, Writing, Cleaning, Asserts, FencePcs, FencingPcs, DrainPcs, LockedPcs
<1>4. t = AbortOf(a) => ~Writing(t) /\ ~Cleaning(t) /\ ~Asserts(t, "turn")
  BY <1>1
  DEF Placed, AbortAt, Resting, Writing, Cleaning, Asserts, FencePcs, FencingPcs, DrainPcs, LockedPcs
<1>5. Writer(t) => ~Cleaning(t) /\ ~Asserts(t, "turn") /\ at[t].pc # "idle users" /\ ~Fencing(t)
  BY <1>1
  DEF Placed, WriterAt, Resting, Cleaning, Fencing, Asserts, FencePcs, FencingPcs, DrainPcs, LockedPcs
<1> QED BY <1>1, <1>2, <1>3, <1>4, <1>5 DEF Writer

LEMMA NobodyDrains ==
    ASSUME NEW a \in Attempts, LockInv(a), ctl[a].drain = None
    PROVE  \A u \in TasksOf(a) : ~Fencing(u) /\ at[u].pc # "idle users"
<1>1. \A u \in TasksOf(a) : at[u].pc = "idle users" \/ Fencing(u) => ctl[a].drain = u
  BY DEF LockInv, Drained
<1>2. None \notin TasksOf(a)
  BY OwnTasks
<1> QED BY <1>1, <1>2

LEMMA NobodyLeft ==
    ASSUME NEW a \in Attempts, ctl'[a].drain = None,
           \A u \in TasksOf(a) : ~Fencing(u)' /\ at'[u].pc # "idle users"
    PROVE  Drained(a)'
<1>1. \A u \in TasksOf(a) : u # None
  BY OwnTasks
<1> QED BY <1>1 DEF Drained

\* t is the one that drains.
LEMMA OneDrains ==
    ASSUME NEW a \in Attempts, LockInv(a), NEW t \in TasksOf(a),
           at[t].pc = "idle users" \/ Fencing(t)
    PROVE  /\ ctl[a].drain = t
           /\ \A u \in TasksOf(a) : u # t => ~Fencing(u) /\ at[u].pc # "idle users"
<1>1. \A u \in TasksOf(a) : at[u].pc = "idle users" \/ Fencing(u) => ctl[a].drain = u
  BY DEF LockInv, Drained
<1> QED BY <1>1

\* A write ends: the shared use is given back, or the lock of its own.
Ends(t) ==
    LET a == t[1]
    IN  /\ Writing(t)
        /\ Moves(t, IF t = Flow(a) THEN "cleanup" ELSE "done", "idle", None)
        /\ Controls(a, ctl[a].held, ctl[a].users \ {t}, ctl[a].drain, ctl'[a].takeover)
        /\ ctl[a].takeover => ctl'[a].takeover
        /\ lock' = IF t \notin ctl[a].users /\ lock = t THEN None ELSE lock

LEMMA EndsKeeps ==
    ASSUME NEW a \in Attempts, NEW t \in TasksOf(a), LockInv(a), Ends(t)
    PROVE  LockInv(a)'
<1> USE OwnTasks DEF Same
<1>0. t[1] = a
  OBVIOUS
<1>a. /\ Writing(t)
      /\ \A u \in TasksOf(a) : u # t => at'[u] = at[u]
      /\ at'[t].pc = IF t = Flow(a) THEN "cleanup" ELSE "done"
  BY <1>0 DEF Ends, Moves
<1>c. /\ ctl'[a].held = ctl[a].held /\ ctl'[a].users = ctl[a].users \ {t}
      /\ ctl'[a].drain = ctl[a].drain /\ (ctl[a].takeover => ctl'[a].takeover)
      /\ lock' = IF t \notin ctl[a].users /\ lock = t THEN None ELSE lock
  BY <1>0 DEF Ends, Controls
<1>d. t # Agent(a) /\ t # AbortOf(a)
  BY <1>a, Workers
<1>1. \A u \in TasksOf(a) : u # t => Same(u)
  BY <1>a, OtherTasks
<1>2. ~Writing(t)' /\ ~Cleaning(t)' /\ ~Fencing(t)' /\ at'[t].pc # "idle users" /\ Placed(t)'
  <2>1. at'[t].pc \in {"cleanup", "done"}
    BY <1>a
  <2>2. ~Writing(t)' /\ ~Cleaning(t)' /\ ~Fencing(t)' /\ at'[t].pc # "idle users"
    BY <2>1 DEF Writing, Cleaning, Fencing, Asserts, FencePcs, FencingPcs, LockedPcs
  <2>3. t = Flow(a) => FlowAt(t)'
    BY <1>a DEF FlowAt
  <2>4. t # Flow(a) => WriterAt(t)'
    BY <1>a DEF WriterAt, Resting
  <2> QED BY <2>2, <2>3, <2>4, <1>0, <1>d DEF Placed, Writer
<1>3. /\ ~Cleaning(t) /\ ~Fencing(t) /\ at[t].pc # "idle users"
      /\ t \notin ctl[a].users => lock = t /\ ctl[a].held = None /\ ~Handed(a, t)
  BY <1>a, Exclusive DEF LockInv, Shared
<1>4. InPhase(t)
  BY <1>0, <1>a, <1>d, Exclusive DEF InPhase, Writing, LockedPcs, FencePcs, Asserts
<1>5. Phases(a)'
  BY <1>4, <1>a, PhasesKept
<1>6. (Aborted(a)' <=> Aborted(a)) /\ (Lost(a) => Lost(a)')
  BY <1>1, <1>c, <1>d DEF Aborted, Lost
<1>7. Controlled(a)'
  BY <1>3, <1>c DEF LockInv, Controlled
<1>8. \A k : Handed(a, k)' <=> Handed(a, k)
  BY <1>1, <1>2, <1>3 DEF Handed
<1>9. Shared(a)'
  <2>1. \A u \in TasksOf(a) : u \in ctl'[a].users =>
            /\ Writing(u)'
            /\ \/ ctl'[a].held # None /\ at'[u].key = ctl'[a].held
               \/ u = Flow(a) /\ Aborted(a)'
    BY <1>1, <1>6, <1>c DEF LockInv, Shared
  <2>2. \A u \in TasksOf(a) : Writing(u)' /\ u \notin ctl'[a].users =>
            at'[u].key = u /\ lock' = u /\ ctl'[a].held = None /\ ~Handed(a, u)'
    <3> SUFFICES ASSUME NEW u \in TasksOf(a), Writing(u)', u \notin ctl'[a].users
                 PROVE  at'[u].key = u /\ lock' = u /\ ctl'[a].held = None /\ ~Handed(a, u)'
      OBVIOUS
    <3>1. u # t /\ Writing(u) /\ u \notin ctl[a].users
      BY <1>1, <1>2, <1>c
    <3>2. at[u].key = u /\ lock = u /\ ctl[a].held = None /\ ~Handed(a, u)
      BY <3>1 DEF LockInv, Shared
    <3> QED BY <3>1, <3>2, <1>1, <1>8, <1>c
  <2> QED BY <2>1, <2>2 DEF Shared
<1>10. \A k : InHand(a, k) /\ (k # t \/ t \in ctl[a].users) => InHand(a, k)'
  BY <1>3, <1>6, <1>c DEF InHand
<1>11. Drained(a)'
  <2>1. \A u \in TasksOf(a) : ctl'[a].drain = u <=> at'[u].pc = "idle users" \/ Fencing(u)'
    BY <1>1, <1>2, <1>3, <1>c DEF LockInv, Drained
  <2>2. \A u \in TasksOf(a) : Fencing(u)' => Handed(a, at[u].key) /\ at'[u].key = at[u].key
    BY <1>1, <1>2 DEF Handed
  <2>3. \A u \in TasksOf(a) : Fencing(u)' =>
            ctl'[a].held = None /\ ctl'[a].users = {} /\ InHand(a, at[u].key)'
    <3> SUFFICES ASSUME NEW u \in TasksOf(a), Fencing(u)'
                 PROVE  ctl'[a].held = None /\ ctl'[a].users = {} /\ InHand(a, at[u].key)'
      OBVIOUS
    <3>1. PICK k : k = at[u].key
      OBVIOUS
    <3>2. u # t /\ Fencing(u) /\ at'[u].key = k /\ Handed(a, k)
      BY <3>1, <2>2, <1>1, <1>2
    <3>3. ctl[a].held = None /\ ctl[a].users = {} /\ InHand(a, k)
      <4>1. ctl[a].held = None /\ ctl[a].users = {} /\ InHand(a, at[u].key)
        BY <3>2 DEF LockInv, Drained
      <4> QED BY <4>1, <3>1
    <3>4. InHand(a, k)'
      BY <3>2, <3>3, <1>3, <1>10
    <3> QED BY <3>2, <3>3, <3>4, <1>c
  <2> QED BY <2>1, <2>3 DEF Drained
<1>12. Cleaned(a)'
  <2> SUFFICES ASSUME Cleaning(Flow(a))'
               PROVE  ctl'[a].held = None /\ Unfenced(a)' /\ InHand(a, at[Flow(a)].key)'
    BY DEF Cleaned
  <2>1. PICK k : k = at[Flow(a)].key
    OBVIOUS
  <2>2. t # Flow(a) /\ Cleaning(Flow(a)) /\ at'[Flow(a)].key = k
    BY <2>1, <1>1, <1>2
  <2>3. ctl[a].held = None /\ Unfenced(a)' /\ InHand(a, k)
    BY <2>1, <2>2, <1>1, <1>2 DEF LockInv, Cleaned, Unfenced
  <2>4. k # t
    BY <2>2, <2>3, <1>d DEF InHand
  <2>5. InHand(a, k)'
    BY <2>3, <2>4, <1>10
  <2> QED BY <2>2, <2>3, <2>5, <1>c
<1>13. AgentHolds(a)'
  BY <1>1, <1>2, <1>6, <1>c, <1>d DEF LockInv, AgentHolds, Unfenced
<1>14. Freed(a)'
  BY <1>1, <1>2, <1>3, <1>8, <1>c DEF LockInv, Freed
<1>15. GaveUp(a)'
  BY <1>0, <1>1, <1>6, <1>8, <1>a, <1>c DEF LockInv, GaveUp
<1> QED BY <1>1, <1>2, <1>5, <1>7, <1>9, <1>11, <1>12, <1>13, <1>14, <1>15 DEF LockInv

\* What t gives the lock up for.
LEMMA Drainers ==
    ASSUME NEW a \in Attempts, NEW t \in TasksOf(a), LockInv(a), at[t].pc \in DrainPcs
    PROVE  /\ t = Flow(a) \/ t = Agent(a) \/ t = AbortOf(a)
           /\ t = Flow(a) => /\ at[t].then \in {"results", "flush", "over"}
                             /\ Fencing(t) => at[t].then = "results"
                             /\ at[t].pc = "drained" => at[t].then # "flush"
           /\ t = Agent(a) => at[t].then = "stream"
           /\ t = AbortOf(a) => at[t].then = "done"
           /\ ~Writing(t) /\ ~Cleaning(t) /\ ~Asserts(t, "turn") /\ ~Resting(t)
<1>0. t[1] = a /\ Placed(t)
  BY OwnTasks DEF LockInv
<1>1. ~Writing(t) /\ ~Cleaning(t) /\ ~Asserts(t, "turn") /\ ~Resting(t)
  BY DEF Writing, Cleaning, Asserts, Resting, DrainPcs, FencingPcs, FencePcs, LockedPcs
<1>2. ~Writer(t)
  BY <1>0, <1>1 DEF Placed, WriterAt, Writing, DrainPcs, FencingPcs
<1>3. t = Flow(a) => /\ at[t].then \in {"results", "flush", "over"}
                     /\ Fencing(t) => at[t].then = "results"
                     /\ at[t].pc = "drained" => at[t].then # "flush"
  BY <1>0, <1>1 DEF Placed, FlowAt, Writing, Cleaning, Fencing, DrainPcs, FencingPcs, LockedPcs
<1>4. t = Agent(a) => at[t].then = "stream"
  BY <1>0, <1>1 DEF Placed, AgentAt, DrainPcs, FencingPcs
<1>5. t = AbortOf(a) => at[t].then = "done"
  BY <1>0, <1>1 DEF Placed, AbortAt
<1> QED BY <1>0, <1>1, <1>2, <1>3, <1>4, <1>5 DEF Writer

\* A drain begins.
Begins(t) ==
    LET a == t[1]
    IN  /\ at[t].pc = "drain" /\ ctl[a].drain = None
        /\ Moves(t, "idle users", at[t].then, at[t].key)
        /\ Controls(a, ctl[a].held, ctl[a].users, t, ctl[a].takeover)
        /\ UNCHANGED lock

LEMMA BeginsKeeps ==
    ASSUME NEW a \in Attempts, NEW t \in TasksOf(a), LockInv(a), Begins(t)
    PROVE  LockInv(a)'
<1> USE OwnTasks DEF Same
<1>0. t[1] = a
  OBVIOUS
<1>a. /\ at[t].pc = "drain" /\ ctl[a].drain = None
      /\ \A u \in TasksOf(a) : u # t => at'[u] = at[u]
      /\ at'[t].pc = "idle users" /\ at'[t].then = at[t].then
  BY <1>0 DEF Begins, Moves
<1>c. /\ ctl'[a].held = ctl[a].held /\ ctl'[a].users = ctl[a].users /\ ctl'[a].drain = t
      /\ ctl'[a].takeover = ctl[a].takeover /\ lock' = lock
  BY <1>0 DEF Begins, Controls
<1>1. \A u \in TasksOf(a) : u # t => Same(u)
  BY <1>a, OtherTasks
<1>2. /\ ~Writing(t)' /\ ~Cleaning(t)' /\ ~Fencing(t)' /\ ~Asserts(t, "turn")' /\ ~Resting(t)
      /\ ~Writing(t) /\ ~Cleaning(t) /\ ~Fencing(t)
  BY <1>a
  DEF Writing, Cleaning, Fencing, Asserts, FencePcs, FencingPcs, LockedPcs, Resting
<1>3. \A u \in TasksOf(a) : ~Fencing(u) /\ at[u].pc # "idle users" /\ ~Fencing(u)'
  BY <1>1, <1>2, <1>a, NobodyDrains
<1>4. Placed(t)'
  <2>1. Placed(t)
    BY DEF LockInv
  <2>2. t = Flow(a) => FlowAt(t)'
    BY <2>1, <1>0, <1>a DEF Placed, FlowAt, DrainPcs, FencingPcs, LockedPcs, Asserts, FencePcs
  <2>3. t = Agent(a) => AgentAt(t)'
    BY <2>1, <1>0, <1>a DEF Placed, AgentAt, DrainPcs, FencingPcs, Asserts, FencePcs
  <2>4. t = AbortOf(a) => AbortAt(t)'
    BY <2>1, <1>0, <1>a DEF Placed, AbortAt, DrainPcs, FencingPcs, Resting
  <2>5. ~Writer(t)
    BY <2>1, <1>a DEF Placed, WriterAt, Resting, LockedPcs, Asserts, FencePcs
  <2> QED BY <2>2, <2>3, <2>4, <2>5, <1>0 DEF Placed, Writer
<1>5. Phases(a)'
  <2>1. InPhase(t)
    BY <1>0, <1>2, <1>a DEF InPhase
  <2> QED BY <2>1, <1>a, PhasesKept
<1>6. Aborted(a) => Aborted(a)'
  BY <1>1, <1>a DEF Aborted
<1>7. Controlled(a)'
  BY <1>c DEF LockInv, Controlled
<1>8. \A k : ~Handed(a, k) /\ ~Handed(a, k)'
  BY <1>3 DEF Handed
<1>9. Shared(a)'
  BY <1>1, <1>2, <1>6, <1>8, <1>c DEF LockInv, Shared
<1>10. Drained(a)'
  <2>1. \A u \in TasksOf(a) : ctl'[a].drain = u <=> at'[u].pc = "idle users" \/ Fencing(u)'
    <3>1. \A u \in TasksOf(a) : u # t => at'[u].pc = at[u].pc
      BY <1>1
    <3> QED BY <3>1, <1>3, <1>a, <1>c
  <2> QED BY <2>1, <1>3 DEF Drained
<1>11. Cleaned(a)'
  <2>1. \A k : InHand(a, k) => InHand(a, k)'
    BY <1>1, <1>6, <1>a, <1>c DEF InHand, Lost
  <2> QED BY <2>1, <1>1, <1>2, <1>3, <1>a, <1>c DEF LockInv, Cleaned, Unfenced
<1>12. AgentHolds(a)'
  BY <1>1, <1>2, <1>3, <1>6, <1>a, <1>c DEF LockInv, AgentHolds, Unfenced
<1>13. Freed(a)'
  BY <1>1, <1>2, <1>8, <1>c DEF LockInv, Freed
<1>14. GaveUp(a)'
  <2>1. at'[Flow(a)].pc = "over" => Aborted(a)'
    <3>1. at[t].pc # "over" /\ ~Resting(t) /\ (t = AbortOf(a) => Aborted(a))
      BY <1>a DEF Resting, Aborted
    <3>2. at[Flow(a)].pc = "over" => Aborted(a) \/ t = AbortOf(a)
      BY <3>1, <1>a, Drainers DEF LockInv, Phases, DrainPcs
    <3> QED BY <3>1, <3>2, <1>1, <1>6, <1>a
  <2> QED BY <2>1, <1>1, <1>6, <1>8, <1>a, <1>c DEF LockInv, GaveUp
<1> QED BY <1>1, <1>4, <1>5, <1>7, <1>9, <1>10, <1>11, <1>12, <1>13, <1>14 DEF LockInv

\* Nobody shares the lock any more: t takes it from the controller.
LEMMA Takers ==
    ASSUME NEW a \in Attempts, NEW t \in TasksOf(a), LockInv(a),
           at[t].pc = "idle users", ctl[a].users = {},
           \A u \in TasksOf(a) : u # t => at'[u] = at[u]
    PROVE  /\ ctl[a].drain = t
           /\ \A u \in TasksOf(a) : u # t => Same(u) /\ at[u].pc # "idle users"
           /\ \A u \in TasksOf(a) : ~Fencing(u)
           /\ ctl[a].held # None => \A u \in TasksOf(a) : ~Writing(u) /\ ~Cleaning(u)
           /\ Asserts(Agent(a), "turn") => Aborted(a)
<1> USE OwnTasks
<1>1. ~Fencing(t) /\ at[t].pc \in DrainPcs
  BY DEF Fencing, DrainPcs, FencingPcs
<1>2. ctl[a].drain = t /\ \A u \in TasksOf(a) : u # t => ~Fencing(u) /\ at[u].pc # "idle users"
  BY OneDrains
<1>3. ctl[a].held # None => \A u \in TasksOf(a) : ~Writing(u) /\ ~Cleaning(u)
  BY Workers DEF LockInv, Shared, Cleaned
<1>4. Asserts(Agent(a), "turn") => Aborted(a)
  <2> SUFFICES ASSUME Asserts(Agent(a), "turn")
               PROVE  Aborted(a)
    OBVIOUS
  <2>1. t # Agent(a) /\ (t = Flow(a) \/ t = AbortOf(a))
    BY <1>1, Drainers
  <2>2. ~Resting(Agent(a))
    BY DEF Asserts, Resting, FencePcs
  <2>3. at[Flow(a)].pc # "prompt" => Aborted(a)
    BY <2>2 DEF LockInv, Phases
  <2> QED BY <2>1, <2>3 DEF Aborted
<1>5. \A u \in TasksOf(a) : u # t => Same(u)
  BY OtherTasks
<1> QED BY <1>1, <1>2, <1>3, <1>4, <1>5

\* The cleanup keeps the lock.
TakesForCleanup(t) ==
    LET a == t[1]
    IN  /\ at[t].pc = "idle users" /\ ctl[a].users = {}
        /\ at[t].then = "flush" /\ ctl[a].held # None
        /\ \E p \in {"assert", "flush"} : Moves(t, p, "flush", ctl[a].held)
        /\ Controls(a, None, {}, None, ctl[a].takeover)
        /\ UNCHANGED lock

LEMMA TakesForCleanupKeeps ==
    ASSUME NEW a \in Attempts, NEW t \in TasksOf(a), LockInv(a), TakesForCleanup(t)
    PROVE  LockInv(a)'
<1> USE OwnTasks DEF Same
<1>0. t[1] = a
  OBVIOUS
<1>a. /\ at[t].pc = "idle users" /\ ctl[a].users = {} /\ at[t].then = "flush" /\ ctl[a].held # None
      /\ \A u \in TasksOf(a) : u # t => at'[u] = at[u]
      /\ at'[t].pc \in {"assert", "flush"} /\ at'[t].then = "flush" /\ at'[t].key = ctl[a].held
  BY <1>0 DEF TakesForCleanup, Moves
<1>c. /\ ctl'[a].held = None /\ ctl'[a].users = {} /\ ctl'[a].drain = None
      /\ ctl'[a].takeover = ctl[a].takeover /\ lock' = lock
  BY <1>0 DEF TakesForCleanup, Controls
<1>d. t = Flow(a) /\ ~Resting(t)
  BY <1>a, Drainers DEF DrainPcs
<1>1. /\ \A u \in TasksOf(a) : u # t => Same(u) /\ at[u].pc # "idle users"
      /\ \A u \in TasksOf(a) : ~Fencing(u) /\ ~Writing(u) /\ ~Cleaning(u)
      /\ Asserts(Agent(a), "turn") => Aborted(a)
  <2> HIDE DEF Same
  <2> QED BY ZenonT(60), <1>a, Takers
<1>2. /\ ~Writing(t)' /\ Cleaning(t)' /\ ~Fencing(t)' /\ at'[t].pc # "idle users"
      /\ FlowAt(t)'
  BY <1>a
  DEF Writing, Cleaning, Fencing, Asserts, FencePcs, FencingPcs, LockedPcs, FlowAt
<1>3. \A u \in TasksOf(a) : ~Fencing(u)' /\ ~Writing(u)' /\ at'[u].pc # "idle users"
  BY <1>1, <1>2
<1>4. Placed(t)'
  BY <1>0, <1>2, <1>d DEF Placed, Writer
<1>5. Phases(a)'
  <2>1. InPhase(t)
    BY <1>0, <1>a, <1>d DEF InPhase
  <2> QED BY <2>1, <1>a, PhasesKept
<1>6. Aborted(a) => Aborted(a)'
  BY <1>1, <1>d DEF Aborted
<1>7. Controlled(a)'
  BY <1>c DEF Controlled
<1>8. Shared(a)'
  BY <1>3, <1>c DEF Shared
<1>9. Drained(a)'
  BY <1>3, <1>c, NobodyLeft
<1>10. Cleaned(a)'
  BY <1>3, <1>a, <1>c, <1>d DEF LockInv, Controlled, Cleaned, InHand, Unfenced
<1>11. AgentHolds(a)'
  <2>1. at[Agent(a)].pc # "lock turn"
    BY <1>a DEF LockInv, AgentHolds
  <2> QED BY <2>1, <1>1, <1>6, <1>c, <1>d DEF AgentHolds
<1>12. Freed(a)'
  BY <1>2, <1>a, <1>c, <1>d DEF LockInv, Controlled, Freed
<1>13. GaveUp(a)'
  BY <1>a, <1>d DEF GaveUp
<1> QED BY <1>1, <1>4, <1>5, <1>7, <1>8, <1>9, <1>10, <1>11, <1>12, <1>13 DEF LockInv

\* The end of the attempt frees it.
TakesToFree(t) ==
    LET a == t[1]
    IN  /\ at[t].pc = "idle users" /\ ctl[a].users = {}
        /\ at[t].then = "over" /\ ctl[a].held # None
        /\ Moves(t, "over", "idle", None)
        /\ Controls(a, None, {}, None, ctl[a].takeover)
        /\ Unlock(ctl[a].held)

LEMMA TakesToFreeKeeps ==
    ASSUME NEW a \in Attempts, NEW t \in TasksOf(a), LockInv(a), TakesToFree(t)
    PROVE  LockInv(a)'
<1> USE OwnTasks DEF Same
<1>0. t[1] = a
  OBVIOUS
<1>a. /\ at[t].pc = "idle users" /\ ctl[a].users = {} /\ at[t].then = "over" /\ ctl[a].held # None
      /\ \A u \in TasksOf(a) : u # t => at'[u] = at[u]
      /\ at'[t].pc = "over"
  BY <1>0 DEF TakesToFree, Moves
<1>c. /\ ctl'[a].held = None /\ ctl'[a].users = {} /\ ctl'[a].drain = None
      /\ ctl'[a].takeover = ctl[a].takeover
  BY <1>0 DEF TakesToFree, Controls
<1>d. t = Flow(a) /\ ~Resting(t)
  BY <1>a, Drainers DEF DrainPcs
<1>e. lock' = None
  BY <1>0, <1>a DEF TakesToFree, Unlock, LockInv, Controlled
<1>1. /\ \A u \in TasksOf(a) : u # t => Same(u) /\ at[u].pc # "idle users"
      /\ \A u \in TasksOf(a) : ~Fencing(u) /\ ~Writing(u) /\ ~Cleaning(u)
      /\ Asserts(Agent(a), "turn") => Aborted(a)
  <2> HIDE DEF Same
  <2> QED BY <1>a, Takers
<1>2. /\ ~Writing(t)' /\ ~Cleaning(t)' /\ ~Fencing(t)' /\ at'[t].pc # "idle users"
      /\ FlowAt(t)'
  BY <1>a
  DEF Writing, Cleaning, Fencing, Asserts, FencePcs, FencingPcs, LockedPcs, FlowAt
<1>3. \A u \in TasksOf(a) : ~Fencing(u)' /\ ~Writing(u)' /\ at'[u].pc # "idle users"
  BY <1>1, <1>2
<1>4. Placed(t)'
  BY <1>0, <1>2, <1>d DEF Placed, Writer
<1>5. Phases(a)'
  <2>1. InPhase(t)
    BY <1>0, <1>a, <1>d DEF InPhase
  <2> QED BY <2>1, <1>a, PhasesKept
<1>6. Aborted(a) => Aborted(a)'
  BY <1>1, <1>d DEF Aborted
<1>7. Controlled(a)'
  BY <1>c DEF Controlled
<1>8. Shared(a)'
  BY <1>3, <1>c DEF Shared
<1>9. Drained(a)'
  BY <1>3, <1>c, NobodyLeft
<1>10. Cleaned(a)'
  BY <1>2, <1>d DEF Cleaned
<1>11. AgentHolds(a)'
  <2>1. at[Agent(a)].pc # "lock turn"
    BY <1>a DEF LockInv, AgentHolds
  <2> QED BY <2>1, <1>1, <1>6, <1>c, <1>d DEF AgentHolds
<1>12. Freed(a)'
  BY <1>e DEF Freed
<1>13. GaveUp(a)'
  <2>1. ~Handed(a, Flow(a))'
    BY <1>3 DEF Handed
  <2> QED BY <2>1, <1>c DEF GaveUp
<1> QED BY <1>1, <1>4, <1>5, <1>7, <1>8, <1>9, <1>10, <1>11, <1>12, <1>13 DEF LockInv

\* A release goes on to set the fence.
TakesToFence(t) ==
    LET a == t[1]
    IN  /\ at[t].pc = "idle users" /\ ctl[a].users = {}
        /\ at[t].then \notin {"flush", "over"} /\ ctl[a].held # None
        /\ Moves(t, "set fence", at[t].then, ctl[a].held)
        /\ Controls(a, None, {}, ctl[a].drain, ctl[a].takeover)
        /\ UNCHANGED lock

LEMMA TakesToFenceKeeps ==
    ASSUME NEW a \in Attempts, NEW t \in TasksOf(a), LockInv(a), TakesToFence(t)
    PROVE  LockInv(a)'
<1> USE OwnTasks DEF Same
<1>0. t[1] = a
  OBVIOUS
<1>a. /\ at[t].pc = "idle users" /\ ctl[a].users = {} /\ ctl[a].held # None
      /\ at[t].then \notin {"flush", "over"}
      /\ \A u \in TasksOf(a) : u # t => at'[u] = at[u]
      /\ at'[t].pc = "set fence" /\ at'[t].then = at[t].then /\ at'[t].key = ctl[a].held
  BY <1>0 DEF TakesToFence, Moves
<1>d. /\ at[t].pc \in DrainPcs /\ ~Resting(t)
      /\ t = Flow(a) \/ t = Agent(a) \/ t = AbortOf(a)
      /\ t = Flow(a) => at[t].then = "results"
      /\ t = Agent(a) => at[t].then = "stream"
      /\ t = AbortOf(a) => at[t].then = "done"
  BY <1>a, Drainers DEF DrainPcs
<1>1. /\ ctl[a].drain = t
      /\ \A u \in TasksOf(a) : u # t => Same(u) /\ at[u].pc # "idle users"
      /\ \A u \in TasksOf(a) : ~Fencing(u) /\ ~Writing(u) /\ ~Cleaning(u)
      /\ Asserts(Agent(a), "turn") => Aborted(a)
  <2> HIDE DEF Same
  <2> QED BY ZenonT(40), <1>a, Takers
<1>c. /\ ctl'[a].held = None /\ ctl'[a].users = {} /\ ctl'[a].drain = t
      /\ ctl'[a].takeover = ctl[a].takeover /\ lock' = lock
  BY <1>0, <1>1 DEF TakesToFence, Controls
<1>2. ~Writing(t)' /\ ~Cleaning(t)' /\ Fencing(t)' /\ at'[t].pc \in DrainPcs /\ ~Asserts(t, "turn")'
  BY <1>a
  DEF Writing, Cleaning, Fencing, Asserts, FencePcs, FencingPcs, LockedPcs, DrainPcs
<1>3. /\ \A u \in TasksOf(a) : ~Writing(u)' /\ ~Cleaning(u)' /\ at'[u].pc # "idle users"
      /\ \A u \in TasksOf(a) : Fencing(u)' <=> u = t
  BY ZenonT(40), <1>1, <1>2, <1>a
<1>4. Placed(t)'
  <2>1. t = Flow(a) => FlowAt(t)'
    BY <1>2, <1>a, <1>d DEF FlowAt
  <2>2. t = Agent(a) => AgentAt(t)'
    BY <1>2, <1>a, <1>d DEF AgentAt
  <2>3. t = AbortOf(a) => AbortAt(t)'
    BY <1>2, <1>a, <1>d DEF AbortAt
  <2> QED BY <2>1, <2>2, <2>3, <1>0, <1>d DEF Placed, Writer
<1>5. Phases(a)'
  <2>1. InPhase(t)
    BY <1>0, <1>a, <1>d DEF InPhase
  <2> QED BY <2>1, <1>a, PhasesKept
<1>6. Aborted(a) => Aborted(a)'
  BY <1>1, <1>a DEF Aborted
<1>7. Controlled(a)'
  BY <1>c DEF Controlled
<1>8. Shared(a)'
  BY <1>3, <1>c DEF Shared
<1>9. Drained(a)'
  <2>1. InHand(a, at[t].key)'
    BY <1>a, <1>c DEF LockInv, Controlled, InHand
  <2> QED BY <2>1, <1>3, <1>a, <1>c DEF Drained
<1>10. Cleaned(a)'
  BY <1>3 DEF Cleaned
<1>11. AgentHolds(a)'
  <2>1. at'[Agent(a)].pc # "lock turn"
    BY <1>1, <1>a DEF LockInv, AgentHolds
  <2> QED BY <2>1, <1>1, <1>2, <1>6, <1>c DEF AgentHolds
<1>12. Freed(a)'
  <2>1. PICK k : k = ctl[a].held
    OBVIOUS
  <2>2. Handed(a, k)'
    BY <2>1, <1>2, <1>a DEF Handed
  <2> QED BY ZenonT(60), <2>1, <2>2, <1>a, <1>c DEF LockInv, Controlled, Freed
<1>13. GaveUp(a)'
  <2>1. CASE t = Flow(a)
    BY <2>1, <1>a DEF GaveUp
  <2>2. CASE t # Flow(a)
    <3>1. at[Flow(a)].pc = "over" => ctl[a].held # Flow(a) /\ (Aborted(a) \/ ctl[a].held = None)
      BY DEF LockInv, GaveUp
    <3>2. at[Flow(a)].pc = "over" => ~Handed(a, Flow(a))'
      BY <3>1, <1>3, <1>a DEF Handed
    <3> QED BY <2>2, <3>1, <3>2, <1>1, <1>6, <1>a, <1>c DEF GaveUp
  <2> QED BY <2>1, <2>2
<1> QED BY <1>1, <1>4, <1>5, <1>7, <1>8, <1>9, <1>10, <1>11, <1>12, <1>13 DEF LockInv

\* There is no lock to take any more.
TakesNothing(t) ==
    LET a == t[1]
    IN  /\ at[t].pc = "idle users" /\ ctl[a].users = {} /\ ctl[a].held = None
        /\ Moves(t, Onward(t), "idle", None)
        /\ Controls(a, None, {}, None, ctl[a].takeover)
        /\ UNCHANGED lock

LEMMA OnwardPlaced ==
    ASSUME NEW a \in Attempts, NEW t \in TasksOf(a), LockInv(a), at[t].pc \in DrainPcs,
           at'[t].pc = Onward(t)
    PROVE  /\ Placed(t)'
           /\ \/ t = Flow(a) /\ at'[t].pc \in {"results", "over", "lock cleanup"}
              \/ t = Agent(a) /\ at'[t].pc = "stream"
              \/ t = AbortOf(a) /\ at'[t].pc = "done"
<1>0. t[1] = a
  BY OwnTasks
<1>1. \/ t = Flow(a) /\ at'[t].pc \in {"results", "over", "lock cleanup"}
      \/ t = Agent(a) /\ at'[t].pc = "stream"
      \/ t = AbortOf(a) /\ at'[t].pc = "done"
  BY Drainers DEF Onward
<1>2. t = Flow(a) => FlowAt(t)'
  BY <1>1, OwnTasks DEF FlowAt
<1>3. t = Agent(a) => AgentAt(t)'
  BY <1>1, OwnTasks DEF AgentAt
<1>4. t = AbortOf(a) => AbortAt(t)'
  BY <1>1, OwnTasks DEF AbortAt, Resting
<1>5. Placed(t)'
  BY <1>0, <1>1, <1>2, <1>3, <1>4 DEF Placed, Writer
<1> QED BY <1>1, <1>5

LEMMA TakesNothingKeeps ==
    ASSUME NEW a \in Attempts, NEW t \in TasksOf(a), LockInv(a), TakesNothing(t)
    PROVE  LockInv(a)'
<1> USE OwnTasks
<1>0. t[1] = a
  OBVIOUS
<1>a. /\ at[t].pc = "idle users" /\ ctl[a].users = {} /\ ctl[a].held = None
      /\ \A u \in TasksOf(a) : u # t => at'[u] = at[u]
      /\ at'[t].pc = Onward(t)
  BY <1>0 DEF TakesNothing, Moves
<1>c. /\ ctl'[a].held = None /\ ctl'[a].users = {} /\ ctl'[a].drain = None
      /\ ctl'[a].takeover = ctl[a].takeover /\ lock' = lock
  BY <1>0 DEF TakesNothing, Controls
<1>d. /\ at[t].pc \in DrainPcs /\ ~Resting(t) /\ ~Writing(t) /\ ~Cleaning(t)
  BY <1>a, Drainers DEF DrainPcs
<1>e. /\ Placed(t)'
      /\ \/ t = Flow(a) /\ at'[t].pc \in {"results", "over", "lock cleanup"}
         \/ t = Agent(a) /\ at'[t].pc = "stream"
         \/ t = AbortOf(a) /\ at'[t].pc = "done"
  BY <1>a, <1>d, OnwardPlaced
<1>1. /\ ctl[a].drain = t
      /\ \A u \in TasksOf(a) : u # t => Same(u) /\ at[u].pc # "idle users"
      /\ \A u \in TasksOf(a) : ~Fencing(u)
      /\ Asserts(Agent(a), "turn") => Aborted(a)
  BY ZenonT(60), <1>a, Takers
<1> USE DEF Same
<1>2. /\ ~Writing(t)' /\ ~Cleaning(t)' /\ ~Fencing(t)' /\ at'[t].pc # "idle users"
      /\ ~Asserts(t, "turn")'
  BY <1>e
  DEF Writing, Cleaning, Fencing, Asserts, FencePcs, FencingPcs, LockedPcs
<1>3. \A u \in TasksOf(a) : ~Fencing(u)' /\ at'[u].pc # "idle users"
  BY <1>1, <1>2
<1>5. Phases(a)'
  <2>1. InPhase(t)
    BY <1>0, <1>a, <1>d, <1>e DEF InPhase
  <2> QED BY <2>1, <1>a, PhasesKept
<1>6. Aborted(a) => Aborted(a)'
  BY <1>1, <1>e DEF Aborted
<1>7. Controlled(a)'
  BY <1>c DEF Controlled
<1>8. Shared(a)'
  <2>1. \A u \in TasksOf(a) : Writing(u)' => at'[u].key = u /\ lock' = u
    <3> SUFFICES ASSUME NEW u \in TasksOf(a), Writing(u)'
                 PROVE  at'[u].key = u /\ lock' = u
      OBVIOUS
    <3>1. u # t /\ Writing(u) /\ u \notin ctl[a].users
      BY <1>1, <1>2, <1>a
    <3>2. at[u].key = u /\ lock = u
      BY <3>1 DEF LockInv, Shared
    <3> QED BY <3>1, <3>2, <1>1, <1>c
  <2>2. \A u \in TasksOf(a) : ~Handed(a, u)'
    BY <1>3 DEF Handed
  <2> QED BY <2>1, <2>2, <1>c DEF Shared
<1>9. Drained(a)'
  BY <1>3, <1>c, NobodyLeft
<1>10. Cleaned(a)'
  <2>1. \A k : InHand(a, k) => InHand(a, k)'
    BY <1>1, <1>6, <1>c, <1>e DEF InHand, Lost
  <2>2. Cleaning(Flow(a))' => t # Flow(a) /\ Cleaning(Flow(a))
    BY <1>1, <1>2
  <2> QED BY <2>1, <2>2, <1>1, <1>3, <1>c DEF LockInv, Cleaned, Unfenced
<1>11. AgentHolds(a)'
  <2>1. at'[Agent(a)].pc = "lock turn" => at[Agent(a)].pc = "lock turn"
    BY <1>1, <1>e
  <2>2. Unfenced(a)'
    BY <1>3 DEF Unfenced
  <2> QED BY <2>1, <2>2, <1>1, <1>2, <1>6, <1>c DEF LockInv, AgentHolds
<1>12. Freed(a)'
  <2>1. ~Handed(a, Flow(a)) /\ ~Handed(a, Agent(a))
    BY <1>1 DEF Handed
  <2>2. /\ lock = Agent(a) => Cleaning(Flow(a)) /\ at[Flow(a)].key = Agent(a)
        /\ lock = Flow(a) => \/ Cleaning(Flow(a)) /\ at[Flow(a)].key = Flow(a)
                            \/ Writing(Flow(a))
    BY <2>1, <1>a DEF LockInv, Freed
  <2> QED BY <2>2, <1>1, <1>d, <1>c DEF Freed
<1>13. GaveUp(a)'
  <2>1. ~Handed(a, Flow(a))'
    BY <1>3 DEF Handed
  <2> QED BY <2>1, <1>c DEF GaveUp
<1> QED BY <1>1, <1>e, <1>5, <1>7, <1>8, <1>9, <1>10, <1>11, <1>12, <1>13 DEF LockInv

\* The fence is set, and the lock freed.
Frees(t) ==
    LET a == t[1]
    IN  /\ at[t].pc = "free"
        /\ Moves(t, at[t].then, "idle", None)
        /\ Controls(a, ctl[a].held, ctl[a].users, None, ctl[a].takeover)
        /\ Unlock(at[t].key)

LEMMA FreesKeeps ==
    ASSUME NEW a \in Attempts, NEW t \in TasksOf(a), LockInv(a), Frees(t)
    PROVE  LockInv(a)'
<1> USE OwnTasks
<1>0. t[1] = a
  OBVIOUS
<1>a. /\ at[t].pc = "free" /\ Fencing(t) /\ at[t].pc \in DrainPcs
      /\ \A u \in TasksOf(a) : u # t => at'[u] = at[u]
      /\ at'[t].pc = at[t].then
  BY <1>0 DEF Frees, Moves, Fencing, FencingPcs, DrainPcs
<1>b. /\ ctl[a].held = None /\ ctl[a].users = {} /\ at[t].key \in {Flow(a), Agent(a)}
      /\ ctl[a].drain = t
  BY <1>a DEF LockInv, Drained, InHand
<1>c. /\ ctl'[a].held = None /\ ctl'[a].users = {} /\ ctl'[a].drain = None
      /\ ctl'[a].takeover = ctl[a].takeover
      /\ lock' = IF lock = at[t].key THEN None ELSE lock
  BY <1>0, <1>b DEF Frees, Controls, Unlock
<1>d. /\ ~Resting(t) /\ ~Writing(t) /\ ~Cleaning(t)
      /\ t = Flow(a) => at[t].then = "results"
  BY <1>a, Drainers
<1>e. /\ Placed(t)'
      /\ \/ t = Flow(a) /\ at'[t].pc = "results"
         \/ t = Agent(a) /\ at'[t].pc = "stream"
         \/ t = AbortOf(a) /\ at'[t].pc = "done"
  <2>1. at'[t].pc = Onward(t)
    BY <1>a, <1>d, Drainers DEF Onward
  <2> QED BY <2>1, <1>a, <1>d, OnwardPlaced
<1>1. \A u \in TasksOf(a) : u # t => Same(u) /\ at[u].pc # "idle users" /\ ~Fencing(u)
  BY <1>a, OneDrains, OtherTasks
<1> USE DEF Same
<1>2. /\ ~Writing(t)' /\ ~Cleaning(t)' /\ ~Fencing(t)' /\ at'[t].pc # "idle users"
      /\ ~Asserts(t, "turn")'
  BY <1>e
  DEF Writing, Cleaning, Fencing, Asserts, FencePcs, FencingPcs, LockedPcs
<1>3. \A u \in TasksOf(a) : ~Fencing(u)' /\ at'[u].pc # "idle users"
  BY <1>1, <1>2
<1>5. Phases(a)'
  <2>1. InPhase(t)
    BY <1>0, <1>a, <1>d, <1>e DEF InPhase
  <2> QED BY <2>1, <1>a, PhasesKept
<1>6. Aborted(a) => Aborted(a)'
  BY <1>1, <1>e DEF Aborted
<1>7. Controlled(a)'
  BY <1>c DEF Controlled
<1>8. Shared(a)'
  <2>1. \A u \in TasksOf(a) : Writing(u)' => at'[u].key = u /\ lock' = u
    <3>1. \A u \in TasksOf(a) : Writing(u)' => at'[u].key = u /\ lock = u /\ ~Handed(a, u)
      BY <1>1, <1>2, <1>b DEF LockInv, Shared
    <3>2. Handed(a, at[t].key)
      BY <1>a DEF Handed
    <3> QED BY <3>1, <3>2, <1>c
  <2>2. \A u \in TasksOf(a) : ~Handed(a, u)'
    BY <1>3 DEF Handed
  <2> QED BY <2>1, <2>2, <1>c DEF Shared
<1>9. Drained(a)'
  BY <1>3, <1>c, NobodyLeft
<1>10. Cleaned(a)'
  <2>1. ~Cleaning(Flow(a))
    BY <1>a DEF LockInv, Cleaned, Unfenced
  <2> QED BY <2>1, <1>1, <1>2 DEF Cleaned
<1>11. AgentHolds(a)'
  <2>1. at'[Agent(a)].pc # "lock turn"
    BY <1>1, <1>a, <1>e DEF LockInv, AgentHolds, Unfenced
  <2>2. Asserts(Agent(a), "turn")' => Aborted(a)
    BY <1>1, <1>2, <1>b DEF LockInv, AgentHolds
  <2> QED BY <2>1, <2>2, <1>6, <1>c DEF AgentHolds
<1>12. Freed(a)'
  <2>1. ~Cleaning(Flow(a)) /\ \A k : Handed(a, k) => k = at[t].key
    BY <1>1, <1>a DEF LockInv, Cleaned, Handed, Unfenced
  <2>2. /\ lock = Agent(a) => at[t].key = Agent(a)
        /\ lock = Flow(a) => at[t].key = Flow(a) \/ Writing(Flow(a))
    BY <2>1, <1>b DEF LockInv, Freed
  <2> QED BY <2>2, <1>1, <1>d, <1>c DEF Freed
<1>13. GaveUp(a)'
  <2>1. ~Handed(a, Flow(a))'
    BY <1>3 DEF Handed
  <2> QED BY <2>1, <1>c DEF GaveUp
<1> QED BY <1>1, <1>e, <1>5, <1>7, <1>8, <1>9, <1>10, <1>11, <1>12, <1>13 DEF LockInv

\* A write shares the lock of the controller.
Shares(t) ==
    LET a == t[1]
    IN  /\ at[t].pc = "write" /\ ctl[a].drain = None /\ ctl[a].held # None
        /\ \E p \in {"assert", "stat"} : Moves(t, p, "stat", ctl[a].held)
        /\ Controls(a, ctl[a].held, ctl[a].users \cup {t}, None, ctl[a].takeover)
        /\ UNCHANGED lock

\* Whoever is about to write is the flow or a writer.
LEMMA Preparing ==
    ASSUME NEW a \in Attempts, NEW t \in TasksOf(a), LockInv(a),
           at[t].pc \in {"write", "lock write"}
    PROVE  /\ t = Flow(a) \/ Writer(t)
           /\ t # Agent(a) /\ t # AbortOf(a)
           /\ ~Writing(t) /\ ~Cleaning(t) /\ ~Fencing(t) /\ ~Resting(t) /\ t \notin ctl[a].users
<1>0. t[1] = a /\ Placed(t)
  BY OwnTasks DEF LockInv
<1>1. ~Writing(t) /\ ~Cleaning(t) /\ ~Fencing(t) /\ ~Resting(t)
  BY DEF Writing, Cleaning, Fencing, Resting, Asserts, FencePcs, FencingPcs, LockedPcs
<1>2. t # Agent(a)
  BY <1>0 DEF Placed, AgentAt, Asserts, FencePcs, FencingPcs, DrainPcs
<1>3. t # AbortOf(a)
  BY <1>0 DEF Placed, AbortAt, Resting, FencingPcs, DrainPcs
<1>4. t \notin ctl[a].users
  BY <1>1 DEF LockInv, Shared
<1> QED BY <1>0, <1>1, <1>2, <1>3, <1>4 DEF Writer

LEMMA SharesKeeps ==
    ASSUME NEW a \in Attempts, NEW t \in TasksOf(a), LockInv(a), Shares(t)
    PROVE  LockInv(a)'
<1> USE OwnTasks
<1>0. t[1] = a
  OBVIOUS
<1>a. /\ at[t].pc = "write" /\ ctl[a].drain = None /\ ctl[a].held # None
      /\ \A u \in TasksOf(a) : u # t => at'[u] = at[u]
      /\ at'[t].pc \in {"assert", "stat"} /\ at'[t].then = "stat" /\ at'[t].key = ctl[a].held
  BY <1>0 DEF Shares, Moves
<1>c. /\ ctl'[a].held = ctl[a].held /\ ctl'[a].users = ctl[a].users \cup {t}
      /\ ctl'[a].drain = None /\ ctl'[a].takeover = ctl[a].takeover /\ lock' = lock
  BY <1>0 DEF Shares, Controls
<1>d. /\ t = Flow(a) \/ Writer(t)
      /\ t # Agent(a) /\ t # AbortOf(a)
      /\ ~Writing(t) /\ ~Cleaning(t) /\ ~Fencing(t) /\ ~Resting(t)
  BY <1>a, Preparing
<1>1. \A u \in TasksOf(a) : u # t => Same(u)
  BY <1>a, OtherTasks
<1> USE DEF Same
<1>2. /\ Writing(t)' /\ ~Cleaning(t)' /\ ~Fencing(t)' /\ at'[t].pc # "idle users"
      /\ Asserts(t, "stat")' \/ at'[t].pc = "stat"
  BY <1>a
  DEF Writing, Cleaning, Fencing, Asserts, FencePcs, FencingPcs, LockedPcs
<1>3. \A u \in TasksOf(a) : ~Fencing(u)' /\ at'[u].pc # "idle users"
  BY ZenonT(60), <1>1, <1>2, <1>a, NobodyDrains
<1>4. Placed(t)'
  <2>1. t = Flow(a) => FlowAt(t)'
    BY <1>2 DEF FlowAt, LockedPcs
  <2>2. t # Flow(a) => WriterAt(t)'
    BY <1>2 DEF WriterAt, LockedPcs
  <2> QED BY <2>1, <2>2, <1>0, <1>d DEF Placed, Writer
<1>5. Phases(a)'
  <2>1. InPhase(t)
    BY <1>0, <1>a, <1>d DEF InPhase
  <2> QED BY <2>1, <1>a, PhasesKept
<1>6. Aborted(a) <=> Aborted(a)'
  BY <1>1, <1>d DEF Aborted
<1>7. Controlled(a)'
  BY <1>c DEF LockInv, Controlled
<1>8. Shared(a)'
  <2>1. \A u \in TasksOf(a) : u # t /\ Writing(u)' => u \in ctl[a].users
    BY <1>1, <1>a DEF LockInv, Shared
  <2>2. \A u \in TasksOf(a) : u # t /\ u \in ctl'[a].users =>
            /\ Writing(u)'
            /\ \/ ctl'[a].held # None /\ at'[u].key = ctl'[a].held
               \/ u = Flow(a) /\ Aborted(a)'
    BY <1>1, <1>6, <1>c DEF LockInv, Shared
  <2> QED BY <2>1, <2>2, <1>2, <1>a, <1>c DEF Shared
<1>9. Drained(a)'
  BY <1>3, <1>c, NobodyLeft
<1>10. Cleaned(a)'
  <2>1. ~Cleaning(Flow(a))
    BY <1>a DEF LockInv, Cleaned
  <2> QED BY <2>1, <1>1, <1>2 DEF Cleaned
<1>11. AgentHolds(a)'
  BY <1>1, <1>3, <1>6, <1>c, <1>d DEF LockInv, AgentHolds, Unfenced
<1>12. Freed(a)'
  <2>1. ~Cleaning(Flow(a)) /\ ~Handed(a, Flow(a)) /\ ~Handed(a, Agent(a))
    BY <1>a, NobodyDrains DEF LockInv, Cleaned, Handed
  <2>2. ctl[a].held = lock
    BY <1>a DEF LockInv, Controlled
  <2> QED BY <2>2, <1>c DEF Freed
<1>13. GaveUp(a)'
  <2>1. ~Handed(a, Flow(a))'
    BY <1>3 DEF Handed
  <2>2. at'[Flow(a)].pc \in {"drained", "over"} => t # Flow(a) /\ at[Flow(a)].pc = at'[Flow(a)].pc
    BY <1>1, <1>a
  <2> QED BY <2>1, <2>2, <1>6, <1>c DEF LockInv, GaveUp
<1> QED BY <1>1, <1>4, <1>5, <1>7, <1>8, <1>9, <1>10, <1>11, <1>12, <1>13 DEF LockInv

\* What nobody of the attempt does while nobody holds the lock.
LEMMA Lockless ==
    ASSUME NEW a \in Attempts, LockInv(a), lock = None
    PROVE  /\ ctl[a].held = None
           /\ \A u \in TasksOf(a) : Writing(u) => u \in ctl[a].users /\ u = Flow(a) /\ Aborted(a)
           /\ \A u \in TasksOf(a) : Fencing(u) => at[u].key = Agent(a) /\ Lost(a)
           /\ Cleaning(Flow(a)) => at[Flow(a)].key = Agent(a) /\ Lost(a)
           /\ ~Handed(a, Flow(a))
<1> USE OwnTasks
<1>1. ctl[a].held = None
  BY DEF LockInv, Controlled
<1>2. \A u \in TasksOf(a) : Writing(u) => u \in ctl[a].users /\ u = Flow(a) /\ Aborted(a)
  BY <1>1 DEF LockInv, Shared
<1>3. \A u \in TasksOf(a) : Fencing(u) => at[u].key = Agent(a) /\ Lost(a)
  BY ZenonT(40) DEF LockInv, Drained, InHand
<1>4. Cleaning(Flow(a)) => at[Flow(a)].key = Agent(a) /\ Lost(a)
  BY DEF LockInv, Cleaned, InHand
<1>5. ~Handed(a, Flow(a))
  BY <1>3 DEF Handed
<1> QED BY <1>1, <1>2, <1>3, <1>4, <1>5

\* A write takes a lock of its own.
LocksForWrite(t) ==
    LET a == t[1]
    IN  /\ at[t].pc = "lock write" /\ lock = None
        /\ \E p \in {"assert", "stat"} : Moves(t, p, "stat", t)
        /\ Kept(a)
        /\ lock' = t

LEMMA LocksForWriteKeeps ==
    ASSUME NEW a \in Attempts, NEW t \in TasksOf(a), LockInv(a), LocksForWrite(t)
    PROVE  LockInv(a)'
<1> USE OwnTasks
<1>0. t[1] = a
  OBVIOUS
<1>a. /\ at[t].pc = "lock write" /\ lock = None
      /\ \A u \in TasksOf(a) : u # t => at'[u] = at[u]
      /\ at'[t].pc \in {"assert", "stat"} /\ at'[t].then = "stat" /\ at'[t].key = t
  BY <1>0 DEF LocksForWrite, Moves
<1>b. /\ ctl[a].held = None
      /\ \A u \in TasksOf(a) : Writing(u) => u \in ctl[a].users /\ u = Flow(a) /\ Aborted(a)
      /\ \A u \in TasksOf(a) : Fencing(u) => at[u].key = Agent(a) /\ Lost(a)
      /\ Cleaning(Flow(a)) => at[Flow(a)].key = Agent(a) /\ Lost(a)
  BY <1>a, Lockless
<1>c. /\ ctl'[a].held = None /\ ctl'[a].users = ctl[a].users
      /\ ctl'[a].drain = ctl[a].drain /\ ctl'[a].takeover = ctl[a].takeover /\ lock' = t
  BY <1>0, <1>b DEF LocksForWrite, Kept, Controls
<1>d. /\ t = Flow(a) \/ Writer(t)
      /\ t # Agent(a) /\ t # AbortOf(a)
      /\ ~Writing(t) /\ ~Cleaning(t) /\ ~Fencing(t) /\ ~Resting(t) /\ t \notin ctl[a].users
  BY <1>a, Preparing
<1>1. \A u \in TasksOf(a) : u # t => Same(u)
  BY <1>a, OtherTasks
<1> USE DEF Same
<1>2. /\ Writing(t)' /\ ~Cleaning(t)' /\ ~Fencing(t)' /\ at'[t].pc # "idle users"
      /\ Asserts(t, "stat")' \/ at'[t].pc = "stat"
  BY <1>a
  DEF Writing, Cleaning, Fencing, Asserts, FencePcs, FencingPcs, LockedPcs
<1>4. Placed(t)'
  <2>1. t = Flow(a) => FlowAt(t)'
    BY <1>2 DEF FlowAt, LockedPcs
  <2>2. t # Flow(a) => WriterAt(t)'
    BY <1>2 DEF WriterAt, LockedPcs
  <2> QED BY <2>1, <2>2, <1>0, <1>d DEF Placed, Writer
<1>5. Phases(a)'
  <2>1. InPhase(t)
    BY <1>0, <1>a, <1>d DEF InPhase
  <2> QED BY <2>1, <1>a, PhasesKept
<1>6. (Aborted(a) <=> Aborted(a)') /\ (Lost(a) <=> Lost(a)')
  BY <1>1, <1>c, <1>d DEF Aborted, Lost
<1>7. Controlled(a)'
  BY <1>c DEF LockInv, Controlled
<1>8. Shared(a)'
  <2>1. \A u \in TasksOf(a) : u \in ctl'[a].users => Writing(u)' /\ u = Flow(a) /\ Aborted(a)'
    BY <1>1, <1>b, <1>c, <1>d, <1>6 DEF LockInv, Shared
  <2>2. ~Handed(a, t)'
    BY <1>1, <1>2, <1>b, <1>d DEF Handed
  <2>3. \A u \in TasksOf(a) : Writing(u)' /\ u \notin ctl'[a].users => u = t
    BY <1>1, <1>b, <1>c
  <2> QED BY <2>1, <2>2, <2>3, <1>a, <1>c DEF Shared
<1>9. Drained(a)'
  <2>1. \A u \in TasksOf(a) : ctl'[a].drain = u <=> at'[u].pc = "idle users" \/ Fencing(u)'
    BY ZenonT(40), <1>1, <1>2, <1>a, <1>c, <1>d DEF LockInv, Drained
  <2>2. \A u \in TasksOf(a) : Fencing(u)' =>
            ctl'[a].held = None /\ ctl'[a].users = {} /\ InHand(a, at[u].key)'
    BY <1>1, <1>2, <1>6, <1>b, <1>c DEF LockInv, Drained, InHand
  <2> QED BY <2>1, <2>2 DEF Drained
<1>10. Cleaned(a)'
  BY <1>1, <1>2, <1>6, <1>b, <1>c, <1>d DEF LockInv, Cleaned, InHand, Unfenced
<1>11. AgentHolds(a)'
  BY <1>1, <1>2, <1>6, <1>b, <1>c, <1>d DEF LockInv, AgentHolds, Unfenced
<1>12. Freed(a)'
  BY <1>2, <1>c, <1>d DEF Freed
<1>13. GaveUp(a)'
  <2>1. ~Handed(a, Flow(a))'
    <3>1. \A u \in TasksOf(a) : Fencing(u)' => Fencing(u) /\ at'[u].key = at[u].key
      BY <1>1, <1>2
    <3>2. \A u \in TasksOf(a) : Fencing(u)' => at'[u].key = Agent(a)
      BY <3>1, <1>b
    <3> QED BY <3>2 DEF Handed
  <2>2. at'[Flow(a)].pc \in {"drained", "over"} => t # Flow(a) /\ at[Flow(a)].pc = at'[Flow(a)].pc
    BY <1>1, <1>a
  <2> QED BY <2>1, <2>2, <1>6, <1>c DEF LockInv, GaveUp
<1> QED BY <1>1, <1>4, <1>5, <1>7, <1>8, <1>9, <1>10, <1>11, <1>12, <1>13 DEF LockInv

\* The controller begins with the lock.
Creates(t) ==
    LET a == t[1]
    IN  /\ t = Flow(a) /\ at[t].pc = "create" /\ lock = None
        /\ Moves(t, "prepare", "idle", None)
        /\ Controls(a, t, ctl[a].users, ctl[a].drain, ctl[a].takeover)
        /\ lock' = t

LEMMA CreatesKeeps ==
    ASSUME NEW a \in Attempts, NEW t \in TasksOf(a), LockInv(a), Creates(t)
    PROVE  LockInv(a)'
<1> USE OwnTasks
<1>0. t[1] = a
  OBVIOUS
<1>a. /\ t = Flow(a) /\ at[t].pc = "create" /\ lock = None
      /\ \A u \in TasksOf(a) : u # t => at'[u] = at[u]
      /\ at'[t].pc = "prepare"
  BY <1>0 DEF Creates, Moves
<1>b. /\ at[Agent(a)].pc = "idle" /\ at[AbortOf(a)].pc = "idle"
      /\ ctl[a].users = {} /\ ctl[a].drain = None
  BY <1>a DEF LockInv, Phases, Aborted
<1>c. /\ ctl'[a].held = Flow(a) /\ ctl'[a].users = {}
      /\ ctl'[a].drain = None /\ ctl'[a].takeover = ctl[a].takeover /\ lock' = Flow(a)
  BY <1>0, <1>a, <1>b DEF Creates, Controls
<1>1. \A u \in TasksOf(a) : u # t => Same(u)
  BY <1>a, OtherTasks
<1> USE DEF Same
<1>2. ~Writing(t)' /\ ~Cleaning(t)' /\ ~Fencing(t)' /\ at'[t].pc # "idle users" /\ FlowAt(t)'
  BY <1>a
  DEF Writing, Cleaning, Fencing, Asserts, FencePcs, FencingPcs, LockedPcs, FlowAt
<1>3. \A u \in TasksOf(a) : ~Fencing(u)' /\ at'[u].pc # "idle users" /\ ~Writing(u)'
  BY <1>1, <1>2, <1>a, <1>b, NobodyDrains, Lockless
<1>4. Placed(t)'
  BY <1>0, <1>2, <1>a DEF Placed, Writer
<1>5. Phases(a)'
  <2>1. InPhase(t)
    BY <1>0, <1>a DEF InPhase
  <2> QED BY <2>1, <1>a, PhasesKept
<1>7. Controlled(a)'
  BY <1>c DEF Controlled
<1>8. Shared(a)'
  BY <1>3, <1>c DEF Shared
<1>9. Drained(a)'
  BY <1>3, <1>c, NobodyLeft
<1>10. Cleaned(a)'
  BY <1>2, <1>a DEF Cleaned
<1>11. AgentHolds(a)'
  <2>1. at'[Agent(a)].pc = "idle"
    BY <1>1, <1>a, <1>b
  <2> QED BY <2>1 DEF AgentHolds, Asserts, FencePcs
<1>12. Freed(a)'
  BY <1>c DEF Freed
<1>13. GaveUp(a)'
  BY <1>a DEF GaveUp
<1> QED BY <1>1, <1>4, <1>5, <1>7, <1>8, <1>9, <1>10, <1>11, <1>12, <1>13 DEF LockInv

\* The agent has the lock again.
LocksForTurn(t) ==
    LET a == t[1]
    IN  /\ t = Agent(a) /\ at[t].pc = "lock turn" /\ lock = None
        /\ \E p \in {"assert", "turn"} : Moves(t, p, "turn", t)
        /\ Controls(a, t, ctl[a].users, ctl[a].drain, ctl[a].takeover)
        /\ lock' = t

LEMMA LocksForTurnKeeps ==
    ASSUME NEW a \in Attempts, NEW t \in TasksOf(a), LockInv(a), LocksForTurn(t)
    PROVE  LockInv(a)'
<1> USE OwnTasks
<1>0. t[1] = a
  OBVIOUS
<1>a. /\ t = Agent(a) /\ at[t].pc = "lock turn" /\ lock = None
      /\ \A u \in TasksOf(a) : u # t => at'[u] = at[u]
      /\ at'[t].pc \in {"assert", "turn"} /\ at'[t].then = "turn"
  BY <1>0 DEF LocksForTurn, Moves
<1>b. /\ ctl[a].held = None /\ Unfenced(a) /\ ~Lost(a)
      /\ \A u \in TasksOf(a) : Writing(u) => u \in ctl[a].users /\ u = Flow(a) /\ Aborted(a)
      /\ ~Cleaning(Flow(a)) /\ ~Resting(t)
  BY <1>a, Lockless DEF LockInv, AgentHolds, Lost, Resting
<1>c. /\ ctl'[a].held = Agent(a) /\ ctl'[a].users = ctl[a].users
      /\ ctl'[a].drain = ctl[a].drain /\ ctl'[a].takeover = ctl[a].takeover /\ lock' = Agent(a)
  BY <1>0, <1>a, <1>b DEF LocksForTurn, Controls
<1>1. \A u \in TasksOf(a) : u # t => Same(u)
  BY <1>a, OtherTasks
<1> USE DEF Same
<1>2. /\ ~Writing(t)' /\ ~Cleaning(t)' /\ ~Fencing(t)' /\ at'[t].pc # "idle users"
      /\ AgentAt(t)' /\ ~Writing(t)
  BY <1>a
  DEF Writing, Cleaning, Fencing, Asserts, FencePcs, FencingPcs, LockedPcs, AgentAt
<1>3. \A u \in TasksOf(a) : ~Fencing(u) /\ ~Fencing(u)'
  BY <1>1, <1>2, <1>b DEF Unfenced
<1>4. Placed(t)'
  BY <1>0, <1>2, <1>a DEF Placed, Writer
<1>5. Phases(a)'
  <2>1. InPhase(t)
    BY <1>0, <1>a, <1>b DEF InPhase
  <2> QED BY <2>1, <1>a, PhasesKept
<1>6. Aborted(a) <=> Aborted(a)'
  BY <1>1, <1>a DEF Aborted
<1>7. Controlled(a)'
  BY <1>c DEF LockInv, Controlled
<1>8. Shared(a)'
  <2>1. \A u \in TasksOf(a) : u \in ctl'[a].users => Writing(u)' /\ u = Flow(a) /\ Aborted(a)'
    BY ZenonT(40), <1>1, <1>2, <1>b, <1>c, <1>6 DEF LockInv, Shared
  <2>2. \A u \in TasksOf(a) : Writing(u)' => u \in ctl'[a].users
    BY <1>1, <1>2, <1>b, <1>c
  <2> QED BY <2>1, <2>2 DEF Shared
<1>9. Drained(a)'
  <2>1. \A u \in TasksOf(a) : at'[u].pc = "idle users" <=> at[u].pc = "idle users"
    BY <1>1, <1>2, <1>a
  <2> QED BY <2>1, <1>3, <1>c DEF LockInv, Drained
<1>10. Cleaned(a)'
  BY <1>1, <1>a, <1>b DEF Cleaned
<1>11. AgentHolds(a)'
  BY <1>a, <1>c DEF AgentHolds
<1>12. Freed(a)'
  BY <1>c DEF Freed
<1>13. GaveUp(a)'
  <2>1. ~Handed(a, Flow(a))'
    BY <1>3 DEF Handed
  <2>2. at'[Flow(a)].pc \in {"drained", "over"} => Aborted(a)
    BY <1>1, <1>a, <1>b DEF LockInv, Phases
  <2> QED BY <2>1, <2>2, <1>6, <1>c DEF GaveUp
<1> QED BY <1>1, <1>4, <1>5, <1>7, <1>8, <1>9, <1>10, <1>11, <1>12, <1>13 DEF LockInv

\* The cleanup takes the lock.
LocksForCleanup(t) ==
    LET a == t[1]
    IN  /\ t = Flow(a) /\ at[t].pc = "lock cleanup" /\ lock = None /\ ctl[a].drain = None
        /\ \E p \in {"assert", "flush"} : Moves(t, p, "flush", t)
        /\ Kept(a)
        /\ lock' = t

LEMMA LocksForCleanupKeeps ==
    ASSUME NEW a \in Attempts, NEW t \in TasksOf(a), LockInv(a), LocksForCleanup(t)
    PROVE  LockInv(a)'
<1> USE OwnTasks
<1>0. t[1] = a
  OBVIOUS
<1>a. /\ t = Flow(a) /\ at[t].pc = "lock cleanup" /\ lock = None /\ ctl[a].drain = None
      /\ \A u \in TasksOf(a) : u # t => at'[u] = at[u]
      /\ at'[t].pc \in {"assert", "flush"} /\ at'[t].then = "flush" /\ at'[t].key = t
  BY <1>0 DEF LocksForCleanup, Moves
<1>b. /\ ctl[a].held = None
      /\ \A u \in TasksOf(a) : Writing(u) => u \in ctl[a].users /\ u = Flow(a)
  BY ZenonT(40), <1>a, Lockless
<1>c. /\ ctl'[a].held = None /\ ctl'[a].users = ctl[a].users
      /\ ctl'[a].drain = None /\ ctl'[a].takeover = ctl[a].takeover /\ lock' = Flow(a)
  BY <1>0, <1>a, <1>b DEF LocksForCleanup, Kept, Controls
<1>1. \A u \in TasksOf(a) : u # t => Same(u)
  BY <1>a, OtherTasks
<1> USE DEF Same
<1>2. /\ ~Writing(t)' /\ Cleaning(t)' /\ ~Fencing(t)' /\ at'[t].pc # "idle users"
      /\ FlowAt(t)' /\ ~Writing(t) /\ ~Resting(t)
  BY <1>a
  DEF Writing, Cleaning, Fencing, Asserts, FencePcs, FencingPcs, LockedPcs, FlowAt, Resting
<1>3. \A u \in TasksOf(a) : ~Fencing(u)' /\ at'[u].pc # "idle users" /\ ~Writing(u)' /\ ~Writing(u)
  BY <1>1, <1>2, <1>a, <1>b, NobodyDrains
<1>4. Placed(t)'
  BY <1>0, <1>2, <1>a DEF Placed, Writer
<1>5. Phases(a)'
  <2>1. InPhase(t)
    BY <1>0, <1>a, <1>2 DEF InPhase
  <2> QED BY <2>1, <1>a, PhasesKept
<1>6. Aborted(a) <=> Aborted(a)'
  BY <1>1, <1>a DEF Aborted
<1>7. Controlled(a)'
  BY <1>c DEF LockInv, Controlled
<1>8. Shared(a)'
  <2>1. \A u \in TasksOf(a) : u \notin ctl'[a].users
    BY <1>3, <1>c DEF LockInv, Shared
  <2> QED BY <2>1, <1>3 DEF Shared
<1>9. Drained(a)'
  BY <1>3, <1>c, NobodyLeft
<1>10. Cleaned(a)'
  BY <1>3, <1>a, <1>c DEF Cleaned, InHand, Unfenced
<1>11. AgentHolds(a)'
  BY <1>1, <1>6, <1>a, <1>b, <1>c, <1>3 DEF LockInv, AgentHolds, Unfenced
<1>12. Freed(a)'
  BY <1>2, <1>a, <1>c DEF Freed
<1>13. GaveUp(a)'
  BY <1>a DEF GaveUp
<1> QED BY <1>1, <1>4, <1>5, <1>7, <1>8, <1>9, <1>10, <1>11, <1>12, <1>13 DEF LockInv

\* The assertion throws at the agent: the lock is given up.
FailsTurn(t) ==
    LET a == t[1]
    IN  /\ Asserts(t, "turn")
        /\ Moves(t, "turn", "idle", None)
        /\ Controls(a, None, ctl[a].users, ctl[a].drain, TRUE)
        /\ Unlock(t)

LEMMA FailsTurnKeeps ==
    ASSUME NEW a \in Attempts, NEW t \in TasksOf(a), LockInv(a), FailsTurn(t)
    PROVE  LockInv(a)'
<1> USE OwnTasks
<1>0. t[1] = a
  OBVIOUS
<1>a. /\ Asserts(t, "turn") /\ t = Agent(a)
      /\ \A u \in TasksOf(a) : u # t => at'[u] = at[u]
      /\ at'[t].pc = "turn"
  BY <1>0, Workers DEF FailsTurn, Moves
<1>b. /\ ctl[a].held = Agent(a) \/ (ctl[a].held = None /\ Aborted(a))
      /\ ~Writing(t) /\ ~Cleaning(t) /\ ~Fencing(t) /\ ~Resting(t)
      /\ at[t].pc \notin {"turn", "stream", "idle users"}
  BY <1>a, Exclusive DEF LockInv, AgentHolds, Asserts, FencePcs, Resting
<1>c. /\ ctl'[a].held = None /\ ctl'[a].users = ctl[a].users
      /\ ctl'[a].drain = ctl[a].drain /\ ctl'[a].takeover
      /\ lock' = IF lock = Agent(a) THEN None ELSE lock
  BY <1>0, <1>a DEF FailsTurn, Controls, Unlock
<1>1. \A u \in TasksOf(a) : u # t => Same(u)
  BY <1>a, OtherTasks
<1> USE DEF Same
<1>2. /\ ~Writing(t)' /\ ~Cleaning(t)' /\ ~Fencing(t)' /\ at'[t].pc # "idle users"
      /\ AgentAt(t)' /\ ~Asserts(t, "turn")'
  BY <1>a
  DEF Writing, Cleaning, Fencing, Asserts, FencePcs, FencingPcs, LockedPcs, AgentAt
<1>4. Placed(t)'
  BY <1>0, <1>2, <1>a DEF Placed, Writer
<1>5. Phases(a)'
  <2>1. InPhase(t)
    BY <1>0, <1>a, <1>b DEF InPhase
  <2> QED BY <2>1, <1>a, PhasesKept
<1>6. (Aborted(a) <=> Aborted(a)') /\ (Aborted(a) => Lost(a)')
  BY <1>1, <1>a, <1>c DEF Aborted, Lost
<1>7. Controlled(a)'
  BY <1>c DEF LockInv, Controlled
<1>h. \A k : Handed(a, k)' <=> Handed(a, k)
  BY <1>1, <1>2, <1>b DEF Handed
<1>8. Shared(a)'
  <2>1. \A u \in TasksOf(a) : u \in ctl[a].users => Writing(u)' /\ u = Flow(a) /\ Aborted(a)
    <3> SUFFICES ASSUME NEW u \in TasksOf(a), u \in ctl[a].users
                 PROVE  Writing(u)' /\ u = Flow(a) /\ Aborted(a)
      OBVIOUS
    <3>1. Writing(u) /\ u # t /\ ~Resting(u)
      <4>1. Writing(u)
        BY DEF LockInv, Shared
      <4> QED BY <4>1, <1>b, Exclusive
    <3>2. u = Flow(a)
      BY ZenonT(60), <3>1, <1>a, <1>b, Workers DEF LockInv, Phases, Writer
    <3>3. at[u].pc # "prompt"
      BY <3>1 DEF Writing, Asserts, FencePcs, LockedPcs
    <3>4. Aborted(a)
      BY <3>2, <3>3, <1>a, <1>b DEF LockInv, Phases
    <3> QED BY <3>1, <3>2, <3>4, <1>1
  <2>2. \A u \in TasksOf(a) : Writing(u)' /\ u \notin ctl[a].users =>
            at'[u].key = u /\ lock' = u /\ ~Handed(a, u)'
    <3> SUFFICES ASSUME NEW u \in TasksOf(a), Writing(u)', u \notin ctl[a].users
                 PROVE  at'[u].key = u /\ lock' = u /\ ~Handed(a, u)'
      OBVIOUS
    <3>1. Writing(u) /\ u # t
      BY <1>1, <1>2
    <3>2. at[u].key = u /\ lock = u /\ ~Handed(a, u)
      BY <3>1 DEF LockInv, Shared
    <3> QED BY <3>1, <3>2, <1>1, <1>a, <1>c, <1>h
  <2> QED BY <2>1, <2>2, <1>6, <1>c DEF Shared
<1>9. Drained(a)'
  <2>1. \A u \in TasksOf(a) : ctl'[a].drain = u <=> at'[u].pc = "idle users" \/ Fencing(u)'
    BY <1>1, <1>2, <1>b, <1>c DEF LockInv, Drained
  <2>2. \A u \in TasksOf(a) : Fencing(u)' => ctl'[a].users = {} /\ InHand(a, at[u].key)'
    <3> SUFFICES ASSUME NEW u \in TasksOf(a), Fencing(u)'
                 PROVE  ctl'[a].users = {} /\ InHand(a, at[u].key)'
      OBVIOUS
    <3>1. u # t /\ Fencing(u) /\ at'[u].key = at[u].key
      BY <1>1, <1>2
    <3>2. ctl[a].held = None /\ ctl[a].users = {} /\ InHand(a, at[u].key)
      BY <3>1 DEF LockInv, Drained
    <3>3. Aborted(a)
      BY <3>2, <1>b
    <3> QED BY <3>1, <3>2, <3>3, <1>6, <1>a, <1>c DEF InHand
  <2> QED BY <2>1, <2>2, <1>c DEF Drained
<1>10. Cleaned(a)'
  <2> SUFFICES ASSUME Cleaning(Flow(a))'
               PROVE  ctl'[a].held = None /\ Unfenced(a)' /\ InHand(a, at[Flow(a)].key)'
    BY DEF Cleaned
  <2>1. Cleaning(Flow(a)) /\ at'[Flow(a)].key = at[Flow(a)].key
    BY <1>1, <1>a
  <2>2. ctl[a].held = None /\ Unfenced(a)' /\ InHand(a, at[Flow(a)].key)
    BY <2>1, <1>1, <1>2 DEF LockInv, Cleaned, Unfenced
  <2>3. Aborted(a)
    BY <2>2, <1>b
  <2> QED BY <2>1, <2>2, <2>3, <1>6, <1>a, <1>c DEF InHand
<1>11. AgentHolds(a)'
  BY <1>2, <1>a DEF AgentHolds
<1>12. Freed(a)'
  BY <1>1, <1>a, <1>b, <1>c, <1>h DEF LockInv, Freed
<1>13. GaveUp(a)'
  BY <1>1, <1>6, <1>a, <1>c, <1>h DEF LockInv, GaveUp
<1> QED BY <1>1, <1>4, <1>5, <1>7, <1>8, <1>9, <1>10, <1>11, <1>12, <1>13 DEF LockInv

\* The cleanup is done with the lock.
Flushes(t) ==
    LET a == t[1]
    IN  /\ Cleaning(t)
        /\ Moves(t, "dispose", "idle", None)
        /\ Controls(a, ctl[a].held, ctl[a].users, ctl[a].drain, ctl'[a].takeover)
        /\ ctl[a].takeover => ctl'[a].takeover
        /\ Unlock(at[t].key)

LEMMA FlushesKeeps ==
    ASSUME NEW a \in Attempts, NEW t \in TasksOf(a), LockInv(a), Flushes(t)
    PROVE  LockInv(a)'
<1> USE OwnTasks
<1>0. t[1] = a
  OBVIOUS
<1>a. /\ Cleaning(t) /\ t = Flow(a)
      /\ \A u \in TasksOf(a) : u # t => at'[u] = at[u]
      /\ at'[t].pc = "dispose"
  BY <1>0, Workers DEF Flushes, Moves
<1>b. /\ ctl[a].held = None /\ Unfenced(a) /\ at[t].key \in {Flow(a), Agent(a)}
      /\ ~Writing(t) /\ ~Fencing(t) /\ ~Resting(t) /\ at[t].pc # "prompt"
  BY <1>a, Exclusive
  DEF LockInv, Cleaned, InHand, Cleaning, Asserts, FencePcs
<1>c. /\ ctl'[a].held = None /\ ctl'[a].users = ctl[a].users
      /\ ctl'[a].drain = ctl[a].drain /\ (ctl[a].takeover => ctl'[a].takeover)
      /\ lock' = IF lock = at[t].key THEN None ELSE lock
  BY <1>0, <1>b DEF Flushes, Controls, Unlock
<1>1. \A u \in TasksOf(a) : u # t => Same(u)
  BY <1>a, OtherTasks
<1> USE DEF Same
<1>2. /\ ~Writing(t)' /\ ~Cleaning(t)' /\ ~Fencing(t)' /\ at'[t].pc # "idle users"
      /\ FlowAt(t)'
  BY <1>a
  DEF Writing, Cleaning, Fencing, Asserts, FencePcs, FencingPcs, LockedPcs, FlowAt
<1>3. \A u \in TasksOf(a) : ~Fencing(u) /\ ~Fencing(u)'
  BY <1>1, <1>2, <1>b DEF Unfenced
<1>4. Placed(t)'
  BY <1>0, <1>2, <1>a DEF Placed, Writer
<1>5. Phases(a)'
  <2>1. InPhase(t)
    BY <1>0, <1>a, <1>b DEF InPhase
  <2> QED BY <2>1, <1>a, PhasesKept
<1>6. Aborted(a) <=> Aborted(a)'
  BY <1>1, <1>a DEF Aborted
<1>7. Controlled(a)'
  BY <1>c DEF LockInv, Controlled
<1>8. Shared(a)'
  <2>1. \A u \in TasksOf(a) : u \notin ctl[a].users
    BY <1>a, <1>b DEF LockInv, Shared
  <2>2. \A u \in TasksOf(a) : Writing(u)' => at'[u].key = u /\ lock' = u
    <3> SUFFICES ASSUME NEW u \in TasksOf(a), Writing(u)'
                 PROVE  at'[u].key = u /\ lock' = u
      OBVIOUS
    <3>1. Writing(u) /\ u # t
      BY <1>1, <1>2
    <3>2. at[u].key = u /\ lock = u /\ u # Agent(a)
      BY ZenonT(60), <3>1, <2>1, Workers DEF LockInv, Shared
    <3> QED BY <3>1, <3>2, <1>1, <1>a, <1>b, <1>c
  <2>3. \A u \in TasksOf(a) : ~Handed(a, u)'
    BY <1>3 DEF Handed
  <2> QED BY <2>1, <2>2, <2>3, <1>c DEF Shared
<1>9. Drained(a)'
  <2>1. at[t].pc # "idle users"
    BY <1>a, Exclusive
  <2>2. \A u \in TasksOf(a) : at'[u].pc = "idle users" <=> at[u].pc = "idle users"
    BY <2>1, <1>1, <1>2
  <2> QED BY <2>2, <1>3, <1>c DEF LockInv, Drained
<1>10. Cleaned(a)'
  BY <1>2, <1>a DEF Cleaned
<1>11. AgentHolds(a)'
  BY <1>1, <1>3, <1>6, <1>a, <1>b, <1>c DEF LockInv, AgentHolds, Unfenced
<1>12. Freed(a)'
  <2>1. ~Handed(a, Flow(a)) /\ ~Handed(a, Agent(a))
    BY <1>3 DEF Handed
  <2>2. lock \in {Flow(a), Agent(a)} => at[t].key = lock
    BY <2>1, <1>a, <1>b DEF LockInv, Freed
  <2> QED BY <2>2, <1>c DEF Freed
<1>13. GaveUp(a)'
  BY <1>a DEF GaveUp
<1> QED BY <1>1, <1>4, <1>5, <1>7, <1>8, <1>9, <1>10, <1>11, <1>12, <1>13 DEF LockInv

-----------------------------------------------------------------------------
(* A step of one task *)

Throws(t) == Ends(t) \/ FailsTurn(t) \/ Flushes(t)

\* What a step of t does to who holds the lock.
LockStep(t) ==
    /\ at' \in [Tasks -> TaskType] /\ \A u \in Tasks : u # t => at'[u] = at[u]
    /\ ctl' \in [Attempts -> CtlType] /\ \A b \in Attempts : b # t[1] => ctl'[b] = ctl[b]
    /\ \/ Alike(t) \/ Throws(t) \/ Begins(t) \/ TakesForCleanup(t) \/ TakesToFree(t)
       \/ TakesToFence(t) \/ TakesNothing(t) \/ Frees(t) \/ Shares(t) \/ LocksForWrite(t)
       \/ Creates(t) \/ LocksForTurn(t) \/ LocksForCleanup(t)

\* The flow of a writes no more.
Past(a) ==
    LET t == Flow(a)
    IN  at[t].pc \in {"dispose", "over"} \/ (at[t].pc \in DrainPcs /\ at[t].then = "over")

\* Who asserts the fence has one, and it was set in a state that is trusted.
Ready(t) ==
    /\ at[t].pc \in FencePcs => ctl[t[1]].fence.active
    /\ at[t].pc \in FencePcs \cup {"free"} => trusted.gen > 0

\* Where the flow does not go back to, and how its agent gets the lock.
FlowData(t) ==
    /\ t = Flow(t[1]) =>
          /\ Past(t[1]) => Past(t[1])'
          /\ at[t].pc \in {"idle", "create"} => at'[t].pc \in {"create", "over"} \/ Creates(t)
    /\ LocksForTurn(t) /\ at'[t].pc = "turn" => ~ctl[t[1]].fence.active

\* What t has read, and from where it goes where.
TaskData(t) ==
    LET f == ctl[t[1]].fence
        x == at[t]
        y == at'[t]
    IN  /\ log' = log \/ log' = Append(log, "own")
        /\ y.since \in {x.since} \cup 0..Len(log')
        /\ y.pc = "stat" => y.since = Len(log')
        /\ y.pc = "running" => x.pc = "stat" /\ y.read \in ReadBy(t) /\ log' = log
        /\ y.pc = "ran" => x.pc = "running" /\ y.read = x.read /\ y.since = Len(log')
        /\ y.pc = "free" => trusted'.gen > 0
        /\ y.pc \in FencePcs => f.active /\ ctl'[t[1]].fence.active
        /\ y.pc = "assert" => y.since = Len(log')
        /\ y.pc = "rewrite" => y.since = Len(log') /\ y.seen = f.snap
        /\ y.pc = "adopt" => \E v \in ReadBy(t) :
              \/ x.pc = "assert" /\ Added(f.snap, v, {"mirror"})
              \/ x.pc = "rewrite" /\ Added(x.seen, v, {"mirror", "migration"})
        /\ x.pc \in FencePcs /\ y.pc \notin FencePcs =>
              \/ Throws(t) \/ x.pc = "adopt"
              \/ /\ x.pc = "assert"
                 /\ f.fp \in ReadBy(t) \/ (published.gen > f.gen /\ published.ver \in ReadBy(t))
        /\ y.pc \in LockedPcs \cup {"flush"} =>
              x.pc \in FencePcs \cup LockedPcs \cup {"flush"} \/ ~f.active

\* What becomes of the fence.
FenceData(t) ==
    LET f == ctl[t[1]].fence
        g == ctl'[t[1]].fence
        x == at[t]
    IN  /\ \/ g = f
           \/ /\ g.fp \in {f.fp} \cup 0..Len(log') /\ g.snap \in {f.snap} \cup 0..Len(log')
              /\ g.active => f.active \/ trusted.gen > 0
              /\ f.active => g.active
              /\ \/ x.pc \in LockedPcs \cup FencingPcs \cup {"adopt"}
                 \/ x.pc = "assert" /\ published.gen > f.gen /\ published.ver \in ReadBy(t)
        /\ x.pc = "free" => g.active

\* What becomes of the state that is trusted.
TrustData(t) ==
    \/ UNCHANGED <<trusted, published, lastGen>>
    \/ /\ trusted.gen = 0
       /\ \E v \in ReadBy(t) : trusted' = [ver |-> v, gen |-> lastGen + 1, base |-> v]
       /\ lastGen' = lastGen + 1 /\ UNCHANGED published
    \/ /\ at[t].pc = "ran" /\ trusted.gen > 0 /\ trusted.ver = at[t].read
       /\ t[2] \in Publishing
       /\ \E v \in ReadBy(t) :
             /\ trusted' = [trusted EXCEPT !.ver = v, !.gen = lastGen + 1]
             /\ published' = [ver |-> v, gen |-> lastGen + 1]
       /\ lastGen' = lastGen + 1

\* A step of task t.
Step(t) ==
    /\ LockStep(t) /\ FlowData(t) /\ TaskData(t) /\ FenceData(t) /\ TrustData(t)
    /\ owner' \in Attempts \cup {None} /\ streams' \in [Attempts -> Nat] /\ UNCHANGED intruded

\* The program counters that say nothing of the lock.
PlainPcs == Pcs \ (FencePcs \cup FencingPcs \cup LockedPcs \cup {"flush", "idle users"})

\* What every step leaves that has nothing to do with the file and the fence.
Quiet(t) ==
    /\ UNCHANGED <<log, trusted, published, lastGen, intruded>>
    /\ owner' \in Attempts \cup {None} /\ streams' \in [Attempts -> Nat]

LEMMA PlainIs ==
    ASSUME NEW t, at[t].pc \in PlainPcs
    PROVE  /\ at[t].pc \notin FencePcs \cup FencingPcs \cup LockedPcs \cup {"flush", "idle users"}
           /\ ~Writing(t) /\ ~Cleaning(t) /\ ~Fencing(t) /\ \A p : ~Asserts(t, p)
  BY DEF PlainPcs, Writing, Cleaning, Fencing, Asserts

LEMMA Counts == \A n \in Nat : 0 \in 0..n /\ n \in 0..n /\ n + 1 \in Nat /\ n + 1 > 0 /\ n <= n /\ n <= n + 1
  OBVIOUS

\* A plain step: t goes on, and the session may be found to be taken over.
LEMMA PlainSteps ==
    ASSUME TypeOK, NEW a \in Attempts, NEW t \in TasksOf(a),
           NEW q \in PlainPcs, NEW p, NEW k, Moves(t, q, p, k),
           at'[t].since \in {at[t].since, 0},
           at[t].pc \in PlainPcs, Placed(t)', InPhase(t),
           Controls(a, ctl[a].held, ctl[a].users, ctl[a].drain, ctl'[a].takeover),
           ctl[a].takeover => ctl'[a].takeover, FenceIs(a, ctl[a].fence),
           UNCHANGED lock, Quiet(t),
           t = Agent(a) /\ q = "lock turn" =>
               ctl[a].held = None /\ Unfenced(a) /\ ~ctl[a].takeover,
           t = Flow(a) /\ q \in {"drained", "over"} =>
               ctl[a].held # Flow(a) /\ (Aborted(a) \/ ctl[a].held = None),
           t = Flow(a) /\ q = "over" => ctl[a].drain = None,
           t = Flow(a) /\ Past(a) => q = "over" \/ (q \in DrainPcs /\ p = "over"),
           t = Flow(a) /\ at[t].pc \in {"idle", "create"} => q \in {"create", "over"}
    PROVE  Step(t)
<1> USE OwnTasks
<1>0. t \in Tasks /\ t[1] = a /\ at'[t].pc = q
  BY DEF Moves
<1>1. /\ at[t].pc \notin FencePcs \cup FencingPcs \cup LockedPcs \cup {"flush", "idle users"}
      /\ ~Writing(t) /\ ~Cleaning(t) /\ ~Fencing(t) /\ ~Asserts(t, "turn")
  BY PlainIs
<1>2. q \notin FencePcs \cup FencingPcs \cup LockedPcs \cup {"flush", "idle users"}
  BY DEF PlainPcs
<1>3. ~Writing(t)' /\ ~Cleaning(t)' /\ ~Fencing(t)' /\ ~Asserts(t, "turn")'
  BY <1>0, <1>2 DEF Writing, Cleaning, Fencing, Asserts
<1>4. Alike(t)
  BY <1>0, <1>1, <1>2, <1>3 DEF Alike
<1>5. LockStep(t)
  BY <1>0, <1>4 DEF LockStep, Moves, Controls
<1>6. TaskData(t)
  <2>1. log' = log /\ Len(log) \in Nat /\ Len(log') \in Nat
    BY VersionType DEF Quiet, Version
  <2>2. /\ at[t].pc \notin FencePcs
        /\ q \notin FencePcs \cup LockedPcs \cup {"flush"}
        /\ q \notin {"stat", "running", "ran", "free", "assert", "rewrite", "adopt"}
    BY <1>1, <1>2 DEF FencePcs, FencingPcs, LockedPcs
  <2>3. 0 \in 0..Len(log')
    BY <2>1, Counts
  <2>4. at'[t].since \in {at[t].since} \cup 0..Len(log')
    BY <2>3
  <2> QED BY <2>1, <2>2, <2>4, <1>0, Zenon DEF TaskData
<1>7. FenceData(t)
  <2>1. at[t].pc # "free"
    BY <1>1 DEF FencingPcs
  <2> QED BY <2>1, <1>0 DEF FenceData, FenceIs
<1>8. TrustData(t)
  BY DEF TrustData, Quiet
<1>9. FlowData(t)
  <2>1. ~LocksForTurn(t)
    <3>1. t # None
      BY OwnTasks
    <3> QED BY <3>1 DEF LocksForTurn
  <2>2. ASSUME t = Flow(a), Past(a) PROVE Past(a)'
    <3>1. at'[Flow(a)].pc = q /\ at'[Flow(a)].then = p
      BY <1>0, <2>2 DEF Moves
    <3>2. q = "over" \/ (q \in DrainPcs /\ p = "over")
      BY <2>2
    <3> QED BY <3>1, <3>2, Zenon DEF Past
  <2>3. t = Flow(a) /\ at[t].pc \in {"idle", "create"} => at'[t].pc \in {"create", "over"}
    BY <1>0
  <2> QED BY <1>0, <2>1, <2>2, <2>3, Zenon DEF FlowData
<1> QED BY <1>5, <1>6, <1>7, <1>8, <1>9 DEF Step, Quiet

\* What a step leaves, when nothing but the tasks, the controllers and the lock change.
LEMMA Quietly ==
    ASSUME TypeOK, NEW t, FileKept, TrustKept, RestKept
    PROVE  Quiet(t)
  BY DEF TypeOK, FileKept, TrustKept, RestKept, Quiet

\* The controller stays as it is.
LEMMA KeptControls ==
    ASSUME TypeOK, NEW a \in Attempts, UNCHANGED ctl
    PROVE  /\ Controls(a, ctl[a].held, ctl[a].users, ctl[a].drain, ctl'[a].takeover)
           /\ ctl[a].takeover => ctl'[a].takeover
           /\ FenceIs(a, ctl[a].fence)
           /\ ctl' \in [Attempts -> CtlType] /\ ctl[a] \in CtlType
  BY DEF TypeOK, Controls, FenceIs

\* Where t may go without a lock.
LEMMA Arrives ==
    ASSUME NEW a \in Attempts, NEW t \in TasksOf(a), NEW q, NEW p, NEW k, Moves(t, q, p, k),
           t = Flow(a) =>
               \/ q \in {"create", "prepare", "prompt", "results", "write", "lock write",
                         "cleanup", "lock cleanup", "dispose", "over"}
               \/ q \in {"drain", "drained"} /\ p \in {"results", "over"}
               \/ q = "drain" /\ p = "flush",
           t = Agent(a) =>
               \/ q \in {"turn", "stream", "lock turn", "done"}
               \/ q \in {"drain", "drained"} /\ p = "stream",
           t = AbortOf(a) => q = "done" \/ (q \in {"drain", "drained"} /\ p = "done"),
           Writer(t) => q \in {"write", "lock write", "done"}
    PROVE  Placed(t)'
<1>0. t[1] = a /\ at'[t].pc = q /\ at'[t].then = p
  BY OwnTasks DEF Moves
<1>1. t = Flow(a) => FlowAt(t)'
  BY <1>0 DEF FlowAt, DrainPcs
<1>2. t = Agent(a) => AgentAt(t)'
  BY <1>0, OwnTasks DEF AgentAt, DrainPcs
<1>3. t = AbortOf(a) => AbortAt(t)'
  BY <1>0, OwnTasks DEF AbortAt, Resting, DrainPcs
<1>4. Writer(t) => WriterAt(t)'
  BY <1>0 DEF WriterAt, Resting
<1>5. Writer(t)' <=> Writer(t)
  BY DEF Writer
<1> QED BY <1>0, <1>1, <1>2, <1>3, <1>4, <1>5 DEF Placed

\* Where tasks go without a lock, and when.
FlowWalk(a, q, p) ==
    LET x == at[Flow(a)].pc
    IN  /\ q \in {"drained", "over"} /\ x # "drained" => ctl[a].held = None
        /\ \/ x \in {"idle", "create"} /\ q = "over"
           \/ x = "idle" /\ q = "create" /\ ctl'[a] = ctl[a]
           \/ x = "prepare" /\ q = "cleanup"
           \/ x = "prompt" /\ q \in {"drain", "drained"} /\ p = "results"
                  /\ (Aborted(a) \/ Resting(Agent(a)))
           \/ x = "results" /\ q \in {"write", "cleanup"}
           \/ x = "cleanup" /\ (q = "dispose" \/ (q \in {"drain", "lock cleanup"} /\ p = "flush"))
           \/ x = "dispose" /\ q \in {"drain", "drained"} /\ p = "over"
           \/ x \in {"drain", "drained"} /\ ctl[a].drain = None
                  /\ q \in {"results", "lock cleanup", "over"}
                  /\ (at[Flow(a)].then = "over" => q = "over")
           \/ x = "write" /\ q = "lock write"
           \/ x = "lock write" /\ q = "cleanup"
           \/ x = "lock cleanup" /\ q = "dispose"

AgentWalk(a, q, p) ==
    LET x == at[Agent(a)].pc
    IN  \/ x = "turn" /\ Settled(a)
               /\ (q = "done" \/ (q \in {"drain", "drained"} /\ p = "stream"))
        \/ x = "stream" /\ Settled(a) /\ q = "turn"
        \/ x = "stream" /\ Settled(a) /\ q = "lock turn"
               /\ ctl[a].held = None /\ ctl[a].drain = None /\ ~ctl[a].takeover
        \/ x = "lock turn" /\ q = "turn"
        \/ x \in {"drain", "drained"} /\ q = "stream"

AbortWalk(a, q, p) ==
    LET x == at[AbortOf(a)].pc
    IN  \/ x = "idle" /\ at[Flow(a)].pc \notin {"idle", "create"}
               /\ q \in {"drain", "drained"} /\ p = "done"
        \/ x \in {"drain", "drained"} /\ q = "done"

WriterWalk(t, q) ==
    \/ at[t].pc = "idle" /\ q = "write" /\ at[Agent(t[1])].pc \in {"turn", "stream"}
    \/ at[t].pc = "write" /\ q = "lock write"
    \/ at[t].pc = "lock write" /\ q = "done"

Walk(t, q, p) ==
    LET a == t[1]
    IN  \/ t = Flow(a) /\ FlowWalk(a, q, p)
        \/ t = Agent(a) /\ AgentWalk(a, q, p)
        \/ t = AbortOf(a) /\ AbortWalk(a, q, p)
        \/ Writer(t) /\ WriterWalk(t, q)

LEMMA WalkSteps ==
    ASSUME TypeOK, NEW a \in Attempts, NEW t \in TasksOf(a), LockInv(a), NEW q, NEW p, NEW k,
           Moves(t, q, p, k), at'[t].since \in {at[t].since, 0}, Walk(t, q, p),
           Controls(a, ctl[a].held, ctl[a].users, ctl[a].drain, ctl'[a].takeover),
           ctl[a].takeover => ctl'[a].takeover, FenceIs(a, ctl[a].fence),
           UNCHANGED lock, Quiet(t)
    PROVE  Step(t)
<1>0. /\ t[1] = a /\ at'[t].pc = q /\ at'[t].then = p
      /\ Flow(a) # Agent(a) /\ Flow(a) # AbortOf(a) /\ Agent(a) # AbortOf(a)
      /\ \/ t = Flow(a) /\ FlowWalk(a, q, p)
         \/ t = Agent(a) /\ AgentWalk(a, q, p)
         \/ t = AbortOf(a) /\ AbortWalk(a, q, p)
         \/ Writer(t) /\ WriterWalk(t, q)
  BY OwnTasks DEF Moves, Walk
<1>1. at[t].pc \in PlainPcs /\ q \in PlainPcs
  <2> DEFINE plain == {"idle", "create", "prepare", "prompt", "results", "write", "lock write",
                       "cleanup", "lock cleanup", "dispose", "over", "turn", "stream",
                       "lock turn", "done", "drain", "drained"}
  <2>1. t = Flow(a) /\ FlowWalk(a, q, p) => at[t].pc \in plain /\ q \in plain
    BY DEF FlowWalk
  <2>2. t = Agent(a) /\ AgentWalk(a, q, p) => at[t].pc \in plain /\ q \in plain
    BY DEF AgentWalk
  <2>3. t = AbortOf(a) /\ AbortWalk(a, q, p) => at[t].pc \in plain /\ q \in plain
    BY DEF AbortWalk
  <2>4. Writer(t) /\ WriterWalk(t, q) => at[t].pc \in plain /\ q \in plain
    BY DEF WriterWalk
  <2>5. at[t].pc \in plain /\ q \in plain
    BY <1>0, <2>1, <2>2, <2>3, <2>4
  <2>6. \A r \in plain : r \in PlainPcs
    BY ZenonT(30) DEF PlainPcs, Pcs, FencePcs, FencingPcs, LockedPcs
  <2> HIDE DEF plain
  <2> QED BY <2>5, <2>6
<1>2. Placed(t)'
  <2>1. t = Flow(a) =>
               \/ q \in {"create", "prepare", "prompt", "results", "write", "lock write",
                         "cleanup", "lock cleanup", "dispose", "over"}
               \/ q \in {"drain", "drained"} /\ p \in {"results", "over"}
               \/ q = "drain" /\ p = "flush"
    BY <1>0 DEF FlowWalk, Writer
  <2>2. t = Agent(a) =>
               \/ q \in {"turn", "stream", "lock turn", "done"}
               \/ q \in {"drain", "drained"} /\ p = "stream"
    BY <1>0 DEF AgentWalk, Writer
  <2>3. t = AbortOf(a) => q = "done" \/ (q \in {"drain", "drained"} /\ p = "done")
    BY <1>0 DEF AbortWalk, Writer
  <2>4. Writer(t) => q \in {"write", "lock write", "done"}
    BY <1>0 DEF WriterWalk, Writer
  <2> QED BY <2>1, <2>2, <2>3, <2>4, Arrives
<1>3. InPhase(t)
  BY <1>0 DEF InPhase, FlowWalk, AgentWalk, AbortWalk, WriterWalk, Writer, Resting
<1>4. t = Agent(a) /\ q = "lock turn" =>
          ctl[a].held = None /\ Unfenced(a) /\ ~ctl[a].takeover
  BY <1>0, NobodyDrains DEF AgentWalk, Writer, Unfenced
<1>5. t = Flow(a) /\ q \in {"drained", "over"} =>
          ctl[a].held # Flow(a) /\ (Aborted(a) \/ ctl[a].held = None)
  <2>1. at[Flow(a)].pc = "drained" =>
            ctl[a].held # Flow(a) /\ (Aborted(a) \/ ctl[a].held = None)
    BY DEF LockInv, GaveUp
  <2>2. Flow(a) # None
    BY OwnTasks
  <2> QED BY <2>1, <2>2, <1>0 DEF FlowWalk, Writer
<1>6. t = Flow(a) /\ q = "over" => ctl[a].drain = None
  <2>1. at[Flow(a)].pc \in {"idle", "create"} => ctl[a].drain = None
    BY DEF LockInv, Phases
  <2> QED BY <2>1, <1>0 DEF FlowWalk, Writer
<1>7. t = Flow(a) /\ Past(a) => q = "over" \/ (q \in DrainPcs /\ p = "over")
  BY <1>0 DEF FlowWalk, Writer, Past, DrainPcs, FencingPcs
<1>8. t = Flow(a) /\ at[t].pc \in {"idle", "create"} => q \in {"create", "over"}
  BY <1>0 DEF FlowWalk, Writer
<1> QED BY <1>1, <1>2, <1>3, <1>4, <1>5, <1>6, <1>7, <1>8, PlainSteps

\* A task goes on, and its controller stays as it is.
LEMMA JustWalks ==
    ASSUME TypeOK, NEW a \in Attempts, NEW t \in TasksOf(a), LockInv(a), NEW q, NEW p,
           Moves(t, q, p, None), Knows(t, 0, 0, 0), Walk(t, q, p),
           UNCHANGED <<ctl, lock>>, Quiet(t)
    PROVE  Step(t)
<1>1. at'[t].since \in {at[t].since, 0}
  BY DEF Knows
<1> QED BY <1>1, KeptControls, WalkSteps

LEMMA AwaitDrainSteps ==
    ASSUME TypeOK, NEW a \in Attempts, NEW t \in TasksOf(a), LockInv(a), AwaitDrain(t)
    PROVE  Step(t)
<1> DEFINE q == at[t].then
<1>0. /\ t \in Tasks /\ t[1] = a
      /\ at[t].pc = "drained" /\ at[t].pc \in DrainPcs /\ ctl[a].drain = None
      /\ At(t, q) /\ UNCHANGED <<lock, ctl>> /\ Quiet(t)
  BY OwnTasks, Quietly DEF AwaitDrain, DrainPcs
<1>1. /\ t = Flow(a) => q \in {"results", "over"}
      /\ t = Agent(a) => q = "stream"
      /\ t = AbortOf(a) => q = "done"
      /\ t = Flow(a) \/ t = Agent(a) \/ t = AbortOf(a)
  BY <1>0, Drainers
<1>2. Moves(t, q, "idle", None) /\ Knows(t, 0, 0, 0)
  BY <1>0, AtMoves, TaskAt
<1>a. at[t].pc = "drained" /\ ctl[a].drain = None /\ t[1] = a /\ at[t].then = q
  BY <1>0
<1> HIDE DEF q
<1>3. Walk(t, q, "idle")
  <2>1. t = Flow(a) => FlowWalk(a, q, "idle")
    BY <1>a, <1>1 DEF FlowWalk
  <2>2. t = Agent(a) => AgentWalk(a, q, "idle")
    BY <1>a, <1>1 DEF AgentWalk
  <2>3. t = AbortOf(a) => AbortWalk(a, q, "idle")
    BY <1>a, <1>1 DEF AbortWalk
  <2> QED BY <1>a, <1>1, <2>1, <2>2, <2>3 DEF Walk
<1> QED BY <1>0, <1>2, <1>3, JustWalks

\* At(t, pc), for a task that walks.
LEMMA WalksTo ==
    ASSUME TypeOK, NEW a \in Attempts, NEW t \in TasksOf(a), LockInv(a), NEW q \in Pcs,
           At(t, q), Walk(t, q, "idle"), UNCHANGED <<ctl, lock>>, Quiet(t)
    PROVE  Step(t)
<1>1. Moves(t, q, "idle", None) /\ Knows(t, 0, 0, 0)
  BY AtMoves, OwnTasks
<1> QED BY <1>1, JustWalks

\* Release(t, pc), for a task that walks.
LEMMA WalksToRelease ==
    ASSUME TypeOK, NEW a \in Attempts, NEW t \in TasksOf(a), LockInv(a), NEW p \in Pcs,
           Release(t, p), UNCHANGED <<ctl, lock>>, Quiet(t),
           \A q \in {"drain", "drained"} :
               (q = "drained" => ctl[a].held = None) => Walk(t, q, p)
    PROVE  Step(t)
<1> DEFINE q == IF ctl[t[1]].held # None THEN "drain" ELSE "drained"
<1>1. Moves(t, q, p, None) /\ Knows(t, 0, 0, 0)
  BY ReleaseMoves, OwnTasks
<1>2. q \in {"drain", "drained"} /\ (q = "drained" => ctl[a].held = None)
  BY OwnTasks
<1> HIDE DEF q
<1> QED BY <1>1, <1>2, JustWalks

LEMMA OwnFileSteps ==
    ASSUME TypeOK, NEW a \in Attempts, LockInv(a), OwnFile(a)
    PROVE  Step(Flow(a))
<1>1. At(Flow(a), "create") /\ UNCHANGED <<ctl, lock>> /\ Quiet(Flow(a))
  BY DEF OwnFile, Quiet, FileKept, TrustKept, TypeOK
<1>2. at[Flow(a)].pc = "idle" /\ ctl' = ctl /\ Flow(a)[1] = a
  BY DEF OwnFile, Flow
<1>3. Walk(Flow(a), "create", "idle")
  BY <1>2 DEF Walk, FlowWalk
<1> QED BY <1>1, <1>3, OwnTasks, WalksTo DEF Pcs

LEMMA GiveUpFileSteps ==
    ASSUME TypeOK, NEW a \in Attempts, LockInv(a), GiveUpFile(a)
    PROVE  Step(Flow(a))
<1>1. At(Flow(a), "over") /\ UNCHANGED <<ctl, lock>> /\ Quiet(Flow(a))
  BY Quietly DEF GiveUpFile
<1>2. at[Flow(a)].pc = "idle" /\ ctl[a].held = None /\ Flow(a)[1] = a
  BY DEF GiveUpFile, Flow, LockInv, Phases
<1>3. Walk(Flow(a), "over", "idle")
  BY <1>2 DEF Walk, FlowWalk
<1> QED BY <1>1, <1>3, OwnTasks, WalksTo DEF Pcs

LEMMA FailPrepareSteps ==
    ASSUME TypeOK, NEW a \in Attempts, LockInv(a), FailPrepare(a)
    PROVE  Step(Flow(a))
<1>1. At(Flow(a), "cleanup") /\ UNCHANGED <<ctl, lock>> /\ Quiet(Flow(a))
  BY Quietly DEF FailPrepare
<1>2. at[Flow(a)].pc = "prepare" /\ Flow(a)[1] = a
  BY DEF FailPrepare, Flow
<1>3. Walk(Flow(a), "cleanup", "idle")
  BY <1>2 DEF Walk, FlowWalk
<1> QED BY <1>1, <1>3, OwnTasks, WalksTo DEF Pcs

LEMMA EndPromptSteps ==
    ASSUME TypeOK, NEW a \in Attempts, LockInv(a), EndPrompt(a)
    PROVE  Step(Flow(a))
<1>1. Release(Flow(a), "results") /\ UNCHANGED <<ctl, lock>> /\ Quiet(Flow(a))
  BY Quietly DEF EndPrompt
<1>2. /\ at[Flow(a)].pc = "prompt" /\ Flow(a)[1] = a
      /\ Aborted(a) \/ Resting(Agent(a))
  BY DEF EndPrompt, Flow, Resting
<1>3. \A q \in {"drain", "drained"} :
          (q = "drained" => ctl[a].held = None) => Walk(Flow(a), q, "results")
  BY <1>2 DEF Walk, FlowWalk
<1> QED BY <1>1, <1>3, OwnTasks, WalksToRelease DEF Pcs

LEMMA WriteResultsSteps ==
    ASSUME TypeOK, NEW a \in Attempts, LockInv(a), WriteResults(a)
    PROVE  Step(Flow(a))
<1>1. UNCHANGED <<ctl, lock>> /\ Quiet(Flow(a))
  BY Quietly DEF WriteResults
<1>2. at[Flow(a)].pc = "results" /\ Flow(a)[1] = a
  BY DEF WriteResults, Flow
<1>3. \A q \in {"write", "cleanup"} : Walk(Flow(a), q, "idle")
  BY <1>2 DEF Walk, FlowWalk
<1>4. \E q \in {"write", "cleanup"} : At(Flow(a), q)
  BY DEF WriteResults, BeginWrite
<1> QED BY <1>1, <1>3, <1>4, OwnTasks, WalksTo DEF Pcs

LEMMA DisposeSteps ==
    ASSUME TypeOK, NEW a \in Attempts, LockInv(a), Dispose(a)
    PROVE  Step(Flow(a))
<1>1. Release(Flow(a), "over") /\ UNCHANGED <<ctl, lock>> /\ Quiet(Flow(a))
  BY Quietly DEF Dispose
<1>2. at[Flow(a)].pc = "dispose" /\ Flow(a)[1] = a
  BY DEF Dispose, Flow
<1>3. \A q \in {"drain", "drained"} :
          (q = "drained" => ctl[a].held = None) => Walk(Flow(a), q, "over")
  BY <1>2 DEF Walk, FlowWalk
<1> QED BY <1>1, <1>3, OwnTasks, WalksToRelease DEF Pcs

LEMMA RequestStreamSteps ==
    ASSUME TypeOK, NEW a \in Attempts, LockInv(a), RequestStream(a)
    PROVE  Step(Agent(a))
<1>1. /\ Release(Agent(a), "stream") /\ UNCHANGED <<ctl, lock>>
      /\ streams' = [streams EXCEPT ![a] = @ + 1] /\ UNCHANGED owner
      /\ UNCHANGED <<log, trusted, published, lastGen, intruded>>
  BY DEF RequestStream, FileKept, TrustKept
<1>2. Quiet(Agent(a))
  <2>1. streams \in [Attempts -> Nat] /\ owner \in Attempts \cup {None}
    BY DEF TypeOK
  <2>2. streams' \in [Attempts -> Nat]
    BY <2>1, <1>1
  <2> QED BY <2>1, <2>2, <1>1 DEF Quiet
<1>3. at[Agent(a)].pc = "turn" /\ Settled(a) /\ Agent(a)[1] = a
  BY DEF RequestStream, Agent
<1>4. \A q \in {"drain", "drained"} :
          (q = "drained" => ctl[a].held = None) => Walk(Agent(a), q, "stream")
  BY <1>3 DEF Walk, AgentWalk
<1> QED BY <1>1, <1>2, <1>4, OwnTasks, WalksToRelease DEF Pcs

LEMMA ReacquireSteps ==
    ASSUME TypeOK, NEW a \in Attempts, LockInv(a), Reacquire(a)
    PROVE  Step(Agent(a))
<1>1. UNCHANGED <<ctl, lock>> /\ Quiet(Agent(a))
  BY Quietly DEF Reacquire
<1>2. at[Agent(a)].pc = "stream" /\ Settled(a) /\ ctl[a].drain = None /\ Agent(a)[1] = a
  BY DEF Reacquire, Agent
<1> DEFINE q == IF ctl[a].takeover \/ ctl[a].held # None THEN "turn" ELSE "lock turn"
<1>3. At(Agent(a), q)
  BY DEF Reacquire
<1>4. /\ q \in {"turn", "lock turn"}
      /\ q = "lock turn" => ctl[a].held = None /\ ~ctl[a].takeover
  OBVIOUS
<1> HIDE DEF q
<1>5. Walk(Agent(a), q, "idle")
  BY <1>2, <1>4 DEF Walk, AgentWalk
<1>6. q \in Pcs
  BY <1>4 DEF Pcs
<1> QED BY <1>1, <1>3, <1>5, <1>6, OwnTasks, WalksTo

LEMMA FinishTurnSteps ==
    ASSUME TypeOK, NEW a \in Attempts, LockInv(a), FinishTurn(a)
    PROVE  Step(Agent(a))
<1>1. At(Agent(a), "done") /\ UNCHANGED <<ctl, lock>> /\ Quiet(Agent(a))
  BY Quietly DEF FinishTurn
<1>2. at[Agent(a)].pc = "turn" /\ Settled(a) /\ Agent(a)[1] = a
  BY DEF FinishTurn, Agent
<1>3. Walk(Agent(a), "done", "idle")
  BY <1>2 DEF Walk, AgentWalk
<1> QED BY <1>1, <1>3, OwnTasks, WalksTo DEF Pcs

LEMMA AbortSteps ==
    ASSUME TypeOK, NEW a \in Attempts, LockInv(a), Abort(a)
    PROVE  Step(AbortOf(a))
<1>1. Release(AbortOf(a), "done") /\ UNCHANGED <<ctl, lock>> /\ Quiet(AbortOf(a))
  BY Quietly DEF Abort
<1>2. /\ at[AbortOf(a)].pc = "idle" /\ AbortOf(a)[1] = a
      /\ at[Flow(a)].pc \notin {"idle", "create"}
  BY DEF Abort, AbortOf, Created
<1>3. \A q \in {"drain", "drained"} :
          (q = "drained" => ctl[a].held = None) => Walk(AbortOf(a), q, "done")
  BY <1>2 DEF Walk, AbortWalk
<1> QED BY <1>1, <1>3, OwnTasks, WalksToRelease DEF Pcs

LEMMA BeginWriterSteps ==
    ASSUME TypeOK, NEW w \in Writers, LockInv(WriterOf[w]), BeginWriter(w)
    PROVE  Step(WriterTask(w))
<1> DEFINE t == WriterTask(w)
           a == WriterOf[w]
<1>0. a \in Attempts /\ t \in TasksOf(a) /\ t[1] = a /\ Writer(t)
  BY TasksOfAttempts
<1>1. At(t, "write") /\ UNCHANGED <<ctl, lock>> /\ Quiet(t)
  BY Quietly DEF BeginWriter, BeginWrite
<1>2. at[t].pc = "idle" /\ at[Agent(a)].pc \in {"turn", "stream"}
  BY <1>0 DEF BeginWriter
<1> HIDE DEF t, a
<1>3. Walk(t, "write", "idle")
  BY <1>0, <1>2 DEF Walk, WriterWalk
<1>4. "write" \in Pcs
  BY DEF Pcs
<1>5. LockInv(a)
  BY DEF a
<1> QED BY <1>0, <1>1, <1>3, <1>4, <1>5, WalksTo DEF t

\* A step that gets or gives up the lock, and leaves the file and the fence.
LEMMA LockSteps ==
    ASSUME TypeOK, NEW a \in Attempts, NEW t \in TasksOf(a), LockStep(t), FlowData(t), Quiet(t),
           FenceIs(a, ctl[a].fence),
           at[t].pc \notin FencePcs \cup FencingPcs \cup LockedPcs \cup {"flush"},
           NEW q, at'[t].pc = q,
           q \notin {"compare", "rewrite", "adopt", "free", "running", "ran", "over taken",
                     "published"},
           q = "assert" => ctl[a].fence.active,
           q \in {"stat", "flush"} => ~ctl[a].fence.active,
           at'[t].since \in {at[t].since, 0, Version},
           q \in {"assert", "stat"} => at'[t].since = Version
    PROVE  Step(t)
<1>0. t[1] = a /\ ctl'[a].fence = ctl[a].fence /\ log' = log /\ Version = Len(log)
  BY OwnTasks DEF Quiet, FenceIs, Version
<1>1. at'[t].since \in {at[t].since} \cup 0..Len(log')
  <2>1. Version \in Nat /\ 0 \in 0..Version /\ Version \in 0..Version
    BY VersionType, Counts
  <2> QED BY <2>1, <1>0
<1>2. q \in {"assert", "stat"} => at'[t].since = Len(log')
  BY <1>0
<1>3. at[t].pc \notin FencePcs /\ at[t].pc # "free"
  BY DEF FencingPcs
<1>4. q \in FencePcs => ctl[a].fence.active
  BY DEF FencePcs
<1>5. q \in LockedPcs \cup {"flush"} => ~ctl[a].fence.active
  BY DEF LockedPcs
<1>6. TaskData(t)
  BY <1>0, <1>1, <1>2, <1>3, <1>4, <1>5, Zenon DEF TaskData
<1>7. FenceData(t)
  BY <1>0, <1>3, Zenon DEF FenceData
<1>8. TrustData(t)
  BY DEF TrustData, Quiet
<1> QED BY <1>6, <1>7, <1>8 DEF Step, Quiet

\* The flow is not past its work, nor new.
LEMMA FlowDataIs ==
    ASSUME NEW t, t = Flow(t[1]) => ~Past(t[1]) /\ at[t].pc \notin {"idle", "create"},
           t = Agent(t[1]) => at[t].pc # "lock turn"
    PROVE  FlowData(t)
  BY DEF FlowData, LocksForTurn

LEMMA StartCleanupSteps ==
    ASSUME TypeOK, NEW a \in Attempts, LockInv(a), StartCleanup(a)
    PROVE  Step(Flow(a))
<1> DEFINE t == Flow(a)
           q == IF ctl[a].held # None THEN "drain" ELSE "lock cleanup"
           f1 == [at EXCEPT ![t].pc = q]
           f2 == [f1 EXCEPT ![t].then = "flush"]
<1>0. t \in TasksOf(a) /\ t \in Tasks /\ t[1] = a
  BY OwnTasks
<1>1. UNCHANGED <<ctl, lock>> /\ Quiet(t)
  BY Quietly DEF StartCleanup
<1>2. at[t].pc = "cleanup"
  BY DEF StartCleanup
<1>3. CASE ctl[a].takeover
  <2>1. At(t, "dispose")
    BY <1>3 DEF StartCleanup
  <2> HIDE DEF t
  <2>2. Walk(t, "dispose", "idle")
    BY <1>0, <1>2 DEF Walk, FlowWalk, t
  <2> QED BY <1>0, <1>1, <2>1, <2>2, WalksTo DEF Pcs, t
<1>4. CASE ~ctl[a].takeover
  <2>1. at' = f2
    BY <1>4 DEF StartCleanup
  <2>2. q \in {"drain", "lock cleanup"}
    OBVIOUS
  <2>3. q \in Pcs /\ "flush" \in Pcs /\ at \in [Tasks -> TaskType]
    BY <2>2 DEF Pcs, TypeOK
  <2> HIDE DEF t, q
  <2>4. /\ f1 \in [Tasks -> TaskType] /\ \A u \in Tasks : u # t => f1[u] = at[u]
        /\ f1[t].pc = q /\ f1[t].since = at[t].since /\ f1[t].key = at[t].key
    BY <1>0, <2>3, AtPc
  <2> HIDE DEF f1
  <2>5. /\ f2 \in [Tasks -> TaskType] /\ \A u \in Tasks : u # t => f2[u] = f1[u]
        /\ f2[t].pc = q /\ f2[t].then = "flush" /\ f2[t].since = at[t].since
        /\ f2[t].key = at[t].key
    BY <1>0, <2>3, <2>4, AtThen
  <2> HIDE DEF f2
  <2>6. Moves(t, q, "flush", at[t].key) /\ at'[t].since \in {at[t].since, 0}
    BY <2>1, <2>4, <2>5 DEF Moves
  <2>7. Walk(t, q, "flush")
    <3>1. FlowWalk(a, q, "flush")
      BY <1>2, <2>2 DEF FlowWalk, t
    <3> QED BY <3>1, <1>0 DEF Walk, t
  <2>8. /\ Controls(a, ctl[a].held, ctl[a].users, ctl[a].drain, ctl'[a].takeover)
        /\ ctl[a].takeover => ctl'[a].takeover
        /\ FenceIs(a, ctl[a].fence)
    BY <1>1, KeptControls
  <2>9. Step(t)
    BY <1>0, <1>1, <2>6, <2>7, <2>8, WalkSteps
  <2> QED BY <2>9 DEF t
<1> QED BY <1>3, <1>4

\* A drain, or the wait for one, that finds no lock.
LEMMA OnwardWalk ==
    ASSUME TypeOK, NEW a \in Attempts, NEW t \in TasksOf(a), LockInv(a),
           at[t].pc \in {"drain", "idle users"}
    PROVE  /\ Onward(t) \in Pcs
           /\ t = Flow(a) => /\ Onward(t) \in {"results", "lock cleanup", "over"}
                             /\ at[t].then = "over" => Onward(t) = "over"
           /\ t = Agent(a) => Onward(t) = "stream"
           /\ t = AbortOf(a) => Onward(t) = "done"
           /\ t = Flow(a) \/ t = Agent(a) \/ t = AbortOf(a)
<1> DEFINE p == at[t].then
<1>1. at[t].pc \in DrainPcs
  BY DEF DrainPcs
<1>2. /\ t = Flow(a) => p \in {"results", "flush", "over"}
      /\ t = Agent(a) => p = "stream"
      /\ t = AbortOf(a) => p = "done"
      /\ t = Flow(a) \/ t = Agent(a) \/ t = AbortOf(a)
  BY <1>1, Drainers
<1>3. Onward(t) = IF p = "flush" THEN "lock cleanup" ELSE p
  BY DEF Onward
<1> HIDE DEF p
<1>4. /\ t = Flow(a) => /\ Onward(t) \in {"results", "lock cleanup", "over"}
                        /\ p = "over" => Onward(t) = "over"
      /\ t = Agent(a) => Onward(t) = "stream"
      /\ t = AbortOf(a) => Onward(t) = "done"
  BY <1>2, <1>3
<1>5. Onward(t) \in {"results", "lock cleanup", "over", "stream", "done"}
  BY <1>2, <1>4
<1>6. Onward(t) \in Pcs
  BY <1>5 DEF Pcs
<1> QED BY <1>2, <1>4, <1>6 DEF p

LEMMA BeginDrainSteps ==
    ASSUME TypeOK, NEW a \in Attempts, NEW t \in TasksOf(a), LockInv(a), BeginDrain(t)
    PROVE  Step(t)
<1>0. /\ t \in Tasks /\ t[1] = a /\ at[t].pc = "drain" /\ ctl[a].drain = None
      /\ UNCHANGED lock /\ Quiet(t)
  BY OwnTasks, Quietly DEF BeginDrain
<1> DEFINE c == [ctl[a] EXCEPT !.drain = t]
           q == "idle users"
           f == [at EXCEPT ![t].pc = q]
<1>1. Becomes(a, c) /\ at' = f
  BY <1>0 DEF BeginDrain
<1>2. ctl[a] \in CtlType /\ at \in [Tasks -> TaskType] /\ q \in Pcs
  BY DEF TypeOK, Pcs
<1>q. q = "idle users"
  OBVIOUS
<1> HIDE DEF q
<1>3. /\ c \in CtlType
      /\ c.held = ctl[a].held /\ c.fence = ctl[a].fence /\ c.takeover = ctl[a].takeover
      /\ c.users = ctl[a].users /\ c.drain = t
  BY <1>0, <1>2, CtlDrain
<1> HIDE DEF c
<1>4. /\ f \in [Tasks -> TaskType] /\ \A u \in Tasks : u # t => f[u] = at[u]
      /\ f[t].pc = q /\ f[t].then = at[t].then /\ f[t].since = at[t].since
      /\ f[t].key = at[t].key
  BY <1>0, <1>2, AtPc
<1> HIDE DEF f
<1>5. Controls(a, ctl[a].held, ctl[a].users, t, ctl[a].takeover) /\ FenceIs(a, ctl[a].fence)
  BY <1>1, <1>3, BecomesControls
<1>6. Moves(t, "idle users", at[t].then, at[t].key) /\ at'[t].since = at[t].since
  BY <1>1, <1>q, <1>4 DEF Moves
<1>7. Begins(t)
  BY <1>0, <1>5, <1>6 DEF Begins
<1>8. LockStep(t)
  BY <1>0, <1>5, <1>6, <1>7 DEF LockStep, Moves, Controls
<1>9. FlowData(t)
  <2>1. t = Flow(a) /\ Past(a) => Past(a)'
    BY <1>0, <1>6 DEF Past, Moves, DrainPcs
  <2> QED BY <1>0, <2>1 DEF FlowData, LocksForTurn
<1>10. at[t].pc \notin FencePcs \cup FencingPcs \cup LockedPcs \cup {"flush"}
  BY <1>0 DEF FencePcs, FencingPcs, LockedPcs
<1>11. at'[t].pc = "idle users"
  BY <1>6 DEF Moves
<1> QED BY <1>0, <1>5, <1>6, <1>8, <1>9, <1>10, <1>11, LockSteps

LEMMA CreateSteps ==
    ASSUME TypeOK, NEW a \in Attempts, LockInv(a), Create(a)
    PROVE  Step(Flow(a))
<1> DEFINE t == Flow(a)
           c == [ctl[a] EXCEPT !.held = t]
<1>0. /\ t \in TasksOf(a) /\ t \in Tasks /\ t[1] = a /\ at[t].pc = "create" /\ Quiet(t)
      /\ t = Flow(a) /\ t # Agent(a)
  BY OwnTasks, Quietly DEF Create
<1>1. ASSUME lock # None PROVE Step(t)
  <2>1. At(t, "over") /\ UNCHANGED <<lock, ctl>> /\ ctl[a].held = None
    BY <1>0, <1>1 DEF Create, LockInv, Phases
  <2> HIDE DEF t
  <2>2. Walk(t, "over", "idle")
    BY <1>0, <2>1 DEF Walk, FlowWalk
  <2>3. "over" \in Pcs
    BY DEF Pcs
  <2> QED BY <1>0, <2>1, <2>2, <2>3, WalksTo
<1>2. ASSUME lock = None PROVE Step(t)
  <2>1. lock' = t /\ Becomes(a, c) /\ At(t, "prepare")
    BY <1>2 DEF Create
  <2>2. ctl[a] \in CtlType /\ "prepare" \in Pcs
    BY DEF TypeOK, Pcs
  <2> HIDE DEF t
  <2>3. /\ c \in CtlType
        /\ c.held = t /\ c.fence = ctl[a].fence /\ c.takeover = ctl[a].takeover
        /\ c.users = ctl[a].users /\ c.drain = ctl[a].drain
    BY <1>0, <2>2, CtlHeld
  <2> HIDE DEF c
  <2>4. Controls(a, t, ctl[a].users, ctl[a].drain, ctl[a].takeover) /\ FenceIs(a, ctl[a].fence)
    BY <2>1, <2>3, BecomesControls
  <2>5. Moves(t, "prepare", "idle", None) /\ Knows(t, 0, 0, 0)
    BY <1>0, <2>1, <2>2, AtMoves
  <2>6. Creates(t)
    BY <1>0, <1>2, <2>1, <2>4, <2>5 DEF Creates
  <2>7. LockStep(t)
    BY <1>0, <2>4, <2>5, <2>6 DEF LockStep, Moves, Controls
  <2>8. FlowData(t)
    <3>1. ~Past(a)
      BY <1>0 DEF Past, DrainPcs, FencingPcs
    <3> QED BY <1>0, <2>6, <3>1 DEF FlowData, LocksForTurn
  <2>9. at[t].pc \notin FencePcs \cup FencingPcs \cup LockedPcs \cup {"flush"}
    BY <1>0 DEF FencePcs, FencingPcs, LockedPcs
  <2>10. at'[t].pc = "prepare" /\ at'[t].since = 0
    BY <2>5 DEF Moves, Knows
  <2> QED BY <1>0, <2>4, <2>7, <2>8, <2>9, <2>10, LockSteps
<1> QED BY <1>1, <1>2

\* The lock is not there to be had: the session is taken over.
LEMMA WalksTakenOver ==
    ASSUME TypeOK, NEW a \in Attempts, NEW t \in TasksOf(a), LockInv(a), NEW q \in Pcs,
           At(t, q), Walk(t, q, "idle"), UNCHANGED lock, Quiet(t),
           Becomes(a, [ctl[a] EXCEPT !.takeover = TRUE])
    PROVE  Step(t)
<1> DEFINE c == [ctl[a] EXCEPT !.takeover = TRUE]
<1>1. ctl[a] \in CtlType
  BY DEF TypeOK
<1>2. /\ c \in CtlType
      /\ c.held = ctl[a].held /\ c.fence = ctl[a].fence /\ c.takeover = TRUE
      /\ c.users = ctl[a].users /\ c.drain = ctl[a].drain
  BY <1>1, CtlTakeover
<1>3. Becomes(a, c)
  OBVIOUS
<1> HIDE DEF c
<1>4. /\ Controls(a, ctl[a].held, ctl[a].users, ctl[a].drain, TRUE)
      /\ FenceIs(a, ctl[a].fence)
  BY <1>2, <1>3, BecomesControls
<1>5. ctl'[a].takeover = TRUE
  BY <1>4 DEF Controls
<1>6. Moves(t, q, "idle", None) /\ at'[t].since \in {at[t].since, 0}
  BY AtMoves, OwnTasks DEF Knows
<1> QED BY <1>4, <1>5, <1>6, WalkSteps

\* t has the lock of k, and asserts the fence if there is one.
LEMMA FencedGoes ==
    ASSUME TypeOK, NEW a \in Attempts, NEW t \in TasksOf(a), NEW k \in Tasks, NEW pc \in Pcs,
           Fenced(t, k, pc), pc \notin FencePcs
    PROVE  \E q \in {"assert", pc} :
              /\ Moves(t, q, pc, k) /\ at'[t].pc = q /\ at'[t].since = Version
              /\ q = "assert" <=> ctl[a].fence.active
<1> DEFINE q == IF ctl[t[1]].fence.active THEN "assert" ELSE pc
<1>1. Moves(t, q, pc, k) /\ Knows(t, Version, 0, 0)
  BY FencedMoves, OwnTasks
<1>2. q \in {"assert", pc} /\ (q = "assert" <=> ctl[a].fence.active)
  BY OwnTasks DEF FencePcs
<1> HIDE DEF q
<1>3. at'[t].pc = q /\ at'[t].since = Version
  BY <1>1 DEF Moves, Knows
<1> QED BY <1>1, <1>2, <1>3

\* A step that ends with the lock and an assertion.
LEMMA FencedSteps ==
    ASSUME TypeOK, NEW a \in Attempts, NEW t \in TasksOf(a), LockStep(t), FlowData(t), Quiet(t),
           FenceIs(a, ctl[a].fence), at[t].pc \in {"write", "lock write", "lock turn",
                                                   "lock cleanup", "idle users"},
           NEW pc \in {"stat", "turn", "flush"}, NEW q \in {"assert", pc},
           at'[t].pc = q, at'[t].since = Version, q = "assert" <=> ctl[a].fence.active
    PROVE  Step(t)
<1>1. at[t].pc \notin FencePcs \cup FencingPcs \cup LockedPcs \cup {"flush"}
  BY DEF FencePcs, FencingPcs, LockedPcs
<1>2. /\ q \notin {"compare", "rewrite", "adopt", "free", "running", "ran", "over taken",
                   "published"}
      /\ q = "assert" => ctl[a].fence.active
      /\ q \in {"stat", "flush"} => ~ctl[a].fence.active
  OBVIOUS
<1> QED BY <1>1, <1>2, LockSteps

LEMMA LockForTurnSteps ==
    ASSUME TypeOK, NEW a \in Attempts, LockInv(a), LockForTurn(a)
    PROVE  Step(Agent(a))
<1> DEFINE t == Agent(a)
           c == [ctl[a] EXCEPT !.held = t]
<1>0. /\ t \in TasksOf(a) /\ t \in Tasks /\ t[1] = a /\ at[t].pc = "lock turn" /\ Quiet(t)
      /\ t = Agent(a) /\ t # Flow(a)
  BY OwnTasks, Quietly DEF LockForTurn
<1>1. ASSUME lock # None PROVE Step(t)
  <2>1. At(t, "turn") /\ UNCHANGED <<lock, ctl>>
    BY <1>1 DEF LockForTurn
  <2> HIDE DEF t
  <2>2. Walk(t, "turn", "idle")
    BY <1>0 DEF Walk, AgentWalk
  <2>3. "turn" \in Pcs
    BY DEF Pcs
  <2> QED BY <1>0, <2>1, <2>2, <2>3, WalksTo
<1>2. ASSUME lock = None PROVE Step(t)
  <2>1. lock' = t /\ Becomes(a, c) /\ Fenced(t, t, "turn")
    BY <1>2 DEF LockForTurn
  <2>2. ctl[a] \in CtlType /\ "turn" \in Pcs /\ "turn" \notin FencePcs
    BY DEF TypeOK, Pcs, FencePcs
  <2> HIDE DEF t
  <2>3. /\ c \in CtlType
        /\ c.held = t /\ c.fence = ctl[a].fence /\ c.takeover = ctl[a].takeover
        /\ c.users = ctl[a].users /\ c.drain = ctl[a].drain
    BY <1>0, <2>2, CtlHeld
  <2> HIDE DEF c
  <2>4. Controls(a, t, ctl[a].users, ctl[a].drain, ctl[a].takeover) /\ FenceIs(a, ctl[a].fence)
    BY <2>1, <2>3, BecomesControls
  <2>5. PICK q \in {"assert", "turn"} :
              /\ Moves(t, q, "turn", t) /\ at'[t].pc = q /\ at'[t].since = Version
              /\ q = "assert" <=> ctl[a].fence.active
    <3>1. t \in TasksOf(a) /\ t \in Tasks /\ Fenced(t, t, "turn")
      BY <1>0, <2>1
    <3> QED BY <3>1, <2>2, FencedGoes
  <2>6. LocksForTurn(t)
    BY <1>0, <1>2, <2>1, <2>4, <2>5 DEF LocksForTurn
  <2>7. LockStep(t)
    BY <1>0, <2>4, <2>5, <2>6 DEF LockStep, Moves, Controls
  <2>8. FlowData(t)
    BY <1>0, <2>5 DEF FlowData
  <2> QED BY <1>0, <2>4, <2>5, <2>7, <2>8, FencedSteps
<1> QED BY <1>1, <1>2

LEMMA LockForCleanupSteps ==
    ASSUME TypeOK, NEW a \in Attempts, LockInv(a), LockForCleanup(a)
    PROVE  Step(Flow(a))
<1> DEFINE t == Flow(a)
<1>0. /\ t \in TasksOf(a) /\ t \in Tasks /\ t[1] = a /\ at[t].pc = "lock cleanup" /\ Quiet(t)
      /\ t = Flow(a) /\ t # Agent(a) /\ ctl[a].drain = None
  BY OwnTasks, Quietly DEF LockForCleanup
<1>1. ASSUME lock # None PROVE Step(t)
  <2>1. At(t, "dispose") /\ UNCHANGED lock /\ Becomes(a, [ctl[a] EXCEPT !.takeover = TRUE])
    BY <1>1 DEF LockForCleanup
  <2> HIDE DEF t
  <2>2. Walk(t, "dispose", "idle")
    BY <1>0 DEF Walk, FlowWalk
  <2>3. "dispose" \in Pcs
    BY DEF Pcs
  <2> QED BY <1>0, <2>1, <2>2, <2>3, WalksTakenOver
<1>2. ASSUME lock = None PROVE Step(t)
  <2>1. lock' = t /\ UNCHANGED ctl /\ Fenced(t, t, "flush")
    BY <1>2 DEF LockForCleanup
  <2>2. "flush" \in Pcs /\ "flush" \notin FencePcs
    BY DEF Pcs, FencePcs
  <2> HIDE DEF t
  <2>4. Kept(a) /\ FenceIs(a, ctl[a].fence) /\ ctl' \in [Attempts -> CtlType]
    BY <2>1, CtlKept, KeptControls
  <2>5. PICK q \in {"assert", "flush"} :
              /\ Moves(t, q, "flush", t) /\ at'[t].pc = q /\ at'[t].since = Version
              /\ q = "assert" <=> ctl[a].fence.active
    <3>1. t \in TasksOf(a) /\ t \in Tasks /\ Fenced(t, t, "flush")
      BY <1>0, <2>1
    <3> QED BY <3>1, <2>2, FencedGoes
  <2>6. LocksForCleanup(t)
    BY <1>0, <1>2, <2>1, <2>4, <2>5 DEF LocksForCleanup
  <2>7. LockStep(t)
    BY <1>0, <2>1, <2>4, <2>5, <2>6 DEF LockStep, Moves
  <2>8. FlowData(t)
    <3>1. ~Past(a)
      BY <1>0 DEF Past, DrainPcs, FencingPcs
    <3> QED BY <1>0, <3>1 DEF FlowData, LocksForTurn
  <2> QED BY <1>0, <2>4, <2>5, <2>7, <2>8, FencedSteps
<1> QED BY <1>1, <1>2

LEMMA LockForWriteSteps ==
    ASSUME TypeOK, NEW a \in Attempts, NEW t \in TasksOf(a), LockInv(a), LockForWrite(t)
    PROVE  Step(t)
<1>0. /\ t \in Tasks /\ t[1] = a /\ at[t].pc = "lock write" /\ Quiet(t)
      /\ t = Flow(a) \/ Writer(t)
      /\ t # Agent(a)
  BY OwnTasks, Quietly, Preparing DEF LockForWrite
<1>1. ASSUME lock # None PROVE Step(t)
  <2> DEFINE q == IF t = Flow(a) THEN "cleanup" ELSE "done"
  <2>1. At(t, q) /\ UNCHANGED lock /\ Becomes(a, [ctl[a] EXCEPT !.takeover = TRUE])
    BY <1>0, <1>1 DEF LockForWrite
  <2>2. /\ t = Flow(a) => q = "cleanup"
        /\ t # Flow(a) => q = "done"
    OBVIOUS
  <2>3. q \in {"cleanup", "done"}
    OBVIOUS
  <2> HIDE DEF q
  <2>4. q \in Pcs
    BY <2>3 DEF Pcs
  <2>5. Walk(t, q, "idle")
    <3>1. t = Flow(a) => FlowWalk(a, q, "idle")
      BY <1>0, <2>2 DEF FlowWalk
    <3>2. Writer(t) => WriterWalk(t, q)
      BY <1>0, <2>2 DEF WriterWalk, Writer
    <3> QED BY <1>0, <3>1, <3>2 DEF Walk
  <2> QED BY <1>0, <2>1, <2>4, <2>5, WalksTakenOver
<1>2. ASSUME lock = None PROVE Step(t)
  <2>1. lock' = t /\ UNCHANGED ctl /\ Fenced(t, t, "stat")
    BY <1>2 DEF LockForWrite
  <2>2. "stat" \in Pcs /\ "stat" \notin FencePcs
    BY DEF Pcs, FencePcs
  <2>4. Kept(a) /\ FenceIs(a, ctl[a].fence) /\ ctl' \in [Attempts -> CtlType]
    BY <2>1, CtlKept, KeptControls
  <2>5. PICK q \in {"assert", "stat"} :
              /\ Moves(t, q, "stat", t) /\ at'[t].pc = q /\ at'[t].since = Version
              /\ q = "assert" <=> ctl[a].fence.active
    <3>1. t \in TasksOf(a) /\ t \in Tasks /\ Fenced(t, t, "stat")
      BY <1>0, <2>1
    <3> QED BY <3>1, <2>2, FencedGoes
  <2>6. LocksForWrite(t)
    BY <1>0, <1>2, <2>1, <2>4, <2>5 DEF LocksForWrite
  <2>7. LockStep(t)
    BY <1>0, <2>1, <2>4, <2>5, <2>6 DEF LockStep, Moves
  <2>8. FlowData(t)
    <3>1. t = Flow(a) => ~Past(a)
      BY <1>0 DEF Past, DrainPcs, FencingPcs
    <3> QED BY <1>0, <3>1, FlowDataIs
  <2> QED BY <1>0, <2>4, <2>5, <2>7, <2>8, FencedSteps
<1> QED BY <1>1, <1>2

LEMMA ShareOrAcquireSteps ==
    ASSUME TypeOK, NEW a \in Attempts, NEW t \in TasksOf(a), LockInv(a), ShareOrAcquire(t)
    PROVE  Step(t)
<1>0. /\ t \in Tasks /\ t[1] = a /\ at[t].pc = "write" /\ Quiet(t) /\ UNCHANGED lock
      /\ t = Flow(a) \/ Writer(t)
      /\ t # Agent(a) /\ ctl[a].drain = None
  BY OwnTasks, Quietly, Preparing DEF ShareOrAcquire
<1>1. ASSUME ctl[a].held = None PROVE Step(t)
  <2>1. At(t, "lock write") /\ UNCHANGED ctl
    BY <1>0, <1>1 DEF ShareOrAcquire
  <2>2. Walk(t, "lock write", "idle")
    <3>1. t = Flow(a) => FlowWalk(a, "lock write", "idle")
      BY <1>0 DEF FlowWalk
    <3>2. Writer(t) => WriterWalk(t, "lock write")
      BY <1>0 DEF WriterWalk
    <3> QED BY <1>0, <3>1, <3>2 DEF Walk
  <2>3. "lock write" \in Pcs
    BY DEF Pcs
  <2> QED BY <1>0, <2>1, <2>2, <2>3, WalksTo
<1>2. ASSUME ctl[a].held # None PROVE Step(t)
  <2> DEFINE k == ctl[a].held
             us == ctl[a].users \cup {t}
             c == [ctl[a] EXCEPT !.users = us]
  <2>1. Becomes(a, c) /\ Fenced(t, k, "stat")
    BY <1>0, <1>2 DEF ShareOrAcquire
  <2>2. "stat" \in Pcs /\ "stat" \notin FencePcs
    BY DEF Pcs, FencePcs
  <2>3. ctl[a] \in CtlType /\ k \in Tasks /\ us \in SUBSET Tasks
    <3>1. ctl[a] \in CtlType
      BY DEF TypeOK
    <3> QED BY <1>0, <1>2, <3>1 DEF CtlType
  <2>4. us = ctl[a].users \cup {t} /\ k = ctl[a].held
    OBVIOUS
  <2> HIDE DEF us, k
  <2>5. /\ c \in CtlType
        /\ c.held = k /\ c.fence = ctl[a].fence /\ c.takeover = ctl[a].takeover
        /\ c.users = us /\ c.drain = None
    BY <1>0, <2>3, <2>4, CtlUsers
  <2> HIDE DEF c
  <2>6. Controls(a, ctl[a].held, us, None, ctl[a].takeover) /\ FenceIs(a, ctl[a].fence)
    BY <2>1, <2>4, <2>5, BecomesControls
  <2>7. PICK q \in {"assert", "stat"} :
              /\ Moves(t, q, "stat", k) /\ at'[t].pc = q /\ at'[t].since = Version
              /\ q = "assert" <=> ctl[a].fence.active
    <3>1. t \in TasksOf(a) /\ k \in Tasks /\ Fenced(t, k, "stat")
      BY <1>0, <2>1, <2>3
    <3> QED BY <3>1, <2>2, FencedGoes
  <2>8. Shares(t)
    BY <1>0, <1>2, <2>4, <2>6, <2>7 DEF Shares
  <2>9. LockStep(t)
    BY <1>0, <2>6, <2>7, <2>8 DEF LockStep, Moves, Controls
  <2>10. FlowData(t)
    <3>1. t = Flow(a) => ~Past(a)
      BY <1>0 DEF Past, DrainPcs, FencingPcs
    <3> QED BY <1>0, <3>1, FlowDataIs
  <2> QED BY <1>0, <2>6, <2>7, <2>9, <2>10, FencedSteps
<1> QED BY <1>1, <1>2

\* What the controller is left with when a task takes its lock.
LEMMA HeldTaken ==
    ASSUME TypeOK, NEW a \in Attempts, NEW d \in {None, ctl[a].drain}, ctl[a].users = {},
           Becomes(a, [[ctl[a] EXCEPT !.held = None] EXCEPT !.drain = d])
    PROVE  Controls(a, None, {}, d, ctl[a].takeover) /\ FenceIs(a, ctl[a].fence)
<1> DEFINE c1 == [ctl[a] EXCEPT !.held = None]
           c2 == [c1 EXCEPT !.drain = d]
<1>1. ctl[a] \in CtlType /\ None \in Tasks \cup {None}
  BY DEF TypeOK
<1>2. d \in Tasks \cup {None}
  BY <1>1 DEF CtlType
<1>3. /\ c1 \in CtlType
      /\ c1.held = None /\ c1.fence = ctl[a].fence /\ c1.takeover = ctl[a].takeover
      /\ c1.users = ctl[a].users /\ c1.drain = ctl[a].drain
  BY <1>1, CtlHeld
<1>4. Becomes(a, c2)
  OBVIOUS
<1> HIDE DEF c1
<1>5. /\ c2 \in CtlType
      /\ c2.held = None /\ c2.fence = ctl[a].fence /\ c2.takeover = ctl[a].takeover
      /\ c2.users = ctl[a].users /\ c2.drain = d
  BY <1>2, <1>3, CtlDrain
<1> HIDE DEF c2
<1> QED BY <1>4, <1>5, BecomesControls

LEMMA TakeHeldSteps ==
    ASSUME TypeOK, NEW a \in Attempts, NEW t \in TasksOf(a), LockInv(a), TakeHeld(t)
    PROVE  Step(t)
<1> DEFINE k == ctl[a].held
           taken == [ctl[a] EXCEPT !.held = None]
           over == [taken EXCEPT !.drain = None]
<1>0. /\ t \in Tasks /\ t[1] = a /\ at[t].pc = "idle users" /\ Quiet(t)
      /\ ctl[a].users = {} /\ ctl[a].drain = t
  BY OwnTasks, Quietly, OneDrains DEF TakeHeld, Idle
<1>1. ctl[a] \in CtlType /\ (k # None => k \in Tasks) /\ ctl \in [Attempts -> CtlType]
  <2>1. ctl[a] \in CtlType /\ ctl \in [Attempts -> CtlType]
    BY DEF TypeOK
  <2> QED BY <2>1 DEF CtlType
<1>2. at[t].pc \notin FencePcs \cup FencingPcs \cup LockedPcs \cup {"flush"}
  BY <1>0 DEF FencePcs, FencingPcs, LockedPcs
<1>3. ASSUME Becomes(a, over)
      PROVE  Controls(a, None, {}, None, ctl[a].takeover) /\ FenceIs(a, ctl[a].fence)
  BY <1>0, <1>3, HeldTaken
<1>4. ASSUME at[t].then = "flush", k # None,
             Becomes(a, over), Fenced(t, k, "flush"), UNCHANGED lock
      PROVE  Step(t)
  <2>1. Controls(a, None, {}, None, ctl[a].takeover) /\ FenceIs(a, ctl[a].fence)
    BY <1>3, <1>4
  <2>2. k \in Tasks /\ "flush" \in Pcs /\ "flush" \notin FencePcs
    BY <1>1, <1>4 DEF Pcs, FencePcs
  <2>3. PICK q \in {"assert", "flush"} :
              /\ Moves(t, q, "flush", k) /\ at'[t].pc = q /\ at'[t].since = Version
              /\ q = "assert" <=> ctl[a].fence.active
    <3>1. Fenced(t, k, "flush")
      BY <1>4
    <3> HIDE DEF k
    <3> QED BY <3>1, <2>2, FencedGoes
  <2>4. TakesForCleanup(t)
    BY <1>0, <1>4, <2>1, <2>3 DEF TakesForCleanup
  <2>5. LockStep(t)
    BY <1>0, <2>1, <2>3, <2>4 DEF LockStep, Moves, Controls
  <2>6. FlowData(t)
    <3>1. t = Flow(a) => ~Past(a)
      BY <1>0, <1>4 DEF Past
    <3> QED BY <1>0, <3>1, FlowDataIs
  <2> QED BY <1>0, <2>1, <2>3, <2>5, <2>6, FencedSteps
<1>5. ASSUME at[t].then = "over", k # None, Becomes(a, over), At(t, "over"), Unlock(k)
      PROVE  Step(t)
  <2>1. Controls(a, None, {}, None, ctl[a].takeover) /\ FenceIs(a, ctl[a].fence)
    BY <1>3, <1>5
  <2>2. Moves(t, "over", "idle", None) /\ Knows(t, 0, 0, 0)
    BY <1>0, <1>5, AtMoves DEF Pcs
  <2>3. TakesToFree(t)
    BY <1>0, <1>5, <2>1, <2>2 DEF TakesToFree
  <2>4. LockStep(t)
    BY <1>0, <2>1, <2>2, <2>3 DEF LockStep, Moves, Controls
  <2>5. at'[t].pc = "over" /\ at'[t].since = 0
    BY <2>2 DEF Moves, Knows
  <2>6. FlowData(t)
    <3>1. t = Flow(a) => Past(a)'
      BY <2>5 DEF Past
    <3> QED BY <1>0, <3>1 DEF FlowData, LocksForTurn
  <2> QED BY <1>0, <1>2, <2>1, <2>4, <2>5, <2>6, LockSteps
<1>6. ASSUME at[t].then \notin {"flush", "over"}, k # None, Becomes(a, taken), UNCHANGED lock,
             at' = [at EXCEPT ![t].pc = "set fence", ![t].key = k, ![t].since = Version]
      PROVE  Step(t)
  <2> DEFINE q == "set fence"
             v == Version
             f1 == [at EXCEPT ![t].pc = q]
             f2 == [f1 EXCEPT ![t].key = k]
             f3 == [f2 EXCEPT ![t].since = v]
  <2>1. Controls(a, None, {}, ctl[a].drain, ctl[a].takeover) /\ FenceIs(a, ctl[a].fence)
    <3> DEFINE c == taken
    <3>1. /\ c \in CtlType
          /\ c.held = None /\ c.fence = ctl[a].fence /\ c.takeover = ctl[a].takeover
          /\ c.users = {} /\ c.drain = ctl[a].drain
      BY ZenonT(40), <1>0, <1>1, CtlHeld
    <3>2. Becomes(a, c)
      BY <1>6
    <3> HIDE DEF c
    <3> QED BY <3>1, <3>2, BecomesControls
  <2>2. at' = f3
    BY <1>6
  <2>3. q \in Pcs /\ k \in Tasks \cup {None} /\ v \in Nat /\ at \in [Tasks -> TaskType]
    BY <1>1, <1>6, VersionType DEF Pcs, TypeOK
  <2>4. q = "set fence" /\ k = ctl[a].held /\ v = Version
    OBVIOUS
  <2> HIDE DEF q, k, v
  <2>t. t \in Tasks
    BY <1>0
  <2>5. /\ f1 \in [Tasks -> TaskType] /\ \A u \in Tasks : u # t => f1[u] = at[u]
        /\ f1[t].pc = q /\ f1[t].then = at[t].then
    BY <2>t, <2>3, AtPc
  <2> HIDE DEF f1
  <2>6. /\ f2 \in [Tasks -> TaskType] /\ \A u \in Tasks : u # t => f2[u] = at[u]
        /\ f2[t].pc = q /\ f2[t].then = at[t].then /\ f2[t].key = k
    <3>1. /\ f2 \in [Tasks -> TaskType] /\ \A u \in Tasks : u # t => f2[u] = f1[u]
          /\ f2[t].pc = f1[t].pc /\ f2[t].then = f1[t].then /\ f2[t].key = k
      BY <2>t, <2>3, <2>5, AtKey
    <3> HIDE DEF f2
    <3> QED BY <3>1, <2>5
  <2> HIDE DEF f2
  <2>7. /\ f3 \in [Tasks -> TaskType] /\ \A u \in Tasks : u # t => f3[u] = at[u]
        /\ f3[t].pc = q /\ f3[t].then = at[t].then /\ f3[t].key = k /\ f3[t].since = v
    <3>1. /\ f3 \in [Tasks -> TaskType] /\ \A u \in Tasks : u # t => f3[u] = f2[u]
          /\ f3[t].pc = f2[t].pc /\ f3[t].then = f2[t].then /\ f3[t].key = f2[t].key
          /\ f3[t].since = v
      BY <2>t, <2>3, <2>6, AtSince
    <3> HIDE DEF f3
    <3> QED BY <3>1, <2>6
  <2> HIDE DEF f3
  <2>8. Moves(t, "set fence", at[t].then, ctl[a].held)
    BY <2>2, <2>4, <2>7 DEF Moves
  <2>9. at'[t].pc = "set fence" /\ at'[t].since = Version
    BY <2>2, <2>4, <2>7
  <2>10. TakesToFence(t)
    BY <1>0, <1>6, <2>1, <2>4, <2>8 DEF TakesToFence
  <2>11. LockStep(t)
    BY <1>0, <2>1, <2>8, <2>10 DEF LockStep, Moves, Controls
  <2>12. FlowData(t)
    <3>1. t = Flow(a) => ~Past(a)
      BY <1>0, <1>6 DEF Past
    <3> QED BY <1>0, <3>1, FlowDataIs
  <2> QED BY <1>0, <1>2, <2>1, <2>9, <2>11, <2>12, LockSteps
<1>7. ASSUME k = None, Becomes(a, over), At(t, Onward(t)), UNCHANGED lock
      PROVE  Step(t)
  <2> DEFINE q == Onward(t)
  <2>1. Controls(a, None, {}, None, ctl[a].takeover) /\ FenceIs(a, ctl[a].fence)
    BY <1>3, <1>7
  <2>2. /\ q \in Pcs
        /\ t = Flow(a) => q \in {"results", "lock cleanup", "over"}
        /\ t = Flow(a) => (at[t].then = "over" => q = "over")
        /\ t = Agent(a) => q = "stream"
        /\ t = AbortOf(a) => q = "done"
        /\ t = Flow(a) \/ t = Agent(a) \/ t = AbortOf(a)
    BY <1>0, OnwardWalk
  <2>3. Moves(t, q, "idle", None) /\ Knows(t, 0, 0, 0)
    BY <1>0, <1>7, <2>2, AtMoves
  <2>4. TakesNothing(t)
    BY <1>0, <1>7, <2>1, <2>3 DEF TakesNothing
  <2> HIDE DEF q
  <2>5. LockStep(t)
    BY <1>0, <2>1, <2>3, <2>4 DEF LockStep, Moves, Controls
  <2>6. at'[t].pc = q /\ at'[t].since = 0
    BY <2>3 DEF Moves, Knows
  <2>7. FlowData(t)
    <3>1. ASSUME t = Flow(a), Past(a) PROVE Past(a)'
      <4>1. at[t].then = "over"
        BY <1>0, <3>1 DEF Past
      <4> QED BY <2>2, <2>6, <3>1, <4>1 DEF Past
    <3> QED BY <1>0, <3>1 DEF FlowData, LocksForTurn
  <2>8. q \in {"results", "lock cleanup", "over", "stream", "done"}
    BY <2>2
  <2> QED BY <1>0, <1>2, <2>1, <2>5, <2>6, <2>7, <2>8, LockSteps
<1> QED
  <2>1. \/ /\ at[t].then = "flush" /\ k # None
           /\ Becomes(a, over) /\ Fenced(t, k, "flush") /\ UNCHANGED lock
        \/ /\ at[t].then = "over" /\ k # None
           /\ Becomes(a, over) /\ At(t, "over") /\ Unlock(k)
        \/ /\ at[t].then \notin {"flush", "over"} /\ k # None
           /\ Becomes(a, taken) /\ UNCHANGED lock
           /\ at' = [at EXCEPT ![t].pc = "set fence", ![t].key = k, ![t].since = Version]
        \/ /\ k = None
           /\ Becomes(a, over) /\ At(t, Onward(t)) /\ UNCHANGED lock
    BY <1>0 DEF TakeHeld
  <2> QED BY <2>1, <1>4, <1>5, <1>6, <1>7

\* Trusting a version: the state that is trusted, and a generation.
LEMMA TrustMoves ==
    ASSUME TypeOK, NEW t \in Tasks, NEW v \in ReadBy(t), Trust(v), UNCHANGED published
    PROVE  TrustData(t) /\ trusted'.gen > 0
<1>1. /\ trusted.gen \in Nat /\ lastGen \in Nat /\ lastGen + 1 > 0
      /\ trusted.gen # 0 => trusted.gen > 0
  BY DEF TypeOK
<1>2. ASSUME trusted.gen = 0 PROVE TrustData(t) /\ trusted'.gen > 0
  <2>1. trusted' = [ver |-> v, gen |-> lastGen + 1, base |-> v] /\ lastGen' = lastGen + 1
    BY <1>2 DEF Trust
  <2>2. trusted'.gen = lastGen + 1
    BY <2>1
  <2> QED BY <1>1, <1>2, <2>1, <2>2 DEF TrustData
<1>3. ASSUME trusted.gen # 0 PROVE TrustData(t) /\ trusted'.gen > 0
  BY <1>1, <1>3 DEF Trust, TrustData
<1> QED BY <1>2, <1>3

LEMMA TrustedGenType ==
    ASSUME TypeOK, NEW v \in Nat, NEW g \in Nat
    PROVE  TrustedGen(v, g) \in Nat
<1>1. trusted.gen \in Nat /\ lastGen + 1 \in Nat
  BY DEF TypeOK
<1> QED BY <1>1, Zenon DEF TrustedGen

LEMMA FenceTypes ==
    ASSUME TypeOK, NEW a \in Attempts
    PROVE  /\ ctl[a] \in CtlType /\ ctl[a].fence \in FenceType
           /\ ctl[a].fence.active \in BOOLEAN /\ ctl[a].fence.fp \in Nat
           /\ ctl[a].fence.snap \in Nat /\ ctl[a].fence.gen \in Nat
<1>1. ctl[a] \in CtlType
  BY DEF TypeOK
<1>2. ctl[a].fence \in FenceType
  BY <1>1 DEF CtlType
<1> QED BY <1>1, <1>2 DEF FenceType

\* Only the fence of the controller changes.
LEMMA FenceBecomes ==
    ASSUME TypeOK, NEW a \in Attempts, NEW g \in FenceType,
           Becomes(a, [ctl[a] EXCEPT !.fence = g])
    PROVE  Kept(a) /\ FenceIs(a, g)
<1> DEFINE c == [ctl[a] EXCEPT !.fence = g]
<1>1. /\ c \in CtlType
      /\ c.held = ctl[a].held /\ c.fence = g /\ c.takeover = ctl[a].takeover
      /\ c.users = ctl[a].users /\ c.drain = ctl[a].drain
  BY FenceTypes, CtlFence
<1>2. Becomes(a, c)
  OBVIOUS
<1> HIDE DEF c
<1> QED BY <1>1, <1>2, BecomesControls DEF Kept

LEMMA SetFenceSteps ==
    ASSUME TypeOK, NEW a \in Attempts, NEW t \in TasksOf(a), LockInv(a), SetFence(t)
    PROVE  Step(t)
<1>0. t \in Tasks /\ t[1] = a /\ at[t].pc = "set fence" /\ UNCHANGED lock
  BY OwnTasks DEF SetFence
<1> DEFINE gen(v) == IF published.gen > 0 /\ published.ver = v
                     THEN published.gen ELSE TrustedGen(v, ctl[a].fence.gen)
<1>1. PICK v \in ReadBy(t) :
          /\ Becomes(a, [ctl[a] EXCEPT !.fence.fp = v])
          /\ Trust(v)
          /\ at' = [at EXCEPT ![t].pc = "free", ![t].since = Version, ![t].read = gen(v)]
  BY <1>0 DEF SetFence
<1>2. v \in Nat /\ v \in 0..Version /\ Version \in Nat /\ Version = Len(log)
  <2>1. v \in Nat /\ v <= Version /\ Version \in Nat
    BY <1>0, <1>1, ReadByType
  <2> QED BY <2>1 DEF Version
<1>3. gen(v) \in Nat
  <2>1. published.gen \in Nat
    BY DEF TypeOK
  <2>2. TrustedGen(v, ctl[a].fence.gen) \in Nat
    BY <1>2, FenceTypes, TrustedGenType
  <2> QED BY <2>1, <2>2, Zenon
<1> DEFINE q == "free"
           r == gen(v)
           f1 == [at EXCEPT ![t].pc = q]
           f2 == [f1 EXCEPT ![t].since = Version]
           f3 == [f2 EXCEPT ![t].read = r]
<1>4. at' = f3 /\ r \in Nat /\ q \in Pcs /\ q = "free" /\ at \in [Tasks -> TaskType]
  BY <1>1, <1>3 DEF Pcs, TypeOK
<1>t. t \in Tasks /\ Version \in Nat
  BY <1>0, <1>2
<1> HIDE DEF q, r
<1>5. /\ f1 \in [Tasks -> TaskType] /\ \A u \in Tasks : u # t => f1[u] = at[u]
      /\ f1[t].pc = q /\ f1[t].then = at[t].then /\ f1[t].key = at[t].key
  BY <1>t, <1>4, AtPc
<1> HIDE DEF f1
<1>6. /\ f2 \in [Tasks -> TaskType] /\ \A u \in Tasks : u # t => f2[u] = f1[u]
      /\ f2[t].pc = f1[t].pc /\ f2[t].then = f1[t].then /\ f2[t].key = f1[t].key
      /\ f2[t].since = Version
  BY <1>t, <1>5, AtSince
<1> HIDE DEF f2
<1>7. /\ f3 \in [Tasks -> TaskType] /\ \A u \in Tasks : u # t => f3[u] = f2[u]
      /\ f3[t].pc = f2[t].pc /\ f3[t].then = f2[t].then /\ f3[t].key = f2[t].key
      /\ f3[t].since = f2[t].since
  BY <1>t, <1>4, <1>6, AtRead
<1> HIDE DEF f3
<1>8. Moves(t, "free", at[t].then, at[t].key) /\ at'[t].since = Version /\ at'[t].pc = "free"
  BY <1>4, <1>5, <1>6, <1>7 DEF Moves
<1> HIDE DEF gen
<1> DEFINE f == ctl[a].fence
           g == [f EXCEPT !.fp = v]
<1>9. f \in FenceType /\ f = ctl[a].fence /\ Becomes(a, [ctl[a] EXCEPT !.fence = g])
  BY <1>1, FenceTypes
<1> HIDE DEF f
<1>10. /\ g \in FenceType
       /\ g.active = f.active /\ g.fp = v /\ g.snap = f.snap /\ g.text = f.text /\ g.gen = f.gen
  BY <1>2, <1>9, FenceFp
<1> HIDE DEF g
<1>11. Kept(a) /\ FenceIs(a, g)
  BY <1>9, <1>10, FenceBecomes
<1>12. /\ t = Flow(a) \/ t = Agent(a) \/ t = AbortOf(a)
       /\ t = Flow(a) => at[t].then = "results"
       /\ t = Agent(a) => at[t].then = "stream"
       /\ t = AbortOf(a) => at[t].then = "done"
       /\ ~Writing(t) /\ ~Cleaning(t) /\ ~Asserts(t, "turn") /\ ~Resting(t)
       /\ Fencing(t)
  <2>1. at[t].pc \in DrainPcs /\ Fencing(t)
    BY <1>0 DEF DrainPcs, FencingPcs, Fencing
  <2> QED BY <2>1, Drainers
<1>13. ~Writing(t)' /\ ~Cleaning(t)' /\ ~Asserts(t, "turn")' /\ Fencing(t)'
  BY <1>8 DEF Writing, Cleaning, Asserts, Fencing, FencePcs, FencingPcs, LockedPcs
<1>14. Alike(t)
  <2>1. Placed(t)'
    <3>1. at'[t].pc = "free" /\ at'[t].then = at[t].then
      BY <1>8 DEF Moves
    <3>2. t = Flow(a) => FlowAt(t)'
      BY <1>12, <3>1 DEF FlowAt, DrainPcs, FencingPcs
    <3>3. t = Agent(a) => AgentAt(t)'
      BY <1>12, <3>1 DEF AgentAt, DrainPcs, FencingPcs
    <3>4. t = AbortOf(a) => AbortAt(t)'
      BY <1>12, <3>1 DEF AbortAt, DrainPcs, FencingPcs
    <3> QED BY <1>0, <1>12, <3>2, <3>3, <3>4 DEF Placed, Writer
  <2>2. InPhase(t)
    BY <1>0, <1>8, <1>12 DEF InPhase
  <2>3. Controls(a, ctl[a].held, ctl[a].users, ctl[a].drain, ctl'[a].takeover)
    BY <1>11 DEF Kept, Controls
  <2>4. ctl[a].takeover => ctl'[a].takeover
    BY <1>11 DEF Kept, Controls
  <2>5. at'[t].key = at[t].key
    BY <1>8 DEF Moves
  <2> QED BY <1>0, <1>8, <1>12, <1>13, <2>1, <2>2, <2>3, <2>4, <2>5 DEF Alike
<1>15. LockStep(t)
  BY <1>0, <1>8, <1>11, <1>14 DEF LockStep, Moves, Kept, Controls
<1>16. FlowData(t)
  <2>1. t = Flow(a) => ~Past(a)
    BY <1>0, <1>12 DEF Past
  <2> QED BY <1>0, <2>1, FlowDataIs
<1>17. TrustData(t) /\ trusted'.gen > 0
  BY <1>0, <1>1, TrustMoves DEF SetFence
<1>18. /\ UNCHANGED <<log, intruded>>
       /\ owner' \in Attempts \cup {None} /\ streams' \in [Attempts -> Nat]
  BY DEF SetFence, FileKept, RestKept, TypeOK
<1>19. TaskData(t)
  <2>1. at'[t].since \in {at[t].since} \cup 0..Len(log') /\ log' = log
    BY <1>2, <1>8, <1>18, Counts
  <2>2. at[t].pc \notin FencePcs /\ at'[t].pc \notin FencePcs \cup LockedPcs \cup {"flush"}
    BY <1>0, <1>8 DEF FencePcs, LockedPcs
  <2> QED BY <1>8, <1>17, <2>1, <2>2, Zenon DEF TaskData
<1>20. FenceData(t)
  <2>1. ctl'[a].fence = g /\ g.fp \in 0..Len(log')
    BY <1>2, <1>10, <1>11, <1>18 DEF FenceIs
  <2>2. at[t].pc \in FencingPcs /\ at[t].pc # "free"
    BY <1>0 DEF FencingPcs
  <2> QED BY <1>0, <1>9, <1>10, <2>1, <2>2 DEF FenceData
<1> QED BY <1>15, <1>16, <1>17, <1>18, <1>19, <1>20 DEF Step

LEMMA FreeSteps ==
    ASSUME TypeOK, NEW a \in Attempts, NEW t \in TasksOf(a), LockInv(a), Ready(t), Free(t)
    PROVE  Step(t)
<1>0. /\ t \in Tasks /\ t[1] = a /\ at[t].pc = "free" /\ Quiet(t)
      /\ Unlock(at[t].key) /\ At(t, at[t].then) /\ trusted.gen > 0
  BY OwnTasks, Quietly DEF Free, Ready
<1> DEFINE f == ctl[a].fence
           r == at[t].read
           fences(s) == [f EXCEPT !.active = TRUE, !.snap = s, !.text = TRUE, !.gen = r]
<1>1. PICK s \in ReadBy(t) :
          Becomes(a, [ctl[a] EXCEPT !.drain = None, !.fence = fences(s)])
  BY <1>0 DEF Free
<1>2. s \in Nat /\ s \in 0..Version /\ Version \in Nat /\ Version = Len(log) /\ r \in Nat
  <2>1. s \in Nat /\ s <= Version /\ Version \in Nat
    BY <1>0, <1>1, ReadByType
  <2> QED BY <1>0, <2>1, TaskAt DEF Version
<1> DEFINE g1 == [f EXCEPT !.active = TRUE]
           g2 == [g1 EXCEPT !.snap = s]
           g3 == [g2 EXCEPT !.text = TRUE]
           g == [g3 EXCEPT !.gen = r]
           c1 == [ctl[a] EXCEPT !.drain = None]
           c == [c1 EXCEPT !.fence = g]
<1>3. Becomes(a, c)
  BY <1>1
<1>4. f \in FenceType /\ f = ctl[a].fence /\ ctl[a] \in CtlType
  BY FenceTypes
<1>5. /\ c1 \in CtlType
      /\ c1.held = ctl[a].held /\ c1.takeover = ctl[a].takeover
      /\ c1.users = ctl[a].users /\ c1.drain = None
  BY <1>4, CtlDrain
<1> HIDE DEF f, r, c1
<1>6. g1 \in FenceType /\ g1.active = TRUE /\ g1.fp = f.fp
  BY <1>4, FenceActive
<1> HIDE DEF g1
<1>7. g2 \in FenceType /\ g2.active = TRUE /\ g2.fp = f.fp /\ g2.snap = s
  BY <1>2, <1>6, FenceSnap
<1> HIDE DEF g2
<1>8. g3 \in FenceType /\ g3.active = TRUE /\ g3.fp = f.fp /\ g3.snap = s
  BY <1>7, FenceText
<1> HIDE DEF g3
<1>9. g \in FenceType /\ g.active = TRUE /\ g.fp = f.fp /\ g.snap = s
  BY <1>2, <1>8, FenceGen
<1> HIDE DEF g
<1>10. /\ c \in CtlType
       /\ c.held = ctl[a].held /\ c.takeover = ctl[a].takeover
       /\ c.users = ctl[a].users /\ c.drain = None /\ c.fence = g
  BY <1>5, <1>9, CtlFence
<1> HIDE DEF c
<1>11. Controls(a, ctl[a].held, ctl[a].users, None, ctl[a].takeover) /\ FenceIs(a, g)
  BY <1>3, <1>10, BecomesControls
<1>12. /\ t = Flow(a) \/ t = Agent(a) \/ t = AbortOf(a)
       /\ t = Flow(a) => at[t].then = "results"
       /\ t = Agent(a) => at[t].then = "stream"
       /\ t = AbortOf(a) => at[t].then = "done"
  <2>1. at[t].pc \in DrainPcs /\ Fencing(t)
    BY <1>0 DEF DrainPcs, FencingPcs, Fencing
  <2> QED BY <2>1, Drainers
<1>13. Moves(t, at[t].then, "idle", None) /\ Knows(t, 0, 0, 0)
  BY <1>0, TaskAt, AtMoves
<1>14. at'[t].pc = at[t].then /\ at'[t].since = 0
  BY <1>13 DEF Moves, Knows
<1>15. Frees(t)
  BY <1>0, <1>11, <1>13 DEF Frees
<1>16. LockStep(t)
  BY <1>0, <1>11, <1>13, <1>15 DEF LockStep, Moves, Controls
<1>17. FlowData(t)
  <2>1. t = Flow(a) => ~Past(a)
    BY <1>0, <1>12 DEF Past
  <2> QED BY <1>0, <2>1, FlowDataIs
<1>18. log' = log /\ TrustData(t)
  BY <1>0 DEF Quiet, TrustData
<1>19. TaskData(t)
  <2>1. at'[t].since \in {at[t].since} \cup 0..Len(log')
    BY <1>2, <1>14, <1>18, Counts
  <2>2. at[t].pc \notin FencePcs
    BY <1>0 DEF FencePcs
  <2>3. at'[t].pc \in {"results", "stream", "done"}
    BY <1>12, <1>14
  <2>4. at'[t].pc \notin FencePcs \cup LockedPcs \cup {"flush", "free"}
    BY <2>3 DEF FencePcs, LockedPcs
  <2>5. at'[t].pc \notin {"stat", "running", "ran", "assert", "rewrite", "adopt"}
    BY <2>3
  <2> QED BY <1>18, <2>1, <2>2, <2>4, <2>5, Zenon DEF TaskData
<1>20. FenceData(t)
  <2>1. ctl'[a].fence = g /\ g.snap \in 0..Len(log')
    BY <1>2, <1>9, <1>11, <1>18 DEF FenceIs
  <2>2. at[t].pc \in FencingPcs
    BY <1>0 DEF FencingPcs
  <2> QED BY <1>0, <1>4, <1>9, <2>1, <2>2 DEF FenceData
<1> QED BY <1>0, <1>16, <1>17, <1>18, <1>19, <1>20 DEF Step, Quiet

-----------------------------------------------------------------------------
(* Steps of those who write *)

\* Who has the lock to write is the flow or a writer.
LEMMA Lockers ==
    ASSUME NEW a \in Attempts, NEW t \in TasksOf(a), LockInv(a), Writing(t)
    PROVE  /\ t \in Tasks /\ t[1] = a /\ t # Agent(a) /\ t # AbortOf(a)
           /\ t = Flow(a) \/ Writer(t)
           /\ ~Cleaning(t) /\ ~Fencing(t) /\ ~Resting(t) /\ ~Asserts(t, "turn")
           /\ t = Flow(a) => ~Past(a) /\ at[t].pc \notin {"idle", "create"}
           /\ at[t].pc \notin FencingPcs
<1>0. t \in Tasks /\ t[1] = a
  BY OwnTasks
<1>1. t # Agent(a) /\ t # AbortOf(a)
  BY Workers
<1>2. t = Flow(a) \/ Writer(t)
  BY <1>0, <1>1 DEF Writer
<1>3. ~Cleaning(t) /\ ~Fencing(t) /\ ~Resting(t) /\ ~Asserts(t, "turn")
  BY Exclusive
<1>4. at[t].pc \notin {"idle", "create", "dispose", "over"} /\ at[t].pc \notin DrainPcs
  BY DEF Writing, Asserts, FencePcs, LockedPcs, DrainPcs, FencingPcs
<1>5. t = Flow(a) => ~Past(a)
  BY <1>4 DEF Past
<1>6. at[t].pc \notin FencingPcs
  BY <1>4 DEF DrainPcs
<1> QED BY <1>0, <1>1, <1>2, <1>3, <1>4, <1>5, <1>6

\* t goes on with its write.
LEMMA WorkMoves ==
    ASSUME TypeOK, NEW a \in Attempts, NEW t \in TasksOf(a), LockInv(a), at[t].pc \in LockedPcs,
           NEW q \in LockedPcs, NEW p, Moves(t, q, p, at[t].key), Kept(a), UNCHANGED lock,
           t = Flow(a) => q # "published"
    PROVE  LockStep(t) /\ FlowData(t)
<1>0. at'[t].pc = q /\ at'[t].key = at[t].key /\ Writing(t)
  BY DEF Moves, Writing
<1>1. /\ t \in Tasks /\ t[1] = a /\ t # Agent(a) /\ t # AbortOf(a)
      /\ t = Flow(a) \/ Writer(t)
      /\ ~Cleaning(t) /\ ~Fencing(t) /\ ~Resting(t) /\ ~Asserts(t, "turn")
      /\ t = Flow(a) => ~Past(a) /\ at[t].pc \notin {"idle", "create"}
  BY <1>0, Lockers
<1>2. Writing(t)' /\ ~Cleaning(t)' /\ ~Fencing(t)' /\ ~Asserts(t, "turn")'
  BY <1>0 DEF Writing, Cleaning, Fencing, Asserts, FencePcs, FencingPcs, LockedPcs
<1>3. Placed(t)'
  <2>1. t = Flow(a) => FlowAt(t)'
    BY <1>0 DEF FlowAt
  <2>2. WriterAt(t)'
    BY <1>0 DEF WriterAt
  <2> QED BY <1>1, <2>1, <2>2 DEF Placed
<1>4. q \notin {"idle", "create", "prepare", "over", "drained", "lock turn", "idle users"}
  BY DEF LockedPcs
<1>5. at[t].pc # "prompt" /\ at[t].pc # "idle users"
  BY DEF LockedPcs
<1>6. InPhase(t)
  BY <1>0, <1>1, <1>4, <1>5 DEF InPhase
<1>7. /\ Controls(a, ctl[a].held, ctl[a].users, ctl[a].drain, ctl'[a].takeover)
      /\ ctl[a].takeover => ctl'[a].takeover
  BY DEF Kept, Controls
<1>8. Alike(t)
  BY <1>0, <1>1, <1>2, <1>3, <1>4, <1>5, <1>6, <1>7 DEF Alike
<1>9. LockStep(t)
  BY <1>1, <1>8 DEF LockStep, Moves, Kept, Controls
<1>10. FlowData(t)
  BY <1>1, FlowDataIs
<1> QED BY <1>9, <1>10

\* t is done with its write, and its controller becomes c.
LEMMA WriteEndsMoves ==
    ASSUME TypeOK, NEW a \in Attempts, NEW t \in TasksOf(a), LockInv(a), Writing(t),
           NEW c \in CtlType, WriteEnds(t, c), ctl[a].takeover => c.takeover,
           c.held = ctl[a].held, c.users = ctl[a].users, c.drain = ctl[a].drain
    PROVE  /\ Ends(t) /\ LockStep(t) /\ FlowData(t) /\ FenceIs(a, c.fence)
           /\ at'[t].pc \in {"cleanup", "done"} /\ at'[t].since = 0
<1>0. /\ t \in Tasks /\ t[1] = a
      /\ t # Agent(a)
      /\ t = Flow(a) => ~Past(a) /\ at[t].pc \notin {"idle", "create"}
  BY Lockers
<1> DEFINE us == c.users \ {t}
           d == [c EXCEPT !.users = us]
           q == IF t = Flow(a) THEN "cleanup" ELSE "done"
<1>1. Becomes(a, d) /\ At(t, q) /\ (IF t \in c.users THEN UNCHANGED lock ELSE Unlock(t))
  BY <1>0 DEF WriteEnds
<1>2. us \in SUBSET Tasks
  BY DEF CtlType
<1>3. /\ us = ctl[a].users \ {t}
      /\ t = Flow(a) => q = "cleanup"
      /\ t # Flow(a) => q = "done"
      /\ q \in {"cleanup", "done"}
  OBVIOUS
<1> HIDE DEF us, q
<1>4. /\ d \in CtlType
      /\ d.held = c.held /\ d.fence = c.fence /\ d.takeover = c.takeover
      /\ d.users = us /\ d.drain = c.drain
  BY <1>2, CtlUsers
<1> HIDE DEF d
<1>5. /\ Controls(a, ctl[a].held, us, ctl[a].drain, c.takeover)
      /\ FenceIs(a, c.fence)
  BY <1>1, <1>4, BecomesControls
<1>6. q \in Pcs
  BY <1>3 DEF Pcs
<1>7. Moves(t, q, "idle", None) /\ Knows(t, 0, 0, 0)
  BY <1>0, <1>1, <1>6, AtMoves
<1>8. at'[t].pc = q /\ at'[t].since = 0
  BY <1>7 DEF Moves, Knows
<1>9. Ends(t)
  <2>1. ctl'[a].takeover = c.takeover
    BY <1>5 DEF Controls
  <2>2. lock' = IF t \notin ctl[a].users /\ lock = t THEN None ELSE lock
    BY <1>1 DEF Unlock
  <2>3. Moves(t, IF t = Flow(a) THEN "cleanup" ELSE "done", "idle", None)
    BY <1>3, <1>7
  <2> QED BY <1>0, <1>3, <1>5, <2>1, <2>2, <2>3 DEF Ends
<1>10. LockStep(t)
  BY <1>0, <1>5, <1>7, <1>9 DEF LockStep, Throws, Moves, Controls
<1>11. FlowData(t)
  BY <1>0, FlowDataIs
<1> QED BY <1>3, <1>5, <1>8, <1>9, <1>10, <1>11

\* A step that ends a write, whatever it does to the fence and what is trusted.
LEMMA EndSteps ==
    ASSUME TypeOK, NEW a \in Attempts, NEW t \in TasksOf(a), Ends(t), LockStep(t), FlowData(t),
           at'[t].pc \in {"cleanup", "done"}, at'[t].since = 0, FileKept, RestKept,
           FenceData(t), TrustData(t)
    PROVE  Step(t)
<1>1. UNCHANGED intruded /\ log' = log /\ Len(log) \in Nat
  BY VersionType DEF FileKept, Version
<1>2. owner' \in Attempts \cup {None} /\ streams' \in [Attempts -> Nat]
  BY DEF RestKept, TypeOK
<1>3. at'[t].since \in {at[t].since} \cup 0..Len(log')
  BY <1>1, Counts
<1>4. /\ at'[t].pc \notin FencePcs \cup LockedPcs \cup {"flush", "free"}
      /\ at'[t].pc \notin {"stat", "running", "ran", "assert", "rewrite", "adopt"}
  BY DEF FencePcs, LockedPcs
<1>5. TaskData(t)
  BY <1>1, <1>3, <1>4, Zenon DEF TaskData, Throws
<1> QED BY <1>1, <1>2, <1>5 DEF Step

\* The fence stays as it is.
LEMMA FenceStays ==
    ASSUME NEW a \in Attempts, NEW t \in TasksOf(a), FenceIs(a, ctl[a].fence),
           at[t].pc \notin FencingPcs
    PROVE  FenceData(t)
  BY OwnTasks DEF FenceData, FenceIs, FencingPcs

LEMMA StatBeforeSteps ==
    ASSUME TypeOK, NEW a \in Attempts, NEW t \in TasksOf(a), LockInv(a), StatBefore(t)
    PROVE  Step(t)
<1>0. /\ at[t].pc = "stat" /\ UNCHANGED <<lock, ctl>> /\ Quiet(t)
      /\ at[t].pc \in LockedPcs /\ Writing(t) /\ t \in Tasks /\ t[1] = a
  BY Quietly, OwnTasks DEF StatBefore, LockedPcs, Writing
<1>1. PICK v \in ReadBy(t) :
          at' = [at EXCEPT ![t] = [Task EXCEPT !.pc = "running", !.read = v, !.key = at[t].key]]
  BY DEF StatBefore
<1>2. v \in Nat /\ Version \in Nat /\ Version = Len(log)
  <2>1. v \in Nat /\ Version \in Nat
    BY <1>0, <1>1, ReadByType
  <2> QED BY <2>1 DEF Version
<1> DEFINE q == "running"
           k == at[t].key
           x1 == [Task EXCEPT !.pc = q]
           x2 == [x1 EXCEPT !.read = v]
           x3 == [x2 EXCEPT !.key = k]
<1>3. at' = [at EXCEPT ![t] = x3]
  BY <1>1
<1>4. q \in Pcs /\ k \in Tasks \cup {None} /\ q = "running" /\ k = at[t].key
  BY <1>0, TaskAt DEF Pcs
<1> HIDE DEF q, k
<1>5. x1 \in TaskType /\ x1.pc = q /\ x1.then = "idle" /\ x1.since = 0
  BY <1>4, TaskFields, SetPc
<1> HIDE DEF x1
<1>6. x2 \in TaskType /\ x2.pc = q /\ x2.then = "idle" /\ x2.since = 0 /\ x2.read = v
  BY <1>2, <1>5, SetRead
<1> HIDE DEF x2
<1>7. /\ x3 \in TaskType
      /\ x3.pc = q /\ x3.then = "idle" /\ x3.since = 0 /\ x3.read = v /\ x3.key = k
  BY <1>4, <1>6, SetKey
<1> HIDE DEF x3
<1>8. Moves(t, q, "idle", k) /\ Knows(t, 0, v, x3.seen)
  BY <1>0, <1>3, <1>7, TaskMoves
<1>9. at'[t].pc = "running" /\ at'[t].since = 0 /\ at'[t].read = v
  BY <1>4, <1>8 DEF Moves, Knows
<1>10. Kept(a) /\ FenceIs(a, ctl[a].fence)
  BY <1>0, CtlKept
<1>11. LockStep(t) /\ FlowData(t)
  <2>1. q \in LockedPcs /\ q # "published" /\ Moves(t, q, "idle", at[t].key)
    BY <1>4, <1>8 DEF LockedPcs
  <2> QED BY <1>0, <1>10, <2>1, WorkMoves
<1>12. log' = log /\ TrustData(t)
  BY <1>0 DEF Quiet, TrustData
<1>13. TaskData(t)
  <2>1. at'[t].since \in {at[t].since} \cup 0..Len(log')
    BY <1>2, <1>9, <1>12, Counts
  <2>2. at[t].pc \notin FencePcs /\ at'[t].pc \notin FencePcs
    BY <1>0, <1>9 DEF FencePcs
  <2>3. at'[t].pc \notin {"stat", "ran", "free", "assert", "rewrite", "adopt"}
    BY <1>9
  <2> QED BY <1>0, <1>1, <1>9, <1>12, <2>1, <2>2, <2>3, Zenon DEF TaskData
<1>14. FenceData(t)
  <2>1. at[t].pc \notin FencingPcs
    BY <1>0 DEF FencingPcs
  <2> QED BY <1>10, <2>1, FenceStays
<1> QED BY <1>0, <1>11, <1>12, <1>13, <1>14 DEF Step, Quiet

LEMMA EndAfterTakeoverSteps ==
    ASSUME TypeOK, NEW a \in Attempts, NEW t \in TasksOf(a), LockInv(a), EndAfterTakeover(t)
    PROVE  Step(t)
<1>0. /\ at[t].pc = "over taken" /\ WriteEnds(t, ctl[a]) /\ FileKept /\ TrustKept /\ RestKept
      /\ Writing(t) /\ ctl[a] \in CtlType
  BY OwnTasks, FenceTypes DEF EndAfterTakeover, Writing, LockedPcs
<1>1. /\ Ends(t) /\ LockStep(t) /\ FlowData(t) /\ FenceIs(a, ctl[a].fence)
      /\ at'[t].pc \in {"cleanup", "done"} /\ at'[t].since = 0
  BY <1>0, WriteEndsMoves
<1>2. FenceData(t)
  BY <1>0, <1>1, FenceStays DEF FencingPcs
<1>3. TrustData(t)
  BY <1>0 DEF TrustKept, TrustData
<1> QED BY <1>0, <1>1, <1>2, <1>3, EndSteps

\* The controller with another fence.
LEMMA WithFence ==
    ASSUME TypeOK, NEW a \in Attempts, NEW g \in FenceType
    PROVE  LET c == [ctl[a] EXCEPT !.fence = g]
           IN  /\ c \in CtlType
               /\ c.held = ctl[a].held /\ c.fence = g /\ c.takeover = ctl[a].takeover
               /\ c.users = ctl[a].users /\ c.drain = ctl[a].drain
  BY FenceTypes, CtlFence

\* A fence that moves to what t has read, and stays active.
LEMMA FenceGoes ==
    ASSUME TypeOK, NEW a \in Attempts, NEW t \in TasksOf(a), NEW g, FenceIs(a, g),
           at[t].pc \in LockedPcs, ctl[a].fence.active => g.active,
           g.active => ctl[a].fence.active,
           g.fp \in {ctl[a].fence.fp} \cup 0..Len(log'),
           g.snap \in {ctl[a].fence.snap} \cup 0..Len(log')
    PROVE  FenceData(t)
<1>1. t[1] = a /\ ctl'[a].fence = g /\ at[t].pc # "free"
  BY OwnTasks DEF FenceIs, LockedPcs
<1> QED BY <1>1 DEF FenceData

LEMMA RefreshSteps ==
    ASSUME TypeOK, NEW a \in Attempts, NEW t \in TasksOf(a), LockInv(a), Refresh(t)
    PROVE  Step(t)
<1>0. /\ at[t].pc = "ran" /\ FileKept /\ TrustKept /\ RestKept /\ t[1] = a /\ t \in Tasks
      /\ Writing(t) /\ ctl[a] \in CtlType /\ at[t].pc \in LockedPcs
  BY OwnTasks, FenceTypes DEF Refresh, Writing, LockedPcs
<1>1. TrustData(t)
  BY <1>0 DEF TrustKept, TrustData
<1>2. ASSUME WriteEnds(t, ctl[a]) PROVE Step(t)
  <2>1. /\ Ends(t) /\ LockStep(t) /\ FlowData(t) /\ FenceIs(a, ctl[a].fence)
        /\ at'[t].pc \in {"cleanup", "done"} /\ at'[t].since = 0
    BY <1>0, <1>2, WriteEndsMoves
  <2>2. FenceData(t)
    BY <1>0, <2>1, FenceStays DEF FencingPcs
  <2> QED BY <1>0, <1>1, <2>1, <2>2, EndSteps
<1> DEFINE f == ctl[a].fence
           fences(s) == [f EXCEPT !.fp = s, !.snap = s, !.text = TRUE]
<1>3. ASSUME NEW s \in ReadBy(t), f.active, WriteEnds(t, [ctl[a] EXCEPT !.fence = fences(s)])
      PROVE  Step(t)
  <2> DEFINE g1 == [f EXCEPT !.fp = s]
             g2 == [g1 EXCEPT !.snap = s]
             g == [g2 EXCEPT !.text = TRUE]
             c == [ctl[a] EXCEPT !.fence = g]
  <2>1. WriteEnds(t, c)
    BY <1>3
  <2>2. s \in Nat /\ s \in 0..Len(log') /\ f \in FenceType /\ f = ctl[a].fence
    <3>1. s \in Nat /\ s <= Version /\ Version \in Nat
      BY <1>0, ReadByType
    <3>2. s \in 0..Len(log)
      BY <3>1 DEF Version
    <3> QED BY <1>0, <3>1, <3>2, FenceTypes DEF FileKept
  <2>3. f.active
    BY <1>3
  <2> HIDE DEF f
  <2>4. g1 \in FenceType /\ g1.active = f.active /\ g1.fp = s
    BY <2>2, FenceFp
  <2> HIDE DEF g1
  <2>5. g2 \in FenceType /\ g2.active = f.active /\ g2.fp = s /\ g2.snap = s
    BY <2>2, <2>4, FenceSnap
  <2> HIDE DEF g2
  <2>6. g \in FenceType /\ g.active = f.active /\ g.fp = s /\ g.snap = s
    BY <2>5, FenceText
  <2> HIDE DEF g
  <2>7. /\ c \in CtlType
        /\ c.held = ctl[a].held /\ c.fence = g /\ c.takeover = ctl[a].takeover
        /\ c.users = ctl[a].users /\ c.drain = ctl[a].drain
    BY <2>6, WithFence
  <2> HIDE DEF c
  <2>8. /\ Ends(t) /\ LockStep(t) /\ FlowData(t) /\ FenceIs(a, g)
        /\ at'[t].pc \in {"cleanup", "done"} /\ at'[t].since = 0
    BY <1>0, <2>1, <2>7, WriteEndsMoves
  <2>9. FenceData(t)
    BY <1>0, <2>2, <2>6, <2>8, FenceGoes
  <2> QED BY <1>0, <1>1, <2>8, <2>9, EndSteps
<1>4. PICK s \in ReadBy(t) :
          WriteEnds(t, IF s # at[t].read /\ f.active
                       THEN [ctl[a] EXCEPT !.fence = fences(s)] ELSE ctl[a])
  BY <1>0 DEF Refresh
<1>5. CASE s # at[t].read /\ f.active
  <2>1. WriteEnds(t, [ctl[a] EXCEPT !.fence = fences(s)])
    BY <1>4, <1>5
  <2> QED BY <1>3, <1>4, <1>5, <2>1
<1>6. CASE ~(s # at[t].read /\ f.active)
  <2>1. WriteEnds(t, ctl[a])
    BY <1>4, <1>6
  <2> QED BY <1>2, <2>1
<1> QED BY <1>5, <1>6

LEMMA SnapshotPublishedSteps ==
    ASSUME TypeOK, NEW a \in Attempts, NEW t \in TasksOf(a), LockInv(a), Ready(t),
           SnapshotPublished(t)
    PROVE  Step(t)
<1>0. /\ at[t].pc = "published" /\ FileKept /\ TrustKept /\ RestKept /\ t[1] = a /\ t \in Tasks
      /\ Writing(t) /\ ctl[a] \in CtlType /\ at[t].pc \in LockedPcs
  BY OwnTasks, FenceTypes DEF SnapshotPublished, Writing, LockedPcs
<1>1. TrustData(t)
  BY <1>0 DEF TrustKept, TrustData
<1> DEFINE f == ctl[a].fence
           r == at[t].read
           fences(s) == [f EXCEPT !.snap = s, !.text = TRUE, !.gen = r]
<1>2. PICK s \in ReadBy(t) : WriteEnds(t, [ctl[a] EXCEPT !.fence = fences(s)])
  BY <1>0 DEF SnapshotPublished
<1> DEFINE g1 == [f EXCEPT !.snap = s]
           g2 == [g1 EXCEPT !.text = TRUE]
           g == [g2 EXCEPT !.gen = r]
           c == [ctl[a] EXCEPT !.fence = g]
<1>3. WriteEnds(t, c)
  BY <1>2
<1>4. s \in Nat /\ s \in 0..Len(log') /\ f \in FenceType /\ f = ctl[a].fence /\ r \in Nat
  <2>1. s \in Nat /\ s <= Version /\ Version \in Nat
    BY <1>0, <1>2, ReadByType
  <2>2. s \in 0..Len(log)
    BY <2>1 DEF Version
  <2> QED BY <1>0, <2>1, <2>2, FenceTypes, TaskAt DEF FileKept
<1> HIDE DEF f, r
<1>5. g1 \in FenceType /\ g1.active = f.active /\ g1.fp = f.fp /\ g1.snap = s
  BY <1>4, FenceSnap
<1> HIDE DEF g1
<1>6. g2 \in FenceType /\ g2.active = f.active /\ g2.fp = f.fp /\ g2.snap = s
  BY <1>5, FenceText
<1> HIDE DEF g2
<1>7. g \in FenceType /\ g.active = f.active /\ g.fp = f.fp /\ g.snap = s
  BY <1>4, <1>6, FenceGen
<1> HIDE DEF g
<1>8. /\ c \in CtlType
      /\ c.held = ctl[a].held /\ c.fence = g /\ c.takeover = ctl[a].takeover
      /\ c.users = ctl[a].users /\ c.drain = ctl[a].drain
  BY <1>7, WithFence
<1> HIDE DEF c
<1>9. /\ Ends(t) /\ LockStep(t) /\ FlowData(t) /\ FenceIs(a, g)
      /\ at'[t].pc \in {"cleanup", "done"} /\ at'[t].since = 0
  BY <1>0, <1>3, <1>8, WriteEndsMoves
<1>10. FenceData(t)
  BY <1>0, <1>4, <1>7, <1>9, FenceGoes
<1> QED BY <1>0, <1>1, <1>9, <1>10, EndSteps

LEMMA RunWriteSteps ==
    ASSUME TypeOK, NEW a \in Attempts, NEW t \in TasksOf(a), LockInv(a), RunWrite(t)
    PROVE  Step(t)
<1> DEFINE f == ctl[a].fence
           n == Len(log')
           q == IF ctl[a].takeover THEN "over taken" ELSE "ran"
           gone == [f EXCEPT !.fp = Version + 1, !.snap = Version + 1, !.text = FALSE]
<1>0. /\ at[t].pc = "running" /\ UNCHANGED <<lock, intruded>> /\ TrustKept /\ RestKept
      /\ t[1] = a /\ t \in Tasks /\ at[t].pc \in LockedPcs
      /\ at' = [at EXCEPT ![t].pc = q, ![t].since = n]
  BY OwnTasks DEF RunWrite, LockedPcs
<1>1. \/ log' = Append(log, "own") /\ Becomes(a, [ctl[a] EXCEPT !.fence = gone]) /\ f.active
      \/ log' = Append(log, "own") /\ UNCHANGED ctl
      \/ UNCHANGED <<log, ctl>>
  BY <1>0 DEF RunWrite
<1>2. /\ n \in Nat /\ Version \in Nat
      /\ log' = Append(log, "own") => n = Version + 1
      /\ log' = log => n = Version
      /\ log' \in Seq({"own"} \cup OtherKinds)
  <2>1. log \in Seq({"own"} \cup OtherKinds) /\ Version = Len(log)
    BY DEF TypeOK, Version
  <2> QED BY SMTT(30), <1>1, <2>1
<1>3. q \in {"over taken", "ran"}
  OBVIOUS
<1> HIDE DEF q
<1>4. q \in Pcs /\ q \in LockedPcs /\ q # "published" /\ at \in [Tasks -> TaskType]
  BY <1>3 DEF Pcs, LockedPcs, TypeOK
<1>5. Moves(t, q, at[t].then, at[t].key) /\ at'[t].since = n /\ at'[t].read = at[t].read
  <2> DEFINE m == n
             f1 == [at EXCEPT ![t].pc = q]
             f2 == [f1 EXCEPT ![t].since = m]
  <2>1. at' = f2 /\ m \in Nat /\ t \in Tasks /\ m = n
    BY <1>0, <1>2
  <2> HIDE DEF m
  <2>2. /\ f1 \in [Tasks -> TaskType] /\ \A u \in Tasks : u # t => f1[u] = at[u]
        /\ f1[t].pc = q /\ f1[t].then = at[t].then /\ f1[t].key = at[t].key
        /\ f1[t].read = at[t].read
    BY <1>4, <2>1, AtPc
  <2> HIDE DEF f1
  <2>3. /\ f2 \in [Tasks -> TaskType] /\ \A u \in Tasks : u # t => f2[u] = f1[u]
        /\ f2[t].pc = f1[t].pc /\ f2[t].then = f1[t].then /\ f2[t].key = f1[t].key
        /\ f2[t].read = f1[t].read /\ f2[t].since = m
    BY <2>1, <2>2, AtSince
  <2> HIDE DEF f2
  <2> QED BY <2>1, <2>2, <2>3 DEF Moves
<1>6. at'[t].pc = q
  BY <1>5 DEF Moves
<1>7. Kept(a) /\ FenceData(t)
  <2>1. ASSUME UNCHANGED ctl PROVE Kept(a) /\ FenceData(t)
    <3>1. Kept(a) /\ FenceIs(a, ctl[a].fence)
      BY <2>1, CtlKept
    <3> QED BY <1>0, <3>1, FenceStays DEF FencingPcs
  <2>2. ASSUME Becomes(a, [ctl[a] EXCEPT !.fence = gone]), f.active, n = Version + 1
        PROVE  Kept(a) /\ FenceData(t)
    <3> DEFINE s == Version + 1
               g1 == [f EXCEPT !.fp = s]
               g2 == [g1 EXCEPT !.snap = s]
               g == [g2 EXCEPT !.text = FALSE]
    <3>1. Becomes(a, [ctl[a] EXCEPT !.fence = g])
      BY <2>2
    <3>2. s \in Nat /\ s \in 0..Len(log') /\ f \in FenceType /\ f = ctl[a].fence
      BY <1>2, <2>2, FenceTypes
    <3> HIDE DEF f, s
    <3>3. g1 \in FenceType /\ g1.active = f.active /\ g1.fp = s
      BY <3>2, FenceFp
    <3> HIDE DEF g1
    <3>4. g2 \in FenceType /\ g2.active = f.active /\ g2.fp = s /\ g2.snap = s
      BY <3>2, <3>3, FenceSnap
    <3> HIDE DEF g2
    <3>5. g \in FenceType /\ g.active = f.active /\ g.fp = s /\ g.snap = s
      BY <3>4, FenceText
    <3> HIDE DEF g
    <3>6. Kept(a) /\ FenceIs(a, g)
      BY <3>1, <3>5, FenceBecomes
    <3> QED BY <1>0, <3>2, <3>5, <3>6, FenceGoes
  <2> QED BY <1>1, <1>2, <2>1, <2>2
<1>8. LockStep(t) /\ FlowData(t)
  BY <1>0, <1>4, <1>5, <1>7, WorkMoves
<1>9. TrustData(t)
  BY <1>0 DEF TrustKept, TrustData
<1>10. owner' \in Attempts \cup {None} /\ streams' \in [Attempts -> Nat]
  BY <1>0 DEF RestKept, TypeOK
<1>11. TaskData(t)
  <2>1. at'[t].since \in {at[t].since} \cup 0..Len(log') /\ at'[t].since = Len(log')
    BY <1>2, <1>5, Counts
  <2>2. at[t].pc \notin FencePcs /\ at'[t].pc \notin FencePcs
    BY <1>0, <1>3, <1>6 DEF FencePcs
  <2>3. at'[t].pc \notin {"stat", "running", "free", "assert", "rewrite", "adopt"}
    BY <1>3, <1>6
  <2>4. log' = log \/ log' = Append(log, "own")
    BY <1>1
  <2> QED BY <1>0, <1>5, <2>1, <2>2, <2>3, <2>4, Zenon DEF TaskData
<1> QED BY <1>0, <1>7, <1>8, <1>9, <1>10, <1>11 DEF Step

LEMMA PublishSteps ==
    ASSUME TypeOK, NEW a \in Attempts, NEW t \in TasksOf(a), LockInv(a), Publish(t)
    PROVE  Step(t)
<1> DEFINE c == ctl[a]
           gen == lastGen + 1
           publishes(v) ==
               /\ published' = [ver |-> v, gen |-> gen]
               /\ trusted' = [trusted EXCEPT !.ver = v, !.gen = gen]
               /\ lastGen' = gen
<1>0. /\ at[t].pc = "ran" /\ t[2] \in Publishing /\ FileKept /\ RestKept
      /\ t[1] = a /\ t \in Tasks /\ Writing(t) /\ c \in CtlType /\ at[t].pc \in LockedPcs
  BY OwnTasks, FenceTypes DEF Publish, Writing, LockedPcs
<1>1. PICK v \in ReadBy(t) :
          \/ /\ v # at[t].read /\ trusted.gen > 0 /\ trusted.ver = at[t].read /\ publishes(v)
             /\ \/ /\ c.fence.active /\ UNCHANGED lock
                   /\ Becomes(a, [c EXCEPT !.fence.fp = v])
                   /\ at' = [at EXCEPT ![t].pc = "published", ![t].since = Version,
                                       ![t].read = gen]
                \/ ~c.fence.active /\ WriteEnds(t, c)
          \/ WriteEnds(t, c) /\ TrustKept
  BY <1>0 DEF Publish
<1>2. v \in Nat /\ v \in 0..Len(log') /\ Version \in Nat /\ gen \in Nat /\ Version \in 0..Len(log')
  <2>1. v \in Nat /\ v <= Version /\ Version \in Nat
    BY <1>0, <1>1, ReadByType
  <2>2. v \in 0..Len(log) /\ Version \in 0..Len(log)
    BY <2>1, Counts DEF Version
  <2>3. gen \in Nat
    BY DEF TypeOK
  <2> QED BY <1>0, <2>1, <2>2, <2>3 DEF FileKept
<1>3. t # Flow(a)
  <2>1. t[2] \in Writers
    BY <1>0, AttemptLockAssumption
  <2>2. t[2] # "flow"
    BY <2>1, TaskAssumption
  <2> QED BY <2>2 DEF Flow
<1>4. ASSUME WriteEnds(t, c), TrustData(t) PROVE Step(t)
  <2>1. /\ Ends(t) /\ LockStep(t) /\ FlowData(t) /\ FenceIs(a, ctl[a].fence)
        /\ at'[t].pc \in {"cleanup", "done"} /\ at'[t].since = 0
    BY <1>0, <1>4, WriteEndsMoves
  <2>2. FenceData(t)
    BY <1>0, <2>1, FenceStays DEF FencingPcs
  <2> QED BY <1>0, <1>4, <2>1, <2>2, EndSteps
<1>5. ASSUME v # at[t].read, trusted.gen > 0, trusted.ver = at[t].read, publishes(v)
      PROVE  TrustData(t)
  BY <1>0, <1>1, <1>5 DEF TrustData
<1>6. ASSUME TrustKept PROVE TrustData(t)
  BY <1>6 DEF TrustData, TrustKept
<1>7. ASSUME TrustData(t), c.fence.active, UNCHANGED lock,
             Becomes(a, [c EXCEPT !.fence.fp = v]),
             at' = [at EXCEPT ![t].pc = "published", ![t].since = Version, ![t].read = gen]
      PROVE  Step(t)
  <2> DEFINE q == "published"
             m == Version
             r == gen
             f1 == [at EXCEPT ![t].pc = q]
             f2 == [f1 EXCEPT ![t].since = m]
             f3 == [f2 EXCEPT ![t].read = r]
  <2>1. /\ at' = f3 /\ r \in Nat /\ m \in Nat /\ q \in Pcs /\ q = "published" /\ m = Version
        /\ at \in [Tasks -> TaskType] /\ t \in Tasks
    BY <1>0, <1>2, <1>7 DEF Pcs, TypeOK
  <2> HIDE DEF q, r, m
  <2>2. /\ f1 \in [Tasks -> TaskType] /\ \A u \in Tasks : u # t => f1[u] = at[u]
        /\ f1[t].pc = q /\ f1[t].then = at[t].then /\ f1[t].key = at[t].key
    BY <2>1, AtPc
  <2> HIDE DEF f1
  <2>3. /\ f2 \in [Tasks -> TaskType] /\ \A u \in Tasks : u # t => f2[u] = f1[u]
        /\ f2[t].pc = f1[t].pc /\ f2[t].then = f1[t].then /\ f2[t].key = f1[t].key
        /\ f2[t].since = m
    BY <2>1, <2>2, AtSince
  <2> HIDE DEF f2
  <2>4. /\ f3 \in [Tasks -> TaskType] /\ \A u \in Tasks : u # t => f3[u] = f2[u]
        /\ f3[t].pc = f2[t].pc /\ f3[t].then = f2[t].then /\ f3[t].key = f2[t].key
        /\ f3[t].since = f2[t].since
    BY <2>1, <2>3, AtRead
  <2> HIDE DEF f3
  <2>5. Moves(t, "published", at[t].then, at[t].key) /\ at'[t].since = Version
    BY <2>1, <2>2, <2>3, <2>4 DEF Moves
  <2>6. at'[t].pc = "published"
    BY <2>5 DEF Moves
  <2> DEFINE f == ctl[a].fence
             g == [f EXCEPT !.fp = v]
  <2>7. f \in FenceType /\ f = ctl[a].fence /\ Becomes(a, [ctl[a] EXCEPT !.fence = g])
    BY <1>7, FenceTypes
  <2> HIDE DEF f
  <2>8. g \in FenceType /\ g.active = f.active /\ g.fp = v /\ g.snap = f.snap
    BY <1>2, <2>7, FenceFp
  <2> HIDE DEF g
  <2>9. Kept(a) /\ FenceIs(a, g)
    BY <2>7, <2>8, FenceBecomes
  <2>10. FenceData(t)
    BY <1>0, <1>2, <2>7, <2>8, <2>9, FenceGoes
  <2>11. LockStep(t) /\ FlowData(t)
    <3>1. "published" \in LockedPcs
      BY DEF LockedPcs
    <3>2. UNCHANGED lock
      BY <1>7
    <3> QED BY <1>0, <1>3, <2>5, <2>9, <3>1, <3>2, WorkMoves
  <2>12. UNCHANGED <<log, intruded>> /\ owner' \in Attempts \cup {None}
         /\ streams' \in [Attempts -> Nat]
    BY <1>0 DEF FileKept, RestKept, TypeOK
  <2>13. TaskData(t)
    <3>1. at'[t].since \in {at[t].since} \cup 0..Len(log')
      BY <1>2, <2>5
    <3>2. at[t].pc \notin FencePcs /\ at'[t].pc \notin FencePcs
      BY <1>0, <2>6 DEF FencePcs
    <3>3. at'[t].pc \notin {"stat", "running", "ran", "free", "assert", "rewrite", "adopt"}
      BY <2>6
    <3> QED BY <1>0, <2>12, <3>1, <3>2, <3>3, Zenon DEF TaskData
  <2> QED BY <1>7, <2>10, <2>11, <2>12, <2>13 DEF Step
<1> HIDE DEF c, gen
<1> QED
  <2>1. CASE /\ v # at[t].read /\ trusted.gen > 0 /\ trusted.ver = at[t].read /\ publishes(v)
             /\ ~c.fence.active /\ WriteEnds(t, c)
    BY <2>1, <1>4, <1>5
  <2>2. CASE /\ v # at[t].read /\ trusted.gen > 0 /\ trusted.ver = at[t].read /\ publishes(v)
             /\ c.fence.active /\ UNCHANGED lock
             /\ Becomes(a, [c EXCEPT !.fence.fp = v])
             /\ at' = [at EXCEPT ![t].pc = "published", ![t].since = Version, ![t].read = gen]
    <3>1. TrustData(t)
      BY <2>2, <1>5
    <3> HIDE DEF publishes
    <3> QED BY <3>1, <2>2, <1>7
  <2>3. CASE WriteEnds(t, c) /\ TrustKept
    BY <2>3, <1>4, <1>6
  <2> QED BY <1>1, <2>1, <2>2, <2>3

-----------------------------------------------------------------------------
(* Steps of those who assert the fence *)

\* What it is asserted for.
LEMMA Asserters ==
    ASSUME NEW a \in Attempts, NEW t \in TasksOf(a), LockInv(a), at[t].pc \in FencePcs
    PROVE  /\ t \in Tasks /\ t[1] = a /\ t # AbortOf(a)
           /\ t = Flow(a) => at[t].then \in {"stat", "flush"}
           /\ t = Agent(a) => at[t].then = "turn"
           /\ Writer(t) => at[t].then = "stat"
           /\ t = Flow(a) \/ t = Agent(a) \/ Writer(t)
           /\ ~Past(a) \/ t # Flow(a)
           /\ ~Fencing(t) /\ ~Resting(t)
<1>0. t \in Tasks /\ t[1] = a
  BY OwnTasks
<1>1. Placed(t)
  BY DEF LockInv
<1>2. at[t].pc \in {"assert", "compare", "rewrite", "adopt"}
  BY DEF FencePcs
<1>3. t # AbortOf(a)
  BY <1>0, <1>1, <1>2 DEF Placed, AbortAt, Resting, DrainPcs, FencingPcs
<1>4. t = Flow(a) => at[t].then \in {"stat", "flush"}
  BY <1>0, <1>1, <1>2 DEF Placed, FlowAt, Asserts, DrainPcs, FencingPcs, LockedPcs
<1>5. t = Agent(a) => at[t].then = "turn"
  BY <1>0, <1>1, <1>2 DEF Placed, AgentAt, Asserts, DrainPcs, FencingPcs
<1>6. Writer(t) => at[t].then = "stat"
  BY <1>0, <1>1, <1>2 DEF Placed, WriterAt, Asserts, Resting, LockedPcs
<1>7. t = Flow(a) => ~Past(a)
  BY <1>2 DEF Past, DrainPcs, FencingPcs
<1>8. ~Fencing(t) /\ ~Resting(t)
  BY <1>2 DEF Fencing, Resting, FencingPcs
<1>9. t = Flow(a) \/ t = Agent(a) \/ Writer(t)
  BY <1>0, <1>3 DEF Writer
<1> QED BY <1>0, <1>3, <1>4, <1>5, <1>6, <1>7, <1>8, <1>9

\* t goes on with its assertion.
LEMMA AssertionMoves ==
    ASSUME TypeOK, NEW a \in Attempts, NEW t \in TasksOf(a), LockInv(a), at[t].pc \in FencePcs,
           NEW q \in FencePcs, Moves(t, q, at[t].then, at[t].key), Kept(a), UNCHANGED lock
    PROVE  LockStep(t) /\ FlowData(t)
<1>0. at'[t].pc = q /\ at'[t].then = at[t].then /\ at'[t].key = at[t].key
  BY DEF Moves
<1>1. /\ t \in Tasks /\ t[1] = a /\ t # AbortOf(a)
      /\ t = Flow(a) => at[t].then \in {"stat", "flush"}
      /\ t = Agent(a) => at[t].then = "turn"
      /\ Writer(t) => at[t].then = "stat"
      /\ t = Flow(a) \/ t = Agent(a) \/ Writer(t)
      /\ ~Past(a) \/ t # Flow(a)
      /\ ~Fencing(t) /\ ~Resting(t)
  BY Asserters
<1>2. /\ at[t].pc \in {"assert", "compare", "rewrite", "adopt"}
      /\ q \in {"assert", "compare", "rewrite", "adopt"}
  BY DEF FencePcs
<1>3. \A p : Asserts(t, p)' <=> Asserts(t, p)
  BY <1>0 DEF Asserts
<1>4. at[t].pc \notin LockedPcs /\ q \notin LockedPcs
  BY <1>2 DEF LockedPcs
<1>5. Writing(t)' <=> Writing(t)
  BY <1>0, <1>3, <1>4 DEF Writing
<1>6. Cleaning(t)' <=> Cleaning(t)
  BY <1>0, <1>2, <1>3 DEF Cleaning
<1>7. ~Fencing(t)'
  BY <1>0, <1>2 DEF Fencing, FencingPcs
<1>8. Placed(t)'
  <2>1. t = Flow(a) => FlowAt(t)'
    BY <1>0, <1>1 DEF FlowAt, Asserts
  <2>2. t = Agent(a) => AgentAt(t)'
    BY <1>0, <1>1 DEF AgentAt, Asserts
  <2>3. Writer(t) => WriterAt(t)'
    BY <1>0, <1>1 DEF WriterAt, Asserts
  <2> QED BY <1>1, <2>1, <2>2, <2>3 DEF Placed, Writer
<1>9. InPhase(t)
  BY <1>0, <1>1, <1>2 DEF InPhase
<1>10. /\ Controls(a, ctl[a].held, ctl[a].users, ctl[a].drain, ctl'[a].takeover)
       /\ ctl[a].takeover => ctl'[a].takeover
  BY DEF Kept, Controls
<1>11. Alike(t)
  BY <1>0, <1>1, <1>2, <1>3, <1>5, <1>6, <1>7, <1>8, <1>9, <1>10 DEF Alike
<1>12. LockStep(t)
  BY <1>1, <1>11 DEF LockStep, Moves, Kept, Controls
<1>13. FlowData(t)
  BY <1>1, <1>2, FlowDataIs
<1> QED BY <1>12, <1>13

\* The fence holds, and t goes on.
LEMMA HoldsMoves ==
    ASSUME TypeOK, NEW a \in Attempts, NEW t \in TasksOf(a), LockInv(a), at[t].pc \in FencePcs,
           FenceHolds(t), Kept(a), UNCHANGED lock
    PROVE  /\ LockStep(t) /\ FlowData(t)
           /\ at'[t].pc \in {"stat", "turn", "flush"} /\ at'[t].since = Version
<1>1. /\ t \in Tasks /\ t[1] = a /\ t # AbortOf(a)
      /\ t = Flow(a) => at[t].then \in {"stat", "flush"}
      /\ t = Agent(a) => at[t].then = "turn"
      /\ Writer(t) => at[t].then = "stat"
      /\ t = Flow(a) \/ t = Agent(a) \/ Writer(t)
      /\ ~Past(a) \/ t # Flow(a)
      /\ ~Fencing(t) /\ ~Resting(t)
  BY Asserters
<1>2. Moves(t, at[t].then, "idle", at[t].key) /\ Knows(t, Version, 0, 0)
  BY <1>1, FenceHoldsMoves
<1> DEFINE q == at[t].then
<1>3. /\ at'[t].pc = q /\ at'[t].then = "idle" /\ at'[t].key = at[t].key
      /\ at'[t].since = Version /\ q = at[t].then /\ q \in {"stat", "turn", "flush"}
  BY <1>1, <1>2 DEF Moves, Knows
<1> HIDE DEF q
<1>4. at[t].pc \in {"assert", "compare", "rewrite", "adopt"}
  BY DEF FencePcs
<1>5. \A p : Asserts(t, p) <=> p = q
  BY <1>3 DEF Asserts
<1>6. \A p : ~Asserts(t, p)'
  BY <1>3 DEF Asserts, FencePcs
<1>7. at[t].pc \notin LockedPcs /\ (q \in LockedPcs <=> q = "stat")
  BY <1>3, <1>4 DEF LockedPcs
<1>8. Writing(t)' <=> Writing(t)
  BY <1>3, <1>5, <1>6, <1>7 DEF Writing
<1>9. Cleaning(t)' <=> Cleaning(t)
  BY <1>3, <1>4, <1>5, <1>6 DEF Cleaning
<1>10. ~Fencing(t)'
  BY <1>3 DEF Fencing, FencingPcs
<1>11. Placed(t)'
  <2>1. t = Flow(a) => FlowAt(t)'
    BY <1>1, <1>3 DEF FlowAt, LockedPcs
  <2>2. t = Agent(a) => AgentAt(t)'
    BY <1>1, <1>3 DEF AgentAt
  <2>3. Writer(t) => WriterAt(t)'
    BY <1>1, <1>3 DEF WriterAt, LockedPcs
  <2> QED BY <1>1, <2>1, <2>2, <2>3 DEF Placed, Writer
<1>12. InPhase(t)
  BY <1>1, <1>3, <1>4 DEF InPhase
<1>13. /\ Controls(a, ctl[a].held, ctl[a].users, ctl[a].drain, ctl'[a].takeover)
       /\ ctl[a].takeover => ctl'[a].takeover
  BY DEF Kept, Controls
<1>14. Alike(t)
  BY <1>1, <1>3, <1>4, <1>6, <1>8, <1>9, <1>10, <1>11, <1>12, <1>13 DEF Alike
<1>15. LockStep(t)
  BY <1>1, <1>2, <1>14 DEF LockStep, Moves, Kept, Controls
<1>16. FlowData(t)
  BY <1>1, <1>4, FlowDataIs
<1> QED BY <1>3, <1>15, <1>16

\* What the assertion that holds has read.
Held(t) ==
    LET f == ctl[t[1]].fence
    IN  \/ at[t].pc = "adopt"
        \/ /\ at[t].pc = "assert"
           /\ f.fp \in ReadBy(t) \/ (published.gen > f.gen /\ published.ver \in ReadBy(t))

LEMMA HoldsSteps ==
    ASSUME TypeOK, NEW a \in Attempts, NEW t \in TasksOf(a), LockInv(a), at[t].pc \in FencePcs,
           FenceHolds(t), Kept(a), UNCHANGED lock, FileKept, RestKept, Held(t),
           FenceData(t), TrustData(t)
    PROVE  Step(t)
<1>1. /\ LockStep(t) /\ FlowData(t)
      /\ at'[t].pc \in {"stat", "turn", "flush"} /\ at'[t].since = Version
  BY HoldsMoves
<1>2. /\ UNCHANGED intruded /\ log' = log
      /\ owner' \in Attempts \cup {None} /\ streams' \in [Attempts -> Nat]
  BY DEF FileKept, RestKept, TypeOK
<1>3. /\ at'[t].since \in {at[t].since} \cup 0..Len(log')
      /\ at'[t].since = Len(log')
  BY <1>1, <1>2, VersionType, Counts DEF Version
<1>4. /\ at'[t].pc \notin FencePcs
      /\ at'[t].pc \notin {"running", "ran", "free", "assert", "rewrite", "adopt"}
  BY <1>1 DEF FencePcs
<1>5. TaskData(t)
  BY <1>2, <1>3, <1>4, Zenon DEF TaskData, Held
<1> QED BY <1>1, <1>2, <1>5 DEF Step

\* The assertion throws.
LEMMA FailsSteps ==
    ASSUME TypeOK, NEW a \in Attempts, NEW t \in TasksOf(a), LockInv(a), at[t].pc \in FencePcs,
           FenceFails(t), FileKept, TrustKept, RestKept
    PROVE  Step(t)
<1> DEFINE c == [ctl[a] EXCEPT !.takeover = TRUE]
<1>0. /\ t \in Tasks /\ t[1] = a /\ t # AbortOf(a)
      /\ t = Flow(a) => at[t].then \in {"stat", "flush"}
      /\ t = Agent(a) => at[t].then = "turn"
      /\ Writer(t) => at[t].then = "stat"
      /\ t = Flow(a) \/ t = Agent(a) \/ Writer(t)
      /\ ~Past(a) \/ t # Flow(a)
  BY Asserters
<1>1. /\ c \in CtlType
      /\ c.held = ctl[a].held /\ c.fence = ctl[a].fence /\ c.takeover = TRUE
      /\ c.users = ctl[a].users /\ c.drain = ctl[a].drain
  BY FenceTypes, CtlTakeover
<1>2. at[t].pc \in {"assert", "compare", "rewrite", "adopt"}
  BY DEF FencePcs
<1>3. TrustData(t)
  BY DEF TrustKept, TrustData
<1>4. /\ UNCHANGED intruded /\ log' = log /\ Len(log) \in Nat
      /\ owner' \in Attempts \cup {None} /\ streams' \in [Attempts -> Nat]
  BY VersionType DEF FileKept, RestKept, TypeOK, Version
<1>5. at[t].pc \notin FencingPcs
  BY <1>2 DEF FencingPcs
<1>6. FlowData(t)
  BY <1>0, <1>2, FlowDataIs
<1>7. ASSUME Throws(t), LockStep(t), FenceIs(a, ctl[a].fence),
             NEW q \in {"turn", "dispose"}, at'[t].pc = q, at'[t].since = 0
      PROVE  Step(t)
  <2>1. FenceData(t)
    BY <1>5, <1>7, FenceStays
  <2>2. at'[t].since \in {at[t].since} \cup 0..Len(log')
    BY <1>4, <1>7, Counts
  <2>3. q \notin FencePcs \cup LockedPcs \cup {"flush"}
    BY DEF FencePcs, LockedPcs
  <2>4. q \notin {"stat", "running", "ran", "free", "assert", "rewrite", "adopt"}
    OBVIOUS
  <2>5. TaskData(t)
    BY <1>4, <1>7, <2>2, <2>3, <2>4, Zenon DEF TaskData
  <2> QED BY <1>3, <1>4, <1>6, <1>7, <2>1, <2>5 DEF Step
<1>8. ASSUME at[t].then = "stat", WriteEnds(t, c) PROVE Step(t)
  <2>1. Writing(t)
    BY <1>8 DEF Writing, Asserts
  <2> HIDE DEF c
  <2>2. /\ Ends(t) /\ LockStep(t) /\ FlowData(t) /\ FenceIs(a, ctl[a].fence)
        /\ at'[t].pc \in {"cleanup", "done"} /\ at'[t].since = 0
    BY <1>1, <1>8, <2>1, WriteEndsMoves
  <2>3. FenceData(t)
    BY <1>5, <2>2, FenceStays
  <2> QED BY <1>3, <2>2, <2>3, EndSteps
<1>9. ASSUME at[t].then = "turn", Becomes(a, [c EXCEPT !.held = None]), Unlock(t), At(t, "turn")
      PROVE  Step(t)
  <2> DEFINE d == [c EXCEPT !.held = None]
  <2>1. Becomes(a, d)
    BY <1>9
  <2> HIDE DEF c
  <2>2. /\ d \in CtlType
        /\ d.held = None /\ d.fence = ctl[a].fence /\ d.takeover = TRUE
        /\ d.users = ctl[a].users /\ d.drain = ctl[a].drain
    BY <1>1, CtlHeld
  <2> HIDE DEF d
  <2>3. Controls(a, None, ctl[a].users, ctl[a].drain, TRUE) /\ FenceIs(a, ctl[a].fence)
    BY <2>1, <2>2, BecomesControls
  <2>4. Moves(t, "turn", "idle", None) /\ Knows(t, 0, 0, 0)
    BY <1>0, <1>9, AtMoves DEF Pcs
  <2>5. FailsTurn(t)
    BY <1>0, <1>9, <2>3, <2>4 DEF FailsTurn, Asserts
  <2>6. LockStep(t)
    BY <1>0, <2>3, <2>4, <2>5 DEF LockStep, Throws, Moves, Controls
  <2>7. at'[t].pc = "turn" /\ at'[t].since = 0 /\ Throws(t)
    BY <2>4, <2>5 DEF Moves, Knows, Throws
  <2> QED BY <1>7, <2>3, <2>6, <2>7
<1>10. ASSUME at[t].then = "flush", Becomes(a, c), Unlock(at[t].key), At(t, "dispose")
       PROVE  Step(t)
  <2> HIDE DEF c
  <2>3. Controls(a, ctl[a].held, ctl[a].users, ctl[a].drain, TRUE) /\ FenceIs(a, ctl[a].fence)
    BY <1>1, <1>10, BecomesControls
  <2>4. Moves(t, "dispose", "idle", None) /\ Knows(t, 0, 0, 0)
    BY <1>0, <1>10, AtMoves DEF Pcs
  <2>a. ctl'[a].takeover = TRUE
    BY <2>3 DEF Controls
  <2>5. Flushes(t)
    BY <1>0, <1>10, <2>3, <2>4, <2>a DEF Flushes, Cleaning, Asserts
  <2>6. LockStep(t)
    BY <1>0, <2>3, <2>4, <2>5 DEF LockStep, Throws, Moves, Controls
  <2>7. at'[t].pc = "dispose" /\ at'[t].since = 0 /\ Throws(t)
    BY <2>4, <2>5 DEF Moves, Knows, Throws
  <2> QED BY <1>7, <2>3, <2>6, <2>7
<1>11. \/ at[t].then = "stat" /\ WriteEnds(t, c)
       \/ at[t].then = "turn" /\ Becomes(a, [c EXCEPT !.held = None]) /\ Unlock(t) /\ At(t, "turn")
       \/ at[t].then = "flush" /\ Becomes(a, c) /\ Unlock(at[t].key) /\ At(t, "dispose")
  BY <1>0 DEF FenceFails
<1> HIDE DEF c
<1> QED BY <1>8, <1>9, <1>10, <1>11

\* The assertion goes on, and what t has read since.
LEMMA AssertsOn ==
    ASSUME TypeOK, NEW a \in Attempts, NEW t \in TasksOf(a), LockInv(a), Ready(t),
           at[t].pc \in FencePcs, NEW q \in {"compare", "rewrite", "adopt"},
           Moves(t, q, at[t].then, at[t].key), at'[t].since = Version,
           q = "rewrite" => at'[t].seen = ctl[a].fence.snap,
           q = "adopt" => \E v \in ReadBy(t) :
              \/ at[t].pc = "assert" /\ Added(ctl[a].fence.snap, v, {"mirror"})
              \/ at[t].pc = "rewrite" /\ Added(at[t].seen, v, {"mirror", "migration"}),
           UNCHANGED <<ctl, lock>>, FileKept, TrustKept, RestKept
    PROVE  Step(t)
<1>0. t[1] = a /\ t \in Tasks
  BY OwnTasks
<1>1. Kept(a) /\ FenceIs(a, ctl[a].fence)
  BY CtlKept
<1>2. LockStep(t) /\ FlowData(t)
  <2>1. q \in FencePcs
    BY DEF FencePcs
  <2> QED BY <1>1, <2>1, AssertionMoves
<1>3. /\ UNCHANGED intruded /\ log' = log
      /\ owner' \in Attempts \cup {None} /\ streams' \in [Attempts -> Nat]
  BY DEF FileKept, RestKept, TypeOK
<1>4. at'[t].pc = q
  BY DEF Moves
<1>5. /\ at'[t].since \in {at[t].since} \cup 0..Len(log')
      /\ at'[t].since = Len(log')
  BY <1>3, VersionType, Counts DEF Version
<1>6. ctl[a].fence.active /\ ctl'[a].fence = ctl[a].fence
  BY <1>0, <1>1 DEF Ready, FenceIs
<1>7. q \in FencePcs /\ at[t].pc \notin FencingPcs /\ q \notin LockedPcs
      /\ q \notin {"flush", "stat", "running", "ran", "free", "assert"}
  BY DEF FencePcs, FencingPcs, LockedPcs
<1>8. TaskData(t)
  BY <1>0, <1>3, <1>4, <1>5, <1>6, <1>7, Zenon DEF TaskData
<1>9. FenceData(t) /\ TrustData(t)
  BY <1>1, <1>7, FenceStays DEF TrustData, TrustKept
<1> QED BY <1>2, <1>3, <1>8, <1>9 DEF Step

LEMMA AssertSteps ==
    ASSUME TypeOK, NEW a \in Attempts, NEW t \in TasksOf(a), LockInv(a), Ready(t), Assert(t)
    PROVE  Step(t)
<1> DEFINE f == ctl[a].fence
           fences(v) == [active |-> TRUE, fp |-> v, snap |-> v, text |-> FALSE,
                         gen |-> published.gen]
           goes(v) == IF Added(f.snap, v, {"mirror"}) THEN "adopt" ELSE "compare"
<1>0. /\ t \in Tasks /\ t[1] = a /\ at[t].pc = "assert" /\ at[t].pc \in FencePcs
      /\ UNCHANGED lock /\ FileKept /\ TrustKept /\ RestKept
  BY OwnTasks DEF Assert, FencePcs
<1>1. PICK v \in ReadBy(t) :
          \/ v = f.fp /\ FenceHolds(t) /\ UNCHANGED ctl
          \/ /\ published.gen > f.gen /\ published.ver = v
             /\ Becomes(a, [ctl[a] EXCEPT !.fence = fences(v)])
             /\ FenceHolds(t)
          \/ /\ at' = [at EXCEPT ![t].pc = goes(v), ![t].since = Version, ![t].read = v]
             /\ UNCHANGED ctl
  BY <1>0 DEF Assert
<1>2. v \in Nat /\ v \in 0..Len(log') /\ Version \in Nat
  <2>1. v \in Nat /\ v <= Version /\ Version \in Nat
    BY <1>0, <1>1, ReadByType
  <2>2. v \in 0..Len(log)
    BY <2>1 DEF Version
  <2> QED BY <1>0, <2>1, <2>2 DEF FileKept
<1>3. TrustData(t)
  BY <1>0 DEF TrustKept, TrustData
<1>4. CASE v = f.fp /\ FenceHolds(t) /\ UNCHANGED ctl
  <2>1. Kept(a) /\ FenceIs(a, ctl[a].fence)
    BY <1>4, CtlKept
  <2>2. FenceData(t)
    BY <1>0, <2>1, FenceStays DEF FencingPcs
  <2>3. Held(t)
    BY <1>0, <1>1, <1>4 DEF Held
  <2> QED BY <1>0, <1>3, <1>4, <2>1, <2>2, <2>3, HoldsSteps
<1>5. CASE /\ published.gen > f.gen /\ published.ver = v
           /\ Becomes(a, [ctl[a] EXCEPT !.fence = fences(v)])
           /\ FenceHolds(t)
  <2> DEFINE g == fences(v)
  <2>1. published.gen \in Nat /\ ctl[a].fence.active
    BY <1>0 DEF TypeOK, Ready
  <2>2. g \in FenceType /\ g.active = TRUE /\ g.fp = v /\ g.snap = v
    BY <1>2, <2>1 DEF FenceType
  <2>3. Becomes(a, [ctl[a] EXCEPT !.fence = g])
    BY <1>5
  <2>4. published.gen > ctl[a].fence.gen /\ published.ver \in ReadBy(t)
    BY <1>1, <1>5
  <2> HIDE DEF g
  <2>5. Kept(a) /\ FenceIs(a, g)
    BY <2>2, <2>3, FenceBecomes
  <2>6. FenceData(t)
    <3>1. ctl'[a].fence = g
      BY <2>5 DEF FenceIs
    <3> QED BY <1>0, <1>2, <2>1, <2>2, <2>4, <3>1 DEF FenceData
  <2>7. Held(t)
    BY <1>0, <2>4 DEF Held
  <2> QED BY <1>0, <1>3, <1>5, <2>5, <2>6, <2>7, HoldsSteps
<1>6. CASE /\ at' = [at EXCEPT ![t].pc = goes(v), ![t].since = Version, ![t].read = v]
           /\ UNCHANGED ctl
  <2> DEFINE q == goes(v)
             f1 == [at EXCEPT ![t].pc = q]
             f2 == [f1 EXCEPT ![t].since = Version]
             f3 == [f2 EXCEPT ![t].read = v]
  <2>1. /\ q \in {"adopt", "compare"}
        /\ q = "adopt" => Added(ctl[a].fence.snap, v, {"mirror"})
    OBVIOUS
  <2>2. at' = f3 /\ at \in [Tasks -> TaskType] /\ t \in Tasks
    BY <1>0, <1>6 DEF TypeOK
  <2> HIDE DEF q
  <2>3. q \in Pcs
    BY <2>1 DEF Pcs
  <2>4. /\ f1 \in [Tasks -> TaskType] /\ \A u \in Tasks : u # t => f1[u] = at[u]
        /\ f1[t].pc = q /\ f1[t].then = at[t].then /\ f1[t].key = at[t].key
    BY <2>2, <2>3, AtPc
  <2> HIDE DEF f1
  <2>5. /\ f2 \in [Tasks -> TaskType] /\ \A u \in Tasks : u # t => f2[u] = f1[u]
        /\ f2[t].pc = f1[t].pc /\ f2[t].then = f1[t].then /\ f2[t].key = f1[t].key
        /\ f2[t].since = Version
    BY <1>2, <2>2, <2>4, AtSince
  <2> HIDE DEF f2
  <2>6. /\ f3 \in [Tasks -> TaskType] /\ \A u \in Tasks : u # t => f3[u] = f2[u]
        /\ f3[t].pc = f2[t].pc /\ f3[t].then = f2[t].then /\ f3[t].key = f2[t].key
        /\ f3[t].since = f2[t].since
    BY <1>2, <2>2, <2>5, AtRead
  <2> HIDE DEF f3
  <2>7. Moves(t, q, at[t].then, at[t].key) /\ at'[t].since = Version
    BY <2>2, <2>4, <2>5, <2>6 DEF Moves
  <2>8. q = "adopt" => \E w \in ReadBy(t) :
              \/ at[t].pc = "assert" /\ Added(ctl[a].fence.snap, w, {"mirror"})
              \/ at[t].pc = "rewrite" /\ Added(at[t].seen, w, {"mirror", "migration"})
    BY <1>0, <1>1, <2>1
  <2>9. q \in {"compare", "rewrite", "adopt"} /\ q # "rewrite"
    BY <2>1
  <2>10. UNCHANGED <<ctl, lock>>
    BY <1>0, <1>6
  <2> QED BY <1>0, <2>7, <2>8, <2>9, <2>10, AssertsOn
<1> HIDE DEF f, fences, goes
<1> QED BY <1>1, <1>4, <1>5, <1>6

LEMMA CompareSteps ==
    ASSUME TypeOK, NEW a \in Attempts, NEW t \in TasksOf(a), LockInv(a), Ready(t), Compare(t)
    PROVE  Step(t)
<1>0. /\ t \in Tasks /\ t[1] = a /\ at[t].pc = "compare" /\ at[t].pc \in FencePcs
      /\ FileKept /\ TrustKept /\ RestKept
  BY OwnTasks DEF Compare, FencePcs
<1>1. CASE ~ctl[a].fence.text
  <2>1. FenceFails(t)
    BY <1>0, <1>1 DEF Compare
  <2> QED BY <1>0, <2>1, FailsSteps
<1>2. CASE ctl[a].fence.text
  <2> DEFINE q == "rewrite"
             v == ctl[a].fence.snap
             f1 == [at EXCEPT ![t].pc = q]
             f2 == [f1 EXCEPT ![t].since = Version]
             f3 == [f2 EXCEPT ![t].seen = v]
  <2>1. at' = f3 /\ UNCHANGED <<ctl, lock>>
    BY <1>0, <1>2 DEF Compare
  <2>2. /\ at \in [Tasks -> TaskType] /\ t \in Tasks /\ q \in Pcs /\ v \in Nat /\ Version \in Nat
        /\ q = "rewrite" /\ v = ctl[a].fence.snap
    BY <1>0, VersionType, FenceTypes DEF TypeOK, Pcs
  <2> HIDE DEF q, v
  <2>4. /\ f1 \in [Tasks -> TaskType] /\ \A u \in Tasks : u # t => f1[u] = at[u]
        /\ f1[t].pc = q /\ f1[t].then = at[t].then /\ f1[t].key = at[t].key
    BY <2>2, AtPc
  <2> HIDE DEF f1
  <2>5. /\ f2 \in [Tasks -> TaskType] /\ \A u \in Tasks : u # t => f2[u] = f1[u]
        /\ f2[t].pc = f1[t].pc /\ f2[t].then = f1[t].then /\ f2[t].key = f1[t].key
        /\ f2[t].since = Version
    BY <2>2, <2>4, AtSince
  <2> HIDE DEF f2
  <2>6. /\ f3 \in [Tasks -> TaskType] /\ \A u \in Tasks : u # t => f3[u] = f2[u]
        /\ f3[t].pc = f2[t].pc /\ f3[t].then = f2[t].then /\ f3[t].key = f2[t].key
        /\ f3[t].since = f2[t].since /\ f3[t].seen = v
    BY <2>2, <2>5, AtSeen
  <2> HIDE DEF f3
  <2>7. /\ Moves(t, q, at[t].then, at[t].key) /\ at'[t].since = Version
        /\ at'[t].seen = ctl[a].fence.snap
    BY <2>1, <2>2, <2>4, <2>5, <2>6 DEF Moves
  <2>8. q \in {"compare", "rewrite", "adopt"} /\ q # "adopt"
    BY <2>2
  <2> QED BY <1>0, <2>1, <2>7, <2>8, AssertsOn
<1> QED BY <1>1, <1>2

LEMMA CompareRewriteSteps ==
    ASSUME TypeOK, NEW a \in Attempts, NEW t \in TasksOf(a), LockInv(a), Ready(t),
           CompareRewrite(t)
    PROVE  Step(t)
<1>0. /\ t \in Tasks /\ t[1] = a /\ at[t].pc = "rewrite" /\ at[t].pc \in FencePcs
      /\ FileKept /\ TrustKept /\ RestKept
  BY OwnTasks DEF CompareRewrite, FencePcs
<1>1. PICK v \in ReadBy(t) :
          IF Added(at[t].seen, v, {"mirror", "migration"})
          THEN at' = [at EXCEPT ![t].pc = "adopt", ![t].since = Version] /\ UNCHANGED <<ctl, lock>>
          ELSE FenceFails(t)
  BY DEF CompareRewrite
<1>2. CASE ~Added(at[t].seen, v, {"mirror", "migration"})
  <2>1. FenceFails(t)
    BY <1>1, <1>2
  <2> QED BY <1>0, <2>1, FailsSteps
<1>3. CASE Added(at[t].seen, v, {"mirror", "migration"})
  <2> DEFINE q == "adopt"
             f1 == [at EXCEPT ![t].pc = q]
             f2 == [f1 EXCEPT ![t].since = Version]
  <2>1. at' = f2 /\ UNCHANGED <<ctl, lock>>
    BY <1>1, <1>3
  <2>2. /\ at \in [Tasks -> TaskType] /\ t \in Tasks /\ q \in Pcs /\ Version \in Nat
        /\ q = "adopt"
    BY <1>0, VersionType DEF TypeOK, Pcs
  <2> HIDE DEF q
  <2>4. /\ f1 \in [Tasks -> TaskType] /\ \A u \in Tasks : u # t => f1[u] = at[u]
        /\ f1[t].pc = q /\ f1[t].then = at[t].then /\ f1[t].key = at[t].key
    BY <2>2, AtPc
  <2> HIDE DEF f1
  <2>5. /\ f2 \in [Tasks -> TaskType] /\ \A u \in Tasks : u # t => f2[u] = f1[u]
        /\ f2[t].pc = f1[t].pc /\ f2[t].then = f1[t].then /\ f2[t].key = f1[t].key
        /\ f2[t].since = Version
    BY <2>2, <2>4, AtSince
  <2> HIDE DEF f2
  <2>6. Moves(t, q, at[t].then, at[t].key) /\ at'[t].since = Version
    BY <2>1, <2>4, <2>5 DEF Moves
  <2>7. \E w \in ReadBy(t) :
              \/ at[t].pc = "assert" /\ Added(ctl[a].fence.snap, w, {"mirror"})
              \/ at[t].pc = "rewrite" /\ Added(at[t].seen, w, {"mirror", "migration"})
    BY <1>0, <1>1, <1>3
  <2>8. q \in {"compare", "rewrite", "adopt"} /\ q # "rewrite"
    BY <2>2
  <2> QED BY <1>0, <2>1, <2>6, <2>7, <2>8, AssertsOn
<1> QED BY <1>2, <1>3

LEMMA AdoptSteps ==
    ASSUME TypeOK, NEW a \in Attempts, NEW t \in TasksOf(a), LockInv(a), Ready(t), Adopt(t)
    PROVE  Step(t)
<1> DEFINE gen == TrustedGen(at[t].read, ctl[a].fence.gen)
           fences(s) == [active |-> TRUE, fp |-> s, snap |-> s, text |-> TRUE, gen |-> gen]
<1>0. /\ t \in Tasks /\ t[1] = a /\ at[t].pc = "adopt" /\ at[t].pc \in FencePcs
      /\ UNCHANGED <<lock, published>> /\ FileKept /\ RestKept
      /\ Trust(at[t].read) /\ FenceHolds(t)
  BY OwnTasks DEF Adopt, FencePcs
<1>1. PICK s \in ReadBy(t) : Becomes(a, [ctl[a] EXCEPT !.fence = fences(s)])
  BY <1>0 DEF Adopt
<1>2. s \in Nat /\ s \in 0..Len(log')
  <2>1. s \in Nat /\ s <= Version /\ Version \in Nat
    BY <1>0, <1>1, ReadByType
  <2>2. s \in 0..Len(log)
    BY <2>1 DEF Version
  <2> QED BY <1>0, <2>1, <2>2 DEF FileKept
<1>3. gen \in Nat
  BY <1>0, TaskAt, FenceTypes, TrustedGenType
<1>4. TrustData(t)
  <2>1. trusted.gen > 0 /\ trusted.gen \in Nat
    BY <1>0 DEF Ready, TypeOK
  <2>2. trusted.gen # 0
    BY <2>1
  <2> QED BY <1>0, <2>2 DEF Trust, TrustData
<1> HIDE DEF gen
<1> DEFINE g == fences(s)
<1>5. g \in FenceType /\ g.active = TRUE /\ g.fp = s /\ g.snap = s
  BY <1>2, <1>3 DEF FenceType
<1>6. Becomes(a, [ctl[a] EXCEPT !.fence = g]) /\ ctl[a].fence.active
  BY <1>0, <1>1 DEF Ready
<1> HIDE DEF g
<1>7. Kept(a) /\ FenceIs(a, g)
  BY <1>5, <1>6, FenceBecomes
<1>8. FenceData(t)
  <2>1. ctl'[a].fence = g
    BY <1>7 DEF FenceIs
  <2> QED BY <1>0, <1>2, <1>5, <1>6, <2>1 DEF FenceData
<1>9. Held(t)
  BY <1>0 DEF Held
<1> QED BY <1>0, <1>4, <1>7, <1>8, <1>9, HoldsSteps

LEMMA FlushSteps ==
    ASSUME TypeOK, NEW a \in Attempts, LockInv(a), Flush(a)
    PROVE  Step(Flow(a))
<1> DEFINE t == Flow(a)
<1>0. /\ t \in TasksOf(a) /\ t \in Tasks /\ t[1] = a /\ at[t].pc = "flush" /\ t # Agent(a)
      /\ log' = Append(log, "own") \/ log' = log
      /\ Unlock(at[t].key) /\ At(t, "dispose") /\ UNCHANGED <<ctl, intruded>>
      /\ TrustKept /\ RestKept
  BY OwnTasks DEF Flush
<1> HIDE DEF t
<1>1. /\ Controls(a, ctl[a].held, ctl[a].users, ctl[a].drain, ctl'[a].takeover)
      /\ ctl[a].takeover => ctl'[a].takeover
      /\ FenceIs(a, ctl[a].fence)
  BY <1>0, KeptControls
<1>2. Moves(t, "dispose", "idle", None) /\ Knows(t, 0, 0, 0)
  BY <1>0, AtMoves DEF Pcs
<1>3. Flushes(t) /\ Throws(t)
  BY <1>0, <1>1, <1>2 DEF Flushes, Cleaning, Throws
<1>4. LockStep(t)
  BY <1>0, <1>1, <1>2, <1>3 DEF LockStep, Moves, Controls
<1>5. FlowData(t)
  <2>1. ~Past(a)
    BY <1>0 DEF Past, DrainPcs, FencingPcs, t
  <2> QED BY <1>0, <2>1, FlowDataIs
<1>6. at'[t].pc = "dispose" /\ at'[t].since = 0
  BY <1>2 DEF Moves, Knows
<1>7. FenceData(t) /\ TrustData(t)
  <2>1. at[t].pc \notin FencingPcs
    BY <1>0 DEF FencingPcs
  <2> QED BY <1>0, <1>1, <2>1, FenceStays DEF TrustData, TrustKept
<1>8. TaskData(t)
  <2>1. Len(log') \in Nat
    <3>1. log \in Seq({"own"} \cup OtherKinds)
      BY DEF TypeOK
    <3>2. log' \in Seq({"own"} \cup OtherKinds)
      BY <1>0, <3>1
    <3> QED BY <3>2
  <2>2. at'[t].since \in {at[t].since} \cup 0..Len(log')
    BY <1>6, <2>1, Counts
  <2>3. at[t].pc \notin FencePcs /\ at'[t].pc \notin FencePcs \cup LockedPcs \cup {"flush", "free"}
        /\ at'[t].pc \notin {"stat", "running", "ran", "assert", "rewrite", "adopt"}
    BY <1>0, <1>6 DEF FencePcs, LockedPcs
  <2> QED BY <1>0, <2>2, <2>3, Zenon DEF TaskData
<1>9. owner' \in Attempts \cup {None} /\ streams' \in [Attempts -> Nat]
  BY <1>0 DEF RestKept, TypeOK
<1> QED BY <1>0, <1>4, <1>5, <1>7, <1>8, <1>9 DEF Step, t

-----------------------------------------------------------------------------
(* Every step is one task's, but for these *)

\* Nothing happens to the file, the controllers and the tasks.
Elsewhere ==
    /\ UNCHANGED <<log, ctl, at, trusted, published, lastGen, intruded>>
    /\ lock' = lock \/ (lock = None /\ lock' = Other)
    /\ owner' \in Attempts \cup {None} /\ streams' \in [Attempts -> Nat]

LEMMA StepOfSteps ==
    ASSUME TypeOK, NEW a \in Attempts, NEW t \in TasksOf(a), LockInv(a), Ready(t), StepOf(t)
    PROVE  Step(t)
<1>1. CASE Assert(t) \/ Compare(t) \/ CompareRewrite(t) \/ Adopt(t)
  BY <1>1, AssertSteps, CompareSteps, CompareRewriteSteps, AdoptSteps
<1>2. CASE AwaitDrain(t) \/ BeginDrain(t) \/ TakeHeld(t) \/ SetFence(t) \/ Free(t)
  BY <1>2, AwaitDrainSteps, BeginDrainSteps, TakeHeldSteps, SetFenceSteps, FreeSteps
<1>3. CASE ShareOrAcquire(t) \/ LockForWrite(t) \/ StatBefore(t) \/ RunWrite(t)
  BY <1>3, ShareOrAcquireSteps, LockForWriteSteps, StatBeforeSteps, RunWriteSteps
<1>4. CASE EndAfterTakeover(t) \/ Refresh(t) \/ Publish(t) \/ SnapshotPublished(t)
  BY <1>4, EndAfterTakeoverSteps, RefreshSteps, PublishSteps, SnapshotPublishedSteps
<1> QED BY <1>1, <1>2, <1>3, <1>4 DEF StepOf

LEMMA NextSteps ==
    ASSUME TypeOK, \A a \in Attempts : LockInv(a), \A t \in Tasks : Ready(t), [Next]_vars
    PROVE  \/ \E t \in Tasks : Step(t)
           \/ \E a \in Attempts : Submit(a)
           \/ \E kind \in OtherKinds : OtherWrites(kind)
           \/ Elsewhere
<1>1. CASE \E t \in Tasks : StepOf(t)
  <2>1. PICK t \in Tasks : StepOf(t)
    BY <1>1
  <2>2. t[1] \in Attempts /\ t \in TasksOf(t[1])
    BY TasksOfAttempts
  <2>3. Step(t)
    BY <2>1, <2>2, StepOfSteps
  <2> QED BY <2>3
<1>2. ASSUME NEW a \in Attempts, FlowStep(a)
      PROVE  Step(Flow(a)) \/ Submit(a) \/ Elsewhere
  <2>1. CASE Disown(a)
    BY <2>1 DEF Disown, Elsewhere, FileKept, TrustKept, TypeOK
  <2>2. CASE OwnFile(a) \/ GiveUpFile(a) \/ Create(a) \/ FailPrepare(a) \/ EndPrompt(a)
    BY <2>2, OwnFileSteps, GiveUpFileSteps, CreateSteps, FailPrepareSteps, EndPromptSteps
  <2>3. CASE WriteResults(a) \/ StartCleanup(a) \/ LockForCleanup(a) \/ Flush(a) \/ Dispose(a)
    BY <2>3, WriteResultsSteps, StartCleanupSteps, LockForCleanupSteps, FlushSteps, DisposeSteps
  <2> QED BY <1>2, <2>1, <2>2, <2>3 DEF FlowStep
<1>3. ASSUME NEW a \in Attempts, AgentStep(a) PROVE Step(Agent(a))
  BY <1>3, RequestStreamSteps, ReacquireSteps, LockForTurnSteps, FinishTurnSteps DEF AgentStep
<1>4. ASSUME NEW a \in Attempts, Abort(a) PROVE Step(AbortOf(a))
  BY <1>4, AbortSteps
<1>5. CASE \E a \in Attempts : FlowStep(a) \/ AgentStep(a) \/ Abort(a)
  <2>1. PICK a \in Attempts : FlowStep(a) \/ AgentStep(a) \/ Abort(a)
    BY <1>5
  <2>2. Flow(a) \in Tasks /\ Agent(a) \in Tasks /\ AbortOf(a) \in Tasks
    BY OwnTasks
  <2> QED BY <1>2, <1>3, <1>4, <2>1, <2>2
<1>6. CASE \E w \in Writers : BeginWriter(w)
  <2>1. PICK w \in Writers : BeginWriter(w)
    BY <1>6
  <2>2. WriterOf[w] \in Attempts /\ WriterTask(w) \in Tasks
    BY AttemptLockAssumption DEF Tasks
  <2>3. Step(WriterTask(w))
    BY <2>1, <2>2, BeginWriterSteps
  <2> QED BY <2>2, <2>3
<1>7. CASE OtherLocks
  BY <1>7 DEF OtherLocks, Elsewhere, FileKept, TrustKept, RestKept, TypeOK
<1>8. CASE UNCHANGED vars
  BY <1>8 DEF vars, Elsewhere, TypeOK
<1> QED BY <1>1, <1>5, <1>6, <1>7, <1>8 DEF Next

-----------------------------------------------------------------------------
(* What a step of one task leaves to the others *)

\* A step frees a lock of its own attempt, or takes one that nobody holds.
LEMMA LockGoes ==
    ASSUME NEW a \in Attempts, NEW t \in TasksOf(a), LockInv(a), LockStep(t)
    PROVE  lock' = lock \/ (lock \in TasksOf(a) /\ lock' = None) \/ (lock = None /\ lock' = t)
<1> USE OwnTasks
<1>0. t[1] = a
  OBVIOUS
<1>1. CASE Alike(t) \/ Begins(t) \/ TakesForCleanup(t) \/ TakesToFence(t) \/ TakesNothing(t) \/ Shares(t)
  BY <1>1 DEF Alike, Begins, TakesForCleanup, TakesToFence, TakesNothing, Shares
<1>2. CASE Creates(t) \/ LocksForWrite(t) \/ LocksForTurn(t) \/ LocksForCleanup(t)
  BY <1>2 DEF Creates, LocksForWrite, LocksForTurn, LocksForCleanup
<1>3. CASE Ends(t)
  BY <1>3 DEF Ends
<1>4. CASE FailsTurn(t)
  BY <1>4 DEF FailsTurn, Unlock
<1>5. CASE Flushes(t)
  <2>1. t = Flow(a) /\ Cleaning(t)
    BY <1>5, Workers DEF Flushes
  <2>2. InHand(a, at[t].key)
    BY <2>1 DEF LockInv, Cleaned
  <2> QED BY <1>5, <2>2 DEF Flushes, Unlock, InHand
<1>6. CASE TakesToFree(t)
  <2>1. ctl[a].held \in {None, Flow(a), Agent(a)}
    BY DEF LockInv, Controlled
  <2>2. PICK k : k = ctl[a].held
    OBVIOUS
  <2>3. k # None /\ Unlock(k)
    BY <1>0, <1>6, <2>2 DEF TakesToFree
  <2> QED BY <2>1, <2>2, <2>3 DEF Unlock
<1>7. CASE Frees(t)
  <2>1. Fencing(t)
    BY <1>7 DEF Frees, Fencing, FencingPcs
  <2>2. InHand(a, at[t].key)
    BY <2>1 DEF LockInv, Drained
  <2> QED BY <1>7, <2>2 DEF Frees, Unlock, InHand
<1> QED BY <1>1, <1>2, <1>3, <1>4, <1>5, <1>6, <1>7 DEF LockStep, Throws

LEMMA LockStepKeeps ==
    ASSUME NEW a \in Attempts, NEW t \in TasksOf(a), LockInv(a), LockStep(t)
    PROVE  LockInv(a)'
<1>1. CASE Alike(t)
  BY <1>1, AlikeKeeps, OwnTasks DEF LockStep
<1>2. CASE Ends(t) \/ FailsTurn(t) \/ Flushes(t)
  BY <1>2, EndsKeeps, FailsTurnKeeps, FlushesKeeps
<1>3. CASE Begins(t) \/ TakesForCleanup(t) \/ TakesToFree(t) \/ TakesToFence(t) \/ TakesNothing(t)
  BY <1>3, BeginsKeeps, TakesForCleanupKeeps, TakesToFreeKeeps, TakesToFenceKeeps, TakesNothingKeeps
<1>4. CASE Frees(t) \/ Shares(t) \/ LocksForWrite(t)
  BY <1>4, FreesKeeps, SharesKeeps, LocksForWriteKeeps
<1>5. CASE Creates(t) \/ LocksForTurn(t) \/ LocksForCleanup(t)
  BY <1>5, CreatesKeeps, LocksForTurnKeeps, LocksForCleanupKeeps
<1> QED BY <1>1, <1>2, <1>3, <1>4, <1>5 DEF LockStep, Throws

\* The other attempts do not notice it.
LEMMA StepUntouched ==
    ASSUME NEW a \in Attempts, NEW t \in TasksOf(a), LockInv(a), LockStep(t),
           NEW b \in Attempts, b # a
    PROVE  Untouched(b)
<1>1. t[1] = a /\ \A u \in TasksOf(b) : u \in Tasks /\ u[1] = b /\ u # None /\ u # Other
  BY OwnTasks
<1>2. \A u \in TasksOf(b) : at'[u] = at[u]
  BY <1>1 DEF LockStep
<1>3. ctl'[b] = ctl[b]
  BY <1>1 DEF LockStep
<1>4. \A u \in TasksOf(b) : u # t /\ u \notin TasksOf(a)
  BY <1>1 DEF TasksOf
<1>5. \A u \in TasksOf(b) : lock' = u <=> lock = u
  BY <1>1, <1>4, LockGoes
<1> QED BY <1>2, <1>3, <1>5 DEF Untouched

LEMMA StepKeepsLocks ==
    ASSUME NEW t \in Tasks, \A a \in Attempts : LockInv(a), Step(t)
    PROVE  \A a \in Attempts : LockInv(a)'
<1>1. t[1] \in Attempts /\ t \in TasksOf(t[1]) /\ LockStep(t)
  BY TasksOfAttempts DEF Step
<1>2. LockInv(t[1])'
  BY <1>1, LockStepKeeps
<1>3. \A b \in Attempts : b # t[1] => Untouched(b)
  BY <1>1, StepUntouched
<1> QED BY <1>2, <1>3, LockInvUntouched

\* The prompt is handed over: the flow and the agent move at once.
LEMMA SubmitMoves ==
    ASSUME TypeOK, NEW a \in Attempts, LockInv(a), Submit(a)
    PROVE  /\ at' \in [Tasks -> TaskType]
           /\ \A u \in Tasks : u # Flow(a) /\ u # Agent(a) => at'[u] = at[u]
           /\ \A u \in Tasks : at'[u].since = at[u].since /\ at'[u].read = at[u].read
                               /\ at'[u].seen = at[u].seen
           /\ at[Flow(a)].pc = "prepare" /\ at[Agent(a)].pc = "idle"
           /\ at'[Flow(a)].pc = "prompt" /\ at'[Agent(a)].pc = "turn"
<1> DEFINE f == [at EXCEPT ![Flow(a)].pc = "prompt"]
<1>1. /\ Flow(a) \in Tasks /\ Agent(a) \in Tasks /\ Flow(a) # Agent(a)
      /\ at \in [Tasks -> TaskType] /\ "prompt" \in Pcs /\ "turn" \in Pcs
  BY OwnTasks DEF TypeOK, Pcs
<1>2. /\ f \in [Tasks -> TaskType]
      /\ \A u \in Tasks : u # Flow(a) => f[u] = at[u]
      /\ f[Flow(a)].pc = "prompt" /\ f[Flow(a)].since = at[Flow(a)].since
      /\ f[Flow(a)].read = at[Flow(a)].read /\ f[Flow(a)].seen = at[Flow(a)].seen
  BY <1>1, AtPc
<1>3. at' = [f EXCEPT ![Agent(a)].pc = "turn"]
  BY DEF Submit
<1> HIDE DEF f
<1>4. /\ at' \in [Tasks -> TaskType]
      /\ \A u \in Tasks : u # Agent(a) => at'[u] = f[u]
      /\ at'[Agent(a)].pc = "turn" /\ at'[Agent(a)].since = f[Agent(a)].since
      /\ at'[Agent(a)].read = f[Agent(a)].read /\ at'[Agent(a)].seen = f[Agent(a)].seen
  BY <1>1, <1>2, <1>3, AtPc
<1>5. at[Flow(a)].pc = "prepare"
  BY DEF Submit
<1>6. at[Agent(a)].pc = "idle"
  BY <1>5 DEF LockInv, Phases
<1> QED BY <1>1, <1>2, <1>4, <1>5, <1>6

LEMMA SubmitKeeps ==
    ASSUME TypeOK, NEW a \in Attempts, LockInv(a), Submit(a)
    PROVE  LockInv(a)'
<1> USE OwnTasks
<1>0. UNCHANGED <<lock, ctl>>
  BY DEF Submit
<1>1. /\ at[Flow(a)].pc = "prepare" /\ at[Agent(a)].pc = "idle"
      /\ at'[Flow(a)].pc = "prompt" /\ at'[Agent(a)].pc = "turn"
      /\ \A u \in TasksOf(a) : u # Flow(a) /\ u # Agent(a) => at'[u] = at[u]
  BY SubmitMoves
<1>2. \A u \in TasksOf(a) : u # Flow(a) /\ u # Agent(a) => Same(u)
  BY <1>1, SameTask DEF LockInv, Same
<1>3. Placed(Flow(a))' /\ Placed(Agent(a))'
  <2>1. FlowAt(Flow(a))'
    BY <1>1 DEF FlowAt
  <2>2. AgentAt(Agent(a))'
    BY <1>1 DEF AgentAt
  <2> QED BY <2>1, <2>2 DEF Placed, Writer
<1>4. \A u \in {Flow(a), Agent(a)} :
          /\ ~Writing(u) /\ ~Cleaning(u) /\ ~Fencing(u) /\ ~Asserts(u, "turn")
          /\ ~Writing(u)' /\ ~Cleaning(u)' /\ ~Fencing(u)' /\ ~Asserts(u, "turn")'
          /\ at[u].pc # "idle users" /\ at'[u].pc # "idle users"
  <2>1. \A u \in {Flow(a), Agent(a)} :
            at[u].pc \in {"prepare", "idle"} /\ at'[u].pc \in {"prompt", "turn"}
    BY <1>1
  <2> QED BY <2>1
      DEF Writing, Cleaning, Fencing, Asserts, FencePcs, FencingPcs, LockedPcs
<1>5. \A u \in TasksOf(a) :
          /\ Placed(u)'
          /\ (Writing(u)' <=> Writing(u)) /\ (Cleaning(u)' <=> Cleaning(u))
          /\ (Fencing(u)' <=> Fencing(u)) /\ (Asserts(u, "turn")' <=> Asserts(u, "turn"))
          /\ Writing(u) \/ Cleaning(u) \/ Fencing(u) => at'[u].key = at[u].key
          /\ at'[u].pc = "idle users" <=> at[u].pc = "idle users"
  <2> DEFINE Like(u) ==
          /\ Placed(u)'
          /\ (Writing(u)' <=> Writing(u)) /\ (Cleaning(u)' <=> Cleaning(u))
          /\ (Fencing(u)' <=> Fencing(u)) /\ (Asserts(u, "turn")' <=> Asserts(u, "turn"))
          /\ Writing(u) \/ Cleaning(u) \/ Fencing(u) => at'[u].key = at[u].key
          /\ at'[u].pc = "idle users" <=> at[u].pc = "idle users"
  <2>1. \A u \in TasksOf(a) : u # Flow(a) /\ u # Agent(a) => Like(u)
    BY <1>2 DEF Same
  <2>2. Like(Flow(a)) /\ Like(Agent(a))
    BY <1>3, <1>4
  <2> HIDE DEF Like
  <2>3. \A u \in TasksOf(a) : Like(u)
    BY <2>1, <2>2
  <2> QED BY <2>3 DEF Like
<1>6. (Aborted(a)' <=> Aborted(a)) /\ (Lost(a)' <=> Lost(a))
  BY <1>0, <1>1 DEF Aborted, Lost
<1>7. \A k : InHand(a, k)' <=> InHand(a, k)
  BY <1>0, <1>6 DEF InHand
<1>8. \A k : Handed(a, k)' <=> Handed(a, k)
  BY <1>5 DEF Handed
<1>9. Phases(a)'
  BY <1>1 DEF Phases
<1>10. Controlled(a)'
  BY <1>0 DEF LockInv, Controlled
<1>11. Shared(a)'
  BY <1>0, <1>5, <1>6, <1>8 DEF LockInv, Shared
<1>12. Drained(a)'
  BY <1>0, <1>5, <1>7 DEF LockInv, Drained
<1>13. Cleaned(a)'
  BY <1>4 DEF Cleaned
<1>14. AgentHolds(a)'
  BY <1>1, <1>4 DEF AgentHolds
<1>15. Freed(a)'
  BY <1>0, <1>5, <1>8 DEF LockInv, Freed
<1>16. GaveUp(a)'
  BY <1>1 DEF GaveUp
<1> QED BY <1>5, <1>9, <1>10, <1>11, <1>12, <1>13, <1>14, <1>15, <1>16 DEF LockInv

-----------------------------------------------------------------------------
(* The inductive invariant of the lock *)

\* A fence is only ever set in a state that is trusted.
Fences ==
    /\ \A a \in Attempts : ctl[a].fence.active => trusted.gen > 0
    /\ \A t \in Tasks : Ready(t)

Locks == TypeOK /\ (\A a \in Attempts : LockInv(a)) /\ Fences

LEMMA InitLocks == Init => Locks
<1> SUFFICES ASSUME Init PROVE Locks
  OBVIOUS
<1>1. /\ log = <<>> /\ lock = None /\ owner = None
      /\ trusted = [ver |-> 0, gen |-> 0, base |-> 0] /\ published = [ver |-> 0, gen |-> 0]
      /\ lastGen = 0 /\ streams = [a \in Attempts |-> 0] /\ intruded = {}
  BY DEF Init
<1>2. \A t \in Tasks : at[t] = Task /\ at[t].pc = "idle"
  BY TaskFields DEF Init
<1>3. at \in [Tasks -> TaskType]
  BY TaskFields DEF Init
<1>4. NoFence \in FenceType /\ NoFence.active = FALSE
  BY DEF NoFence, FenceType
<1>5. /\ ctl \in [Attempts -> CtlType]
      /\ \A a \in Attempts : /\ ctl[a].held = None /\ ctl[a].fence = NoFence /\ ~ctl[a].takeover
                             /\ ctl[a].users = {} /\ ctl[a].drain = None
  <2>1. PICK n : n = None
    OBVIOUS
  <2>2. PICK f : f = NoFence
    OBVIOUS
  <2>3. ctl = [a \in Attempts |-> [held |-> n, fence |-> f, takeover |-> FALSE,
                                   users |-> {}, drain |-> n]]
    BY <2>1, <2>2 DEF Init
  <2>4. CtlType = [held : Tasks \cup {n}, fence : FenceType, takeover : BOOLEAN,
                   users : SUBSET Tasks, drain : Tasks \cup {n}]
    BY <2>1 DEF CtlType
  <2>5. f \in FenceType
    BY <1>4, <2>2
  <2> QED BY <2>1, <2>2, <2>3, <2>4, <2>5
<1>6. TypeOK
  BY <1>1, <1>3, <1>5 DEF TypeOK
<1>7. \A a \in Attempts : LockInv(a)
  <2> SUFFICES ASSUME NEW a \in Attempts PROVE LockInv(a)
    OBVIOUS
  <2>1. \A u \in TasksOf(a) :
            /\ at[u].pc = "idle" /\ Resting(u) /\ ~Writing(u) /\ ~Cleaning(u) /\ ~Fencing(u)
            /\ ~Asserts(u, "turn") /\ at[u].pc # "idle users" /\ u # None
    BY <1>2, OwnTasks
    DEF Resting, Writing, Cleaning, Fencing, Asserts, FencePcs, FencingPcs, LockedPcs
  <2>2. Flow(a) \in TasksOf(a) /\ Agent(a) \in TasksOf(a) /\ AbortOf(a) \in TasksOf(a)
        /\ None # Flow(a) /\ None # Agent(a)
    BY OwnTasks
  <2>3. \A t \in TasksOf(a) : Placed(t)
    BY <2>1 DEF Placed, FlowAt, AgentAt, AbortAt, WriterAt
  <2>4. Phases(a) /\ Controlled(a) /\ Shared(a)
    BY <1>5, <2>1, <2>2 DEF Phases, Controlled, Shared, Aborted
  <2>5. Drained(a) /\ Cleaned(a) /\ AgentHolds(a)
    BY <1>5, <2>1, <2>2 DEF Drained, Cleaned, AgentHolds
  <2>6. Freed(a) /\ GaveUp(a)
    BY <1>1, <2>1, <2>2 DEF Freed, GaveUp
  <2> QED BY <2>3, <2>4, <2>5, <2>6 DEF LockInv
<1>8. Fences
  BY <1>2, <1>4, <1>5 DEF Fences, Ready, FencePcs
<1> QED BY <1>6, <1>7, <1>8 DEF Locks

\* What is read is a version that there was.
LEMMA ReadVersions ==
    ASSUME TypeOK, NEW t \in Tasks
    PROVE  \A v \in ReadBy(t) : v \in Nat /\ at[t].since <= v /\ v <= Version
  BY TaskAt, VersionType DEF ReadBy

LEMMA StepTypes ==
    ASSUME TypeOK, NEW t \in Tasks, LockInv(t[1]), Step(t)
    PROVE  /\ TypeOK'
           /\ trusted.gen > 0 => trusted'.gen > 0
           /\ log' = log \/ log' = Append(log, "own")
<1>1. t[1] \in Attempts /\ t \in TasksOf(t[1])
  BY TasksOfAttempts
<1>2. /\ at' \in [Tasks -> TaskType] /\ ctl' \in [Attempts -> CtlType] /\ LockStep(t)
      /\ owner' \in Attempts \cup {None} /\ streams' \in [Attempts -> Nat] /\ intruded' = intruded
      /\ TaskData(t) /\ TrustData(t)
  BY DEF Step, LockStep
<1>3. log' = log \/ log' = Append(log, "own")
  BY <1>2, Zenon DEF TaskData
<1>4. log' \in Seq({"own"} \cup OtherKinds)
  <2>1. PICK S : S = {"own"} \cup OtherKinds
    OBVIOUS
  <2>2. log \in Seq(S) /\ "own" \in S
    BY <2>1 DEF TypeOK
  <2>3. Append(log, "own") \in Seq(S)
    BY <2>2
  <2> QED BY <1>3, <2>1, <2>2, <2>3
<1>5. lock' \in Tasks \cup {None, Other}
  BY <1>1, <1>2, LockGoes DEF TypeOK
<1>6. /\ trusted' \in [ver : Nat, gen : Nat, base : Nat] /\ published' \in [ver : Nat, gen : Nat]
      /\ lastGen' \in Nat /\ (trusted.gen > 0 => trusted'.gen > 0)
  <2>1. /\ trusted \in [ver : Nat, gen : Nat, base : Nat] /\ published \in [ver : Nat, gen : Nat]
        /\ lastGen \in Nat
    BY DEF TypeOK
  <2>2. CASE UNCHANGED <<trusted, published, lastGen>>
    BY <2>1, <2>2
  <2>3. CASE /\ trusted.gen = 0
             /\ \E v \in ReadBy(t) : trusted' = [ver |-> v, gen |-> lastGen + 1, base |-> v]
             /\ lastGen' = lastGen + 1 /\ UNCHANGED published
    BY <2>1, <2>3, ReadVersions
  <2>4. CASE \E v \in ReadBy(t) :
                /\ trusted' = [trusted EXCEPT !.ver = v, !.gen = lastGen + 1]
                /\ published' = [ver |-> v, gen |-> lastGen + 1]
                /\ lastGen' = lastGen + 1
    <3>1. PICK v \in ReadBy(t) : /\ trusted' = [trusted EXCEPT !.ver = v, !.gen = lastGen + 1]
                                 /\ published' = [ver |-> v, gen |-> lastGen + 1]
                                 /\ lastGen' = lastGen + 1
      BY <2>4
    <3>2. v \in Nat
      BY ReadVersions
    <3>3. PICK g \in Nat : g = lastGen + 1 /\ g > 0
      BY <2>1
    <3>4. trusted' = [trusted EXCEPT !.ver = v, !.gen = g] /\ published' = [ver |-> v, gen |-> g]
          /\ lastGen' = g
      BY <3>1, <3>3
    <3>5. trusted' \in [ver : Nat, gen : Nat, base : Nat] /\ trusted'.gen = g
      BY <2>1, <3>2, <3>4
    <3>6. published' \in [ver : Nat, gen : Nat]
      BY <3>2, <3>4
    <3> QED BY <3>3, <3>4, <3>5, <3>6
  <2> QED BY <1>2, <2>2, <2>3, <2>4 DEF TrustData
<1>7. intruded' \subseteq Attempts
  BY <1>2 DEF TypeOK
<1> QED BY <1>2, <1>3, <1>4, <1>5, <1>6, <1>7 DEF TypeOK

LEMMA StepKeepsFences ==
    ASSUME TypeOK, Fences, NEW t \in Tasks, LockInv(t[1]), Step(t)
    PROVE  Fences'
<1>1. /\ t[1] \in Attempts /\ \A b \in Attempts : b # t[1] => ctl'[b] = ctl[b]
      /\ \A u \in Tasks : u # t => at'[u] = at[u]
      /\ TaskData(t) /\ FenceData(t)
  BY TasksOfAttempts DEF Step, LockStep
<1>2. trusted.gen > 0 => trusted'.gen > 0
  BY StepTypes
<1>3. ctl'[t[1]].fence.active => ctl[t[1]].fence.active \/ trusted.gen > 0
  BY <1>1, Zenon DEF FenceData
<1>4. ctl[t[1]].fence.active => ctl'[t[1]].fence.active
  BY <1>1, Zenon DEF FenceData
<1>5. \A a \in Attempts : ctl'[a].fence.active => trusted'.gen > 0
  BY <1>1, <1>2, <1>3 DEF Fences
<1>6. /\ at'[t].pc = "free" => trusted'.gen > 0
      /\ at'[t].pc \in FencePcs => ctl[t[1]].fence.active /\ ctl'[t[1]].fence.active
  BY <1>1, Zenon DEF TaskData
<1>7. \A u \in Tasks : u[1] \in Attempts
  BY TasksOfAttempts
<1>8. \A u \in Tasks : Ready(u)'
  <2> SUFFICES ASSUME NEW u \in Tasks PROVE Ready(u)'
    OBVIOUS
  <2>1. CASE u = t
    BY <1>5, <1>6, <1>7, <2>1 DEF Ready
  <2>2. CASE u # t
    <3>1. at'[u] = at[u] /\ Ready(u) /\ u[1] \in Attempts
      BY <1>1, <1>7, <2>2 DEF Fences
    <3>2. ctl[u[1]].fence.active => ctl'[u[1]].fence.active
      BY <1>1, <1>4, <3>1
    <3> QED BY <1>2, <3>1, <3>2 DEF Ready
  <2> QED BY <2>1, <2>2
<1> QED BY <1>5, <1>8 DEF Fences

LEMMA SubmitKeepsLocks ==
    ASSUME Locks, NEW a \in Attempts, Submit(a)
    PROVE  Locks'
<1>1. /\ TypeOK /\ (\A b \in Attempts : LockInv(b)) /\ Fences
      /\ UNCHANGED <<log, lock, owner, ctl, trusted, published, lastGen, streams, intruded>>
  BY DEF Locks, Submit, FileKept, TrustKept, RestKept
<1>2. /\ at' \in [Tasks -> TaskType]
      /\ \A u \in Tasks : u # Flow(a) /\ u # Agent(a) => at'[u] = at[u]
      /\ at'[Flow(a)].pc = "prompt" /\ at'[Agent(a)].pc = "turn"
  BY <1>1, SubmitMoves
<1>3. TypeOK'
  BY <1>1, <1>2 DEF TypeOK
<1>4. LockInv(a)'
  BY <1>1, SubmitKeeps
<1>5. \A b \in Attempts : b # a => LockInv(b)'
  <2> SUFFICES ASSUME NEW b \in Attempts, b # a PROVE LockInv(b)'
    OBVIOUS
  <2>1. \A u \in TasksOf(b) : u \in Tasks /\ u # Flow(a) /\ u # Agent(a)
    BY OwnTasks
  <2>2. Untouched(b)
    BY <1>1, <1>2, <2>1 DEF Untouched
  <2> QED BY <1>1, <2>2, LockInvUntouched
<1>6. Fences'
  <2>1. \A u \in Tasks : Ready(u)'
    <3> SUFFICES ASSUME NEW u \in Tasks PROVE Ready(u)'
      OBVIOUS
    <3>1. CASE u = Flow(a) \/ u = Agent(a)
      <4>1. at'[u].pc \in {"prompt", "turn"}
        BY <1>2, <3>1
      <4> QED BY <4>1 DEF Ready, FencePcs
    <3>2. CASE u # Flow(a) /\ u # Agent(a)
      BY <1>1, <1>2, <3>2 DEF Fences, Ready
    <3> QED BY <3>1, <3>2
  <2> QED BY <1>1, <2>1 DEF Fences
<1> QED BY <1>3, <1>4, <1>5, <1>6 DEF Locks

\* Others hold the lock under no name of the attempts.
LEMMA OthersUntouched ==
    ASSUME NEW b \in Attempts, UNCHANGED <<ctl, at>>,
           lock' = lock \/ (lock \in {None, Other} /\ lock' \in {None, Other})
    PROVE  Untouched(b)
<1>1. \A u \in TasksOf(b) : u # None /\ u # Other
  BY OwnTasks
<1> QED BY <1>1 DEF Untouched

LEMMA OthersKeepLocks ==
    ASSUME Locks, Elsewhere \/ \E kind \in OtherKinds : OtherWrites(kind)
    PROVE  Locks'
<1>1. TypeOK /\ (\A b \in Attempts : LockInv(b)) /\ Fences
  BY DEF Locks
<1>2. /\ UNCHANGED <<ctl, at, trusted, published, lastGen>>
      /\ lock' = lock \/ (lock \in {None, Other} /\ lock' \in {None, Other})
  BY DEF Elsewhere, OtherWrites, TrustKept
<1>3. \A b \in Attempts : LockInv(b)'
  BY <1>1, <1>2, OthersUntouched, LockInvUntouched
<1>4. Fences'
  BY <1>1, <1>2 DEF Fences, Ready
<1>5. TypeOK'
  <2>1. CASE Elsewhere
    BY <1>1, <2>1 DEF TypeOK, Elsewhere
  <2>2. CASE \E kind \in OtherKinds : OtherWrites(kind)
    BY <1>1, <2>2 DEF TypeOK, OtherWrites, TrustKept, RestKept
  <2> QED BY <2>1, <2>2
<1> QED BY <1>3, <1>4, <1>5 DEF Locks

LEMMA NextLocks ==
    ASSUME Locks, [Next]_vars
    PROVE  Locks'
<1>1. TypeOK /\ (\A a \in Attempts : LockInv(a)) /\ Fences /\ \A t \in Tasks : Ready(t)
  BY DEF Locks, Fences
<1>2. ASSUME NEW t \in Tasks, Step(t) PROVE Locks'
  <2>1. t[1] \in Attempts
    BY TasksOfAttempts
  <2> QED BY <1>1, <1>2, <2>1, StepTypes, StepKeepsFences, StepKeepsLocks DEF Locks
<1>3. \/ \E t \in Tasks : Step(t)
      \/ \E a \in Attempts : Submit(a)
      \/ \E kind \in OtherKinds : OtherWrites(kind)
      \/ Elsewhere
  BY <1>1, NextSteps
<1> QED BY <1>2, <1>3, SubmitKeepsLocks, OthersKeepLocks

\* The variables have their types, and every lock, use and drain is where the tasks are that
\* give it back: the inductive invariant of run/attempt.session-lock.ts.
THEOREM LocksAlways == Spec => []Locks
<1>1. Init => Locks
  BY InitLocks
<1>2. Locks /\ [Next]_vars => Locks'
  BY NextLocks
<1> QED BY <1>1, <1>2, PTL DEF Spec

LEMMA WritersHaveLock == Locks => WritesUnderLock
<1> SUFFICES ASSUME Locks, NEW t \in Tasks, at[t].pc \in {"running", "flush"}
             PROVE  lock = at[t].key \/ Left(t[1])
  BY DEF WritesUnderLock
<1>1. PICK a : a = t[1]
  OBVIOUS
<1>2. a \in Attempts /\ t \in TasksOf(a) /\ LockInv(a)
  BY <1>1, TasksOfAttempts DEF Locks
<1>3. CASE at[t].pc = "running"
  <2>1. Writing(t)
    BY <1>3 DEF Writing, LockedPcs
  <2>2. CASE t = Flow(a) /\ Aborted(a)
    BY <1>1, <1>3, <2>2 DEF Left
  <2>3. CASE t \in ctl[a].users /\ ~(t = Flow(a) /\ Aborted(a))
    BY <1>2, <2>3 DEF LockInv, Shared, Controlled
  <2>4. CASE t \notin ctl[a].users
    BY <1>2, <2>1, <2>4 DEF LockInv, Shared
  <2> QED BY <2>2, <2>3, <2>4
<1>4. CASE at[t].pc = "flush"
  <2>1. Cleaning(t)
    BY <1>4 DEF Cleaning
  <2>2. t = Flow(a)
    BY <1>2, <2>1, Workers
  <2>3. InHand(a, at[t].key)
    BY <1>2, <2>1, <2>2 DEF LockInv, Cleaned
  <2> QED BY <1>1, <1>4, <2>2, <2>3 DEF InHand, Lost, Left
<1> QED BY <1>3, <1>4

\* Whoever writes the session file does so under the write lock, its own or the one its
\* controller holds, unless an abort made the flow go on without the agent: neither a stream,
\* the cleanup nor the end of the attempt takes the lock away under a writer.
THEOREM WritesUnderLockHolds == Spec => []WritesUnderLock
  BY LocksAlways, WritersHaveLock, PTL

LEMMA OverHoldsNothing == Locks => NothingHeldAfterwards
<1> SUFFICES ASSUME Locks, NEW a \in Attempts, at[Flow(a)].pc = "over"
             PROVE  /\ lock # Flow(a)
                    /\ ~Aborted(a) => lock # Agent(a) /\ ctl[a].held = None /\ ctl[a].drain = None
  BY DEF NothingHeldAfterwards
<1>1. LockInv(a) /\ Freed(a) /\ GaveUp(a)
  BY DEF Locks, LockInv
<1>2. ~Cleaning(Flow(a)) /\ ~Writing(Flow(a))
  BY DEF Cleaning, Writing, Asserts, FencePcs, LockedPcs
<1>3. lock # Flow(a)
  BY <1>1, <1>2 DEF Freed, GaveUp
<1>4. ASSUME ~Aborted(a) PROVE lock # Agent(a) /\ ctl[a].held = None /\ ctl[a].drain = None
  <2>1. ctl[a].held = None /\ ctl[a].drain = None
    BY <1>1, <1>4 DEF GaveUp
  <2>2. ~Handed(a, Agent(a))
    BY <1>1, <2>1, NobodyDrains DEF Handed
  <2>3. Agent(a) # None
    BY OwnTasks
  <2> QED BY <1>1, <1>2, <2>1, <2>2, <2>3 DEF Freed
<1> QED BY <1>3, <1>4

\* An attempt that is over holds nothing: not the lock its flow acquired, and unless it was
\* aborted no lock of its agent's, no lock in its controller and no drain.
THEOREM NothingHeldAfterwardsHolds == Spec => []NothingHeldAfterwards
  BY LocksAlways, OverHoldsNothing, PTL

-----------------------------------------------------------------------------
(* What is published *)

\* What the tasks and the fences remember are versions that there were.
Pasts ==
    /\ \A a \in Attempts : ctl[a].fence.fp <= Version /\ ctl[a].fence.snap <= Version
    /\ \A t \in Tasks : at[t].since <= Version

Trusts ==
    /\ trusted.base <= trusted.ver /\ trusted.ver <= Version
    /\ trusted.gen = 0 => published.gen = 0
    /\ published.gen > 0 => published.ver = trusted.ver
    /\ PublishedIsOwn

\* From the version it read before it writes on, the file has only own writes.
OwnSince(t) ==
    /\ at[t].pc = "stat" => \A i \in at[t].since + 1..Version : log[i] = "own"
    /\ at[t].pc \in {"running", "ran"} =>
          at[t].read <= Version /\ \A i \in at[t].read + 1..Version : log[i] = "own"
    /\ at[t].pc = "ran" => at[t].read <= at[t].since

WritersOwn == \A t \in Tasks : Writer(t) => OwnSince(t)

Publishes == Pasts /\ Trusts /\ WritersOwn

LEMMA Grows ==
    ASSUME TypeOK, NEW kind, log' = log \/ log' = Append(log, kind)
    PROVE  /\ Len(log) \in Nat /\ Len(log') \in Nat /\ Len(log) <= Len(log')
           /\ \A i \in 1..Len(log) : log'[i] = log[i]
           /\ \A i \in Len(log) + 1..Len(log') : log'[i] = kind /\ i = Len(log')
  BY DEF TypeOK

\* Who of an attempt may work while somebody else holds the lock.
LEMMA Locked ==
    ASSUME NEW a \in Attempts, LockInv(a), lock = Other
    PROVE  /\ ctl[a].held = None
           /\ \A u \in TasksOf(a) : Writing(u) => u = Flow(a) /\ Aborted(a)
           /\ \A u \in TasksOf(a) : Fencing(u) => Aborted(a)
           /\ Cleaning(Flow(a)) => Aborted(a)
           /\ Asserts(Agent(a), "turn") => Aborted(a)
<1>1. \A u \in TasksOf(a) : lock # u
  BY OwnTasks
<1>2. ctl[a].held = None
  BY <1>1, OwnTasks DEF LockInv, Controlled
<1>3. \A k : InHand(a, k) => Aborted(a)
  BY <1>1, OwnTasks DEF InHand, Lost
<1>4. \A u \in TasksOf(a) : Writing(u) => u = Flow(a) /\ Aborted(a)
  BY <1>1, <1>2 DEF LockInv, Shared
<1>5. \A u \in TasksOf(a) : Fencing(u) => InHand(a, at[u].key)
  BY DEF LockInv, Drained
<1>6. Cleaning(Flow(a)) => InHand(a, at[Flow(a)].key)
  BY DEF LockInv, Cleaned
<1>7. Asserts(Agent(a), "turn") => Aborted(a)
  BY <1>2, OwnTasks DEF LockInv, AgentHolds
<1> QED BY <1>2, <1>3, <1>4, <1>5, <1>6, <1>7

LEMMA StepKeepsPasts ==
    ASSUME TypeOK, Pasts, NEW t \in Tasks, LockInv(t[1]), Step(t)
    PROVE  Pasts'
<1>1. /\ t[1] \in Attempts /\ \A b \in Attempts : b # t[1] => ctl'[b] = ctl[b]
      /\ \A u \in Tasks : u # t => at'[u] = at[u]
      /\ TaskData(t) /\ FenceData(t)
  BY TasksOfAttempts DEF Step, LockStep
<1>2. log' = log \/ log' = Append(log, "own")
  BY <1>1, Zenon DEF TaskData
<1>3. Len(log) \in Nat /\ Len(log') \in Nat /\ Len(log) <= Len(log')
  BY <1>2, Grows
<1>4. \A b \in Attempts : ctl[b].fence.fp \in Nat /\ ctl[b].fence.snap \in Nat
  BY DEF TypeOK, CtlType, FenceType
<1>5. \A u \in Tasks : at[u].since \in Nat
  BY TaskAt
<1>6. /\ ctl'[t[1]].fence.fp \in {ctl[t[1]].fence.fp} \cup 0..Len(log')
      /\ ctl'[t[1]].fence.snap \in {ctl[t[1]].fence.snap} \cup 0..Len(log')
  <2>1. \/ ctl'[t[1]].fence = ctl[t[1]].fence
        \/ /\ ctl'[t[1]].fence.fp \in {ctl[t[1]].fence.fp} \cup 0..Len(log')
           /\ ctl'[t[1]].fence.snap \in {ctl[t[1]].fence.snap} \cup 0..Len(log')
    BY <1>1, Zenon DEF FenceData
  <2> QED BY <2>1, Zenon
<1>7. at'[t].since \in {at[t].since} \cup 0..Len(log')
  BY <1>1, Zenon DEF TaskData
<1>8. ASSUME NEW b \in Attempts
      PROVE  ctl'[b].fence.fp <= Len(log') /\ ctl'[b].fence.snap <= Len(log')
  <2>1. ctl[b].fence.fp <= Len(log) /\ ctl[b].fence.snap <= Len(log)
    BY DEF Pasts, Version
  <2>2. CASE b = t[1]
    BY <1>3, <1>4, <1>6, <2>1, <2>2
  <2>3. CASE b # t[1]
    <3>1. ctl'[b] = ctl[b]
      BY <1>1, <2>3
    <3> QED BY <1>3, <1>4, <2>1, <3>1
  <2> QED BY <2>2, <2>3
<1>9. ASSUME NEW u \in Tasks
      PROVE  at'[u].since <= Len(log')
  <2>1. at[u].since <= Len(log)
    BY DEF Pasts, Version
  <2>2. CASE u = t
    BY <1>3, <1>5, <1>7, <2>1, <2>2
  <2>3. CASE u # t
    <3>1. at'[u] = at[u]
      BY <1>1, <2>3
    <3> QED BY <1>3, <1>5, <2>1, <3>1
  <2> QED BY <2>2, <2>3
<1> QED BY <1>8, <1>9 DEF Pasts, Version

LEMMA StepKeepsWriters ==
    ASSUME TypeOK, WritersOwn, NEW t \in Tasks, LockInv(t[1]), Step(t)
    PROVE  WritersOwn'
<1>1. (\A u \in Tasks : u # t => at'[u] = at[u]) /\ TaskData(t)
  BY DEF Step, LockStep
<1>2. log' = log \/ log' = Append(log, "own")
  BY <1>1, Zenon DEF TaskData
<1>3. /\ Len(log) \in Nat /\ Len(log') \in Nat /\ Len(log) <= Len(log')
      /\ \A i \in 1..Len(log) : log'[i] = log[i]
      /\ \A i \in Len(log) + 1..Len(log') : log'[i] = "own"
  BY <1>2, Grows
<1>4. \A m \in Nat : (\A i \in m + 1..Len(log) : log[i] = "own")
                         => \A i \in m + 1..Len(log') : log'[i] = "own"
  BY <1>3
<1> SUFFICES ASSUME NEW u \in Tasks, Writer(u) PROVE OwnSince(u)'
  BY DEF WritersOwn, Writer, Flow, Agent, AbortOf
<1>5. OwnSince(u) /\ at[u].since \in Nat /\ at[u].read \in Nat
  BY TaskAt DEF WritersOwn
<1>6. CASE u # t
  <2>1. at'[u] = at[u]
    BY <1>1, <1>6
  <2>2. PICK m \in Nat : m = at[u].since
    BY <1>5
  <2>3. PICK r \in Nat : r = at[u].read
    BY <1>5
  <2>4. at[u].pc = "stat" => \A i \in m + 1..Len(log') : log'[i] = "own"
    BY <1>4, <1>5, <2>2 DEF OwnSince, Version
  <2>5. at[u].pc \in {"running", "ran"} =>
            r <= Len(log') /\ \A i \in r + 1..Len(log') : log'[i] = "own"
    BY <1>3, <1>4, <1>5, <2>3 DEF OwnSince, Version
  <2> QED BY <1>5, <2>1, <2>2, <2>3, <2>4, <2>5 DEF OwnSince, Version
<1>7. CASE u = t
  <2>1. /\ at'[t].pc = "stat" => at'[t].since = Len(log')
        /\ at'[t].pc = "running" => at[t].pc = "stat" /\ at'[t].read \in ReadBy(t) /\ log' = log
        /\ at'[t].pc = "ran" => /\ at[t].pc = "running" /\ at'[t].read = at[t].read
                                /\ at'[t].since = Len(log')
    BY <1>1, Zenon DEF TaskData
  <2>2. at'[t].pc = "stat" => \A i \in at'[t].since + 1..Len(log') : log'[i] = "own"
    BY <1>3, <2>1
  <2>3. ASSUME at'[t].pc = "running"
        PROVE  at'[t].read <= Len(log') /\ \A i \in at'[t].read + 1..Len(log') : log'[i] = "own"
    <3>1. at[t].pc = "stat" /\ at'[t].read \in at[t].since..Len(log) /\ log' = log
      BY <2>1, <2>3 DEF ReadBy, Version
    <3>2. \A i \in at[t].since + 1..Len(log) : log[i] = "own"
      BY <1>5, <1>7, <3>1 DEF OwnSince, Version
    <3> QED BY <1>3, <1>5, <1>7, <3>1, <3>2
  <2>4. ASSUME at'[t].pc = "ran"
        PROVE  /\ at'[t].read <= Len(log') /\ at'[t].read <= at'[t].since
               /\ \A i \in at'[t].read + 1..Len(log') : log'[i] = "own"
    <3>1. at[t].pc = "running" /\ at'[t].read = at[t].read /\ at'[t].since = Len(log')
      BY <2>1, <2>4
    <3>2. at[t].read <= Len(log) /\ \A i \in at[t].read + 1..Len(log) : log[i] = "own"
      BY <1>5, <1>7, <3>1 DEF OwnSince, Version
    <3> QED BY <1>3, <1>4, <1>5, <1>7, <3>1, <3>2
  <2> QED BY <1>7, <2>2, <2>3, <2>4 DEF OwnSince, Version
<1> QED BY <1>6, <1>7

\* Who publishes is a writer.
LEMMA Publishers ==
    ASSUME NEW t \in Tasks, t[2] \in Publishing
    PROVE  Writer(t)
<1>1. t[2] \in Writers
  BY AttemptLockAssumption
<1>2. t[2] \notin {"flow", "agent", "abort"}
  BY <1>1, TaskAssumption
<1>3. \A a : Flow(a)[2] = "flow" /\ Agent(a)[2] = "agent" /\ AbortOf(a)[2] = "abort"
  BY DEF Flow, Agent, AbortOf
<1> QED BY <1>2, <1>3 DEF Writer

LEMMA StepKeepsTrust ==
    ASSUME TypeOK, Trusts, WritersOwn, NEW t \in Tasks, LockInv(t[1]), Step(t)
    PROVE  Trusts'
<1>1. TaskData(t) /\ TrustData(t)
  BY DEF Step
<1>2. log' = log \/ log' = Append(log, "own")
  BY <1>1, Zenon DEF TaskData
<1>3. /\ Len(log) \in Nat /\ Len(log') \in Nat /\ Len(log) <= Len(log')
      /\ \A i \in 1..Len(log) : log'[i] = log[i]
  BY <1>2, Grows
<1>4. /\ trusted \in [ver : Nat, gen : Nat, base : Nat] /\ published \in [ver : Nat, gen : Nat]
      /\ lastGen \in Nat
  BY DEF TypeOK
<1>5. /\ trusted.base <= trusted.ver /\ trusted.ver <= Len(log)
      /\ trusted.gen = 0 => published.gen = 0
      /\ published.gen > 0 => published.ver = trusted.ver
      /\ \A i \in trusted.base + 1..trusted.ver : log[i] = "own"
  BY DEF Trusts, PublishedIsOwn, Version
<1>6. \A v \in ReadBy(t) : v \in Nat /\ at[t].since <= v /\ v <= Len(log)
  BY ReadVersions DEF Version
<1>7. CASE UNCHANGED <<trusted, published, lastGen>>
  <2>1. \A i \in trusted.base + 1..trusted.ver : log'[i] = "own"
    BY <1>3, <1>4, <1>5
  <2> QED BY <1>3, <1>4, <1>5, <1>7, <2>1 DEF Trusts, PublishedIsOwn, Version
<1>8. CASE /\ trusted.gen = 0
           /\ \E v \in ReadBy(t) : trusted' = [ver |-> v, gen |-> lastGen + 1, base |-> v]
           /\ lastGen' = lastGen + 1 /\ UNCHANGED published
  <2>1. PICK v \in ReadBy(t) : trusted' = [ver |-> v, gen |-> lastGen + 1, base |-> v]
    BY <1>8
  <2>2. v \in Nat /\ v <= Len(log)
    BY <1>6
  <2>3. trusted'.ver = v /\ trusted'.base = v /\ published'.gen = 0
    BY <1>5, <1>8, <2>1
  <2> QED BY <1>3, <2>2, <2>3 DEF Trusts, PublishedIsOwn, Version
<1>9. CASE /\ at[t].pc = "ran" /\ trusted.gen > 0 /\ trusted.ver = at[t].read
           /\ t[2] \in Publishing
           /\ \E v \in ReadBy(t) :
                 /\ trusted' = [trusted EXCEPT !.ver = v, !.gen = lastGen + 1]
                 /\ published' = [ver |-> v, gen |-> lastGen + 1]
           /\ lastGen' = lastGen + 1
  <2>1. PICK v \in ReadBy(t) : /\ trusted' = [trusted EXCEPT !.ver = v, !.gen = lastGen + 1]
                               /\ published' = [ver |-> v, gen |-> lastGen + 1]
    BY <1>9
  <2>2. v \in Nat /\ at[t].since <= v /\ v <= Len(log)
    BY <1>6
  <2>3. PICK g \in Nat : g = lastGen + 1 /\ g > 0
    BY <1>4
  <2>4. trusted' = [trusted EXCEPT !.ver = v, !.gen = g] /\ published' = [ver |-> v, gen |-> g]
    BY <2>1, <2>3
  <2>5. trusted'.ver = v /\ trusted'.base = trusted.base /\ trusted'.gen = g /\ published'.ver = v
    BY <1>4, <2>4
  <2>6. OwnSince(t) /\ at[t].read \in Nat /\ at[t].since \in Nat
    BY <1>9, Publishers, TaskAt DEF WritersOwn
  <2>7. /\ at[t].read <= at[t].since
        /\ \A i \in at[t].read + 1..Len(log) : log[i] = "own"
    BY <1>9, <2>6 DEF OwnSince, Version
  <2>8. trusted.base <= v
    BY <1>4, <1>5, <1>9, <2>2, <2>6, <2>7
  <2>9. \A i \in trusted.base + 1..v : log'[i] = "own"
    <3> SUFFICES ASSUME NEW i \in trusted.base + 1..v PROVE log'[i] = "own"
      OBVIOUS
    <3>1. i \in Nat /\ trusted.base + 1 <= i /\ i <= v /\ i \in 1..Len(log)
      BY <1>3, <1>4, <2>2
    <3>2. CASE i <= trusted.ver
      BY <1>3, <1>4, <1>5, <3>1, <3>2
    <3>3. CASE ~(i <= trusted.ver)
      <4>1. i \in at[t].read + 1..Len(log)
        BY <1>3, <1>9, <2>6, <3>1, <3>3
      <4> QED BY <1>3, <2>7, <3>1, <4>1
    <3> QED BY <3>2, <3>3
  <2> QED BY <1>3, <2>2, <2>3, <2>5, <2>8, <2>9 DEF Trusts, PublishedIsOwn, Version
<1> QED BY <1>1, <1>7, <1>8, <1>9 DEF TrustData

LEMMA SubmitKeepsPublishes ==
    ASSUME Locks, Publishes, NEW a \in Attempts, Submit(a)
    PROVE  Publishes'
<1>1. TypeOK /\ LockInv(a) /\ UNCHANGED <<log, ctl, trusted, published>>
  BY DEF Locks, Submit, FileKept, TrustKept
<1>2. /\ \A u \in Tasks : u # Flow(a) /\ u # Agent(a) => at'[u] = at[u]
      /\ \A u \in Tasks : at'[u].since = at[u].since
      /\ at'[Flow(a)].pc = "prompt" /\ at'[Agent(a)].pc = "turn"
  BY <1>1, SubmitMoves
<1>3. \A u \in Tasks : Writer(u) => u # Flow(a) /\ u # Agent(a)
  BY OwnTasks DEF Writer
<1>4. WritersOwn'
  <2> SUFFICES ASSUME NEW u \in Tasks, Writer(u) PROVE OwnSince(u)'
    BY DEF WritersOwn, Writer, Flow, Agent, AbortOf
  <2>1. at'[u] = at[u] /\ OwnSince(u)
    BY <1>2, <1>3 DEF Publishes, WritersOwn
  <2> QED BY <1>1, <2>1 DEF OwnSince, Version
<1>5. Pasts'
  BY <1>1, <1>2 DEF Publishes, Pasts, Version
<1>6. Trusts'
  BY <1>1 DEF Publishes, Trusts, PublishedIsOwn, Version
<1> QED BY <1>4, <1>5, <1>6 DEF Publishes

LEMMA OthersKeepPublishes ==
    ASSUME Locks, Publishes, Elsewhere \/ \E kind \in OtherKinds : OtherWrites(kind)
    PROVE  Publishes'
<1>1. TypeOK /\ \A a \in Attempts : LockInv(a)
  BY DEF Locks
<1>2. UNCHANGED <<ctl, at, trusted, published>>
  BY DEF Elsewhere, OtherWrites, TrustKept
<1>3. CASE Elsewhere
  <2>1. log' = log
    BY <1>3 DEF Elsewhere
  <2>2. Pasts' /\ Trusts'
    BY <1>2, <2>1 DEF Publishes, Pasts, Trusts, PublishedIsOwn, Version
  <2>3. \A u \in Tasks : OwnSince(u)' <=> OwnSince(u)
    BY <1>2, <2>1 DEF OwnSince, Version
  <2> QED BY <2>2, <2>3 DEF Publishes, WritersOwn, Writer, Flow, Agent, AbortOf
<1>4. ASSUME NEW kind \in OtherKinds, OtherWrites(kind) PROVE Publishes'
  <2>1. log' = Append(log, kind) /\ lock = Other
    BY <1>4 DEF OtherWrites
  <2>2. /\ Len(log) \in Nat /\ Len(log') \in Nat /\ Len(log) <= Len(log')
        /\ \A i \in 1..Len(log) : log'[i] = log[i]
    BY <1>1, <2>1, Grows
  <2>3. \A a \in Attempts : ctl[a].fence.fp \in Nat /\ ctl[a].fence.snap \in Nat
    BY <1>1 DEF TypeOK, CtlType, FenceType
  <2>4. \A u \in Tasks : at[u].since \in Nat
    BY <1>1, TaskAt
  <2>5. Pasts'
    BY <1>2, <2>2, <2>3, <2>4 DEF Publishes, Pasts, Version
  <2>6. Trusts'
    <3>1. trusted \in [ver : Nat, gen : Nat, base : Nat]
      BY <1>1 DEF TypeOK
    <3>2. \A i \in trusted.base + 1..trusted.ver : log'[i] = "own"
      BY <2>2, <3>1 DEF Publishes, Trusts, PublishedIsOwn, Version
    <3> QED BY <1>2, <2>2, <3>1, <3>2 DEF Publishes, Trusts, PublishedIsOwn, Version
  <2>7. \A u \in Tasks : Writer(u) => OwnSince(u)'
    <3> SUFFICES ASSUME NEW u \in Tasks, Writer(u) PROVE OwnSince(u)'
      OBVIOUS
    <3>1. u[1] \in Attempts /\ u \in TasksOf(u[1]) /\ u # Flow(u[1])
      BY TasksOfAttempts DEF Writer
    <3>2. ~Writing(u)
      BY <1>1, <2>1, <3>1, Locked
    <3>3. at'[u].pc \notin {"stat", "running", "ran"}
      BY <1>2, <3>2 DEF Writing, LockedPcs
    <3> QED BY <3>3 DEF OwnSince
  <2> QED BY <2>5, <2>6, <2>7 DEF Publishes, WritersOwn, Writer, Flow, Agent, AbortOf
<1> QED BY <1>3, <1>4

LEMMA NextPublishes ==
    ASSUME Locks, Publishes, [Next]_vars
    PROVE  Publishes'
<1>1. TypeOK /\ (\A a \in Attempts : LockInv(a)) /\ \A t \in Tasks : Ready(t)
  BY DEF Locks, Fences
<1>2. ASSUME NEW t \in Tasks, Step(t) PROVE Publishes'
  <2>1. LockInv(t[1])
    BY <1>1, TasksOfAttempts
  <2> QED BY <1>1, <1>2, <2>1, StepKeepsPasts, StepKeepsWriters, StepKeepsTrust DEF Publishes
<1>3. \/ \E t \in Tasks : Step(t)
      \/ \E a \in Attempts : Submit(a)
      \/ \E kind \in OtherKinds : OtherWrites(kind)
      \/ Elsewhere
  BY <1>1, NextSteps
<1> QED BY <1>2, <1>3, SubmitKeepsPublishes, OthersKeepPublishes

LEMMA InitPublishes == Init => Publishes
<1> SUFFICES ASSUME Init PROVE Publishes
  OBVIOUS
<1>1. /\ log = <<>> /\ Len(log) = 0
      /\ trusted = [ver |-> 0, gen |-> 0, base |-> 0] /\ published = [ver |-> 0, gen |-> 0]
  BY DEF Init
<1>2. \A t \in Tasks : at[t].pc = "idle" /\ at[t].since = 0
  BY TaskFields DEF Init
<1>3. \A a \in Attempts : ctl[a].fence = NoFence
  <2>1. PICK n : n = None
    OBVIOUS
  <2>2. PICK f : f = NoFence
    OBVIOUS
  <2>3. ctl = [a \in Attempts |-> [held |-> n, fence |-> f, takeover |-> FALSE,
                                   users |-> {}, drain |-> n]]
    BY <2>1, <2>2 DEF Init
  <2> QED BY <2>2, <2>3
<1>4. NoFence.fp = 0 /\ NoFence.snap = 0
  BY DEF NoFence
<1>5. Pasts
  BY <1>1, <1>2, <1>3, <1>4 DEF Pasts, Version
<1>6. Trusts
  BY <1>1 DEF Trusts, PublishedIsOwn, Version
<1>7. WritersOwn
  BY <1>2 DEF WritersOwn, OwnSince
<1> QED BY <1>5, <1>6, <1>7 DEF Publishes

\* What is remembered of the file is a version it had, what is published is trusted, and after
\* the version a writer read under the lock there are only own writes.
THEOREM PublishesAlways == Spec => []Publishes
<1>1. Init => Locks /\ Publishes
  BY InitLocks, InitPublishes
<1>2. Locks /\ Publishes /\ [Next]_vars => Locks' /\ Publishes'
  BY NextLocks, NextPublishes
<1> QED BY <1>1, <1>2, PTL DEF Spec

\* Between the first state of the file this process trusted and the last one it published as
\* its own, every write is its own: nobody else's change is ever published with them.
THEOREM PublishedIsOwnHolds == Spec => []PublishedIsOwn
<1>1. Publishes => PublishedIsOwn
  BY DEF Publishes, Trusts
<1> QED BY <1>1, PublishesAlways, PTL

-----------------------------------------------------------------------------
(* What is noticed *)

\* While the lock is given up, a fence is set.
FenceSet(a) ==
    \/ ctl[a].fence.active \/ Aborted(a) \/ Past(a)
    \/ at[Flow(a)].pc \in {"idle", "create"}
    \/ ctl[a].held # None \/ Cleaning(Flow(a)) \/ \E u \in TasksOf(a) : Fencing(u)

\* The fence is behind the foreign write i, so whoever asserts it will fail.
Behind(a, i) ==
    /\ log[i] = "foreign"
    /\ at[Flow(a)].pc \notin {"idle", "create"}
    /\ ctl[a].fence.active /\ ctl[a].fence.fp < i /\ ctl[a].fence.snap < i
    /\ trusted.base < i
    /\ ctl[a].held # None => Asserts(Agent(a), "turn")
    /\ \A u \in TasksOf(a) :
          /\ at[u].pc \notin LockedPcs \cup FencingPcs \cup {"flush", "adopt"}
          /\ at[u].pc \in {"assert", "rewrite"} => i <= at[u].since
          /\ at[u].pc = "rewrite" => at[u].seen < i

Noticed == \A a \in intruded : Aborted(a) \/ Past(a) \/ \E i \in 1..Version : Behind(a, i)

Notices == (\A a \in Attempts : FenceSet(a)) /\ Noticed

\* An abort stays, and the flow does not begin anew.
LEMMA StaysOn ==
    ASSUME NEW a \in Attempts, NEW t \in TasksOf(a), LockInv(a), LockStep(t)
    PROVE  /\ Aborted(a) => Aborted(a)'
           /\ at[Flow(a)].pc \notin {"idle", "create"} => at'[Flow(a)].pc \notin {"idle", "create"}
<1>0. /\ t[1] = a /\ \A u \in Tasks : u # t => at'[u] = at[u]
      /\ Flow(a) \in Tasks /\ AbortOf(a) \in Tasks /\ Flow(a) # AbortOf(a)
  BY OwnTasks DEF LockStep
<1>1. at'[t].pc = "idle" => t # AbortOf(a) /\ t # Flow(a)
  <2>1. CASE Alike(t)
    BY <1>0, <2>1 DEF Alike, InPhase
  <2>2. CASE Ends(t)
    <3>1. at'[t].pc = "cleanup" \/ at'[t].pc = "done"
      BY <2>2 DEF Ends, Moves
    <3> QED BY <3>1
  <2>3. CASE FailsTurn(t) \/ Flushes(t) \/ Begins(t) \/ TakesToFree(t) \/ TakesToFence(t) \/ Creates(t)
    BY <2>3 DEF FailsTurn, Flushes, Begins, TakesToFree, TakesToFence, Creates, Moves
  <2>4. CASE TakesForCleanup(t) \/ Shares(t) \/ LocksForWrite(t) \/ LocksForTurn(t) \/ LocksForCleanup(t)
    BY <2>4 DEF TakesForCleanup, Shares, LocksForWrite, LocksForTurn, LocksForCleanup, Moves
  <2>5. CASE TakesNothing(t)
    <3>1. at[t].pc \in DrainPcs /\ at'[t].pc = Onward(t)
      BY <2>5 DEF TakesNothing, Moves, DrainPcs
    <3> QED BY <3>1, OnwardPlaced
  <2>6. CASE Frees(t)
    <3>1. at[t].pc \in DrainPcs /\ at'[t].pc = at[t].then
      BY <2>6 DEF Frees, Moves, DrainPcs, FencingPcs
    <3> QED BY <3>1, Drainers
  <2> QED BY <2>1, <2>2, <2>3, <2>4, <2>5, <2>6 DEF LockStep, Throws
<1>2. t = Flow(a) /\ at'[t].pc = "create" => at[t].pc = "idle"
  <2>1. CASE Alike(t)
    BY <1>0, <2>1 DEF Alike, InPhase
  <2>2. CASE Ends(t)
    <3>1. at'[t].pc = "cleanup" \/ at'[t].pc = "done"
      BY <2>2 DEF Ends, Moves
    <3> QED BY <3>1
  <2>3. CASE FailsTurn(t) \/ Flushes(t) \/ Begins(t) \/ TakesToFree(t) \/ TakesToFence(t) \/ Creates(t)
    BY <2>3 DEF FailsTurn, Flushes, Begins, TakesToFree, TakesToFence, Creates, Moves
  <2>4. CASE TakesForCleanup(t) \/ Shares(t) \/ LocksForWrite(t) \/ LocksForTurn(t) \/ LocksForCleanup(t)
    BY <2>4 DEF TakesForCleanup, Shares, LocksForWrite, LocksForTurn, LocksForCleanup, Moves
  <2>5. CASE TakesNothing(t)
    <3>1. at[t].pc \in DrainPcs /\ at'[t].pc = Onward(t)
      BY <2>5 DEF TakesNothing, Moves, DrainPcs
    <3> QED BY <3>1, OnwardPlaced
  <2>6. CASE Frees(t)
    <3>1. at[t].pc \in DrainPcs /\ at'[t].pc = at[t].then
      BY <2>6 DEF Frees, Moves, DrainPcs, FencingPcs
    <3> QED BY <3>1, Drainers
  <2> QED BY <2>1, <2>2, <2>3, <2>4, <2>5, <2>6 DEF LockStep, Throws
<1>3. Aborted(a) => Aborted(a)'
  BY <1>0, <1>1 DEF Aborted
<1>4. at[Flow(a)].pc \notin {"idle", "create"} => at'[Flow(a)].pc \notin {"idle", "create"}
  BY <1>0, <1>1, <1>2
<1> QED BY <1>3, <1>4

\* Where the lock goes when the controller gives it up.
LEMMA HeldGoes ==
    ASSUME NEW a \in Attempts, NEW t \in TasksOf(a), LockInv(a), LockStep(t),
           ctl[a].held # None, ctl'[a].held = None
    PROVE  \/ Cleaning(Flow(a))' \/ Past(a)' \/ Fencing(t)'
           \/ FailsTurn(t)
<1>0. t[1] = a
  BY OwnTasks
<1>1. CASE Alike(t) \/ Ends(t) \/ Flushes(t) \/ Begins(t) \/ Frees(t) \/ Shares(t)
  BY <1>0, <1>1 DEF Alike, Ends, Flushes, Begins, Frees, Shares, Controls
<1>2. CASE TakesNothing(t)
  BY <1>0, <1>2 DEF TakesNothing
<1>3. CASE LocksForWrite(t) \/ LocksForCleanup(t)
  BY <1>0, <1>3 DEF LocksForWrite, LocksForCleanup, Kept, Controls
<1>4. CASE Creates(t) \/ LocksForTurn(t)
  BY <1>0, <1>4, OwnTasks DEF Creates, LocksForTurn, Controls
<1>5. CASE TakesForCleanup(t)
  <2>1. /\ at[t].pc \in DrainPcs /\ at[t].then = "flush"
        /\ at'[t].pc \in {"assert", "flush"} /\ at'[t].then = "flush"
    BY <1>5 DEF TakesForCleanup, Moves, DrainPcs
  <2>2. t = Flow(a)
    BY <2>1, Drainers
  <2> QED BY <2>1, <2>2 DEF Cleaning, Asserts, FencePcs
<1>6. CASE TakesToFree(t)
  <2>1. at[t].pc \in DrainPcs /\ at[t].then = "over" /\ at'[t].pc = "over"
    BY <1>6 DEF TakesToFree, Moves, DrainPcs
  <2>2. t = Flow(a)
    BY <2>1, Drainers
  <2> QED BY <2>1, <2>2 DEF Past
<1>7. CASE TakesToFence(t)
  BY <1>7 DEF TakesToFence, Moves, Fencing, FencingPcs
<1>8. CASE FailsTurn(t)
  BY <1>8
<1> QED BY <1>1, <1>2, <1>3, <1>4, <1>5, <1>6, <1>7, <1>8 DEF LockStep, Throws

LEMMA CleaningGoes ==
    ASSUME NEW a \in Attempts, NEW t \in TasksOf(a), LockInv(a), LockStep(t), Cleaning(Flow(a))
    PROVE  Cleaning(Flow(a))' \/ Past(a)'
<1>0. t[1] = a /\ Flow(a) \in Tasks /\ \A u \in Tasks : u # t => at'[u] = at[u]
  BY OwnTasks DEF LockStep
<1>1. CASE t # Flow(a)
  BY <1>0, <1>1, SameTask
<1>2. CASE t = Flow(a)
  <2>0. /\ at[t].pc \in {"assert", "compare", "rewrite", "adopt", "flush"}
        /\ ~Writing(t) /\ ~Asserts(t, "turn")
    BY <1>2, Exclusive DEF Cleaning, Asserts, FencePcs
  <2>1. CASE Alike(t)
    BY <1>2, <2>1 DEF Alike
  <2>2. CASE Flushes(t)
    BY <1>2, <2>2 DEF Flushes, Moves, Past
  <2>3. ~Ends(t) /\ ~FailsTurn(t)
    BY <2>0 DEF Ends, FailsTurn
  <2>4. ~Begins(t) /\ ~TakesToFree(t) /\ ~TakesToFence(t) /\ ~TakesForCleanup(t) /\ ~TakesNothing(t)
    BY <2>0 DEF Begins, TakesToFree, TakesToFence, TakesForCleanup, TakesNothing
  <2>5. ~Frees(t) /\ ~Shares(t) /\ ~LocksForWrite(t)
    BY <2>0 DEF Frees, Shares, LocksForWrite
  <2>6. ~Creates(t) /\ ~LocksForTurn(t) /\ ~LocksForCleanup(t)
    BY <2>0 DEF Creates, LocksForTurn, LocksForCleanup
  <2> QED BY <2>1, <2>2, <2>3, <2>4, <2>5, <2>6 DEF LockStep, Throws
<1> QED BY <1>1, <1>2

LEMMA FencingGoes ==
    ASSUME NEW a \in Attempts, NEW t \in TasksOf(a), LockInv(a), LockStep(t), Fencing(t)
    PROVE  Fencing(t)' \/ at[t].pc = "free"
<1>0. at[t].pc \in {"set fence", "free"} /\ ~Writing(t) /\ ~Asserts(t, "turn") /\ ~Cleaning(t)
  BY Exclusive DEF Fencing, FencingPcs
<1>1. CASE Alike(t)
  BY <1>1 DEF Alike
<1>2. ~Ends(t) /\ ~FailsTurn(t) /\ ~Flushes(t)
  BY <1>0 DEF Ends, FailsTurn, Flushes
<1>3. ~Begins(t) /\ ~TakesToFree(t) /\ ~TakesToFence(t) /\ ~TakesForCleanup(t) /\ ~TakesNothing(t)
  BY <1>0 DEF Begins, TakesToFree, TakesToFence, TakesForCleanup, TakesNothing
<1>4. Frees(t) => at[t].pc = "free"
  BY DEF Frees
<1>5. ~Shares(t) /\ ~LocksForWrite(t)
  BY <1>0 DEF Shares, LocksForWrite
<1>6. ~Creates(t) /\ ~LocksForTurn(t) /\ ~LocksForCleanup(t)
  BY <1>0 DEF Creates, LocksForTurn, LocksForCleanup
<1> QED BY <1>1, <1>2, <1>3, <1>4, <1>5, <1>6 DEF LockStep, Throws

LEMMA StepKeepsFenceSet ==
    ASSUME NEW a \in Attempts, NEW t \in TasksOf(a), LockInv(a), Ready(t), Step(t), FenceSet(a)
    PROVE  FenceSet(a)'
<1>0. t \in Tasks /\ t[1] = a /\ Flow(a) \in TasksOf(a)
  BY OwnTasks
<1>1. LockStep(t) /\ FlowData(t) /\ FenceData(t)
  BY DEF Step
<1>2. /\ ctl[a].fence.active => ctl'[a].fence.active
      /\ at[t].pc = "free" => ctl'[a].fence.active
  BY <1>0, <1>1, Zenon DEF FenceData
<1>3. CASE ctl[a].fence.active \/ Aborted(a)
  BY <1>1, <1>2, <1>3, StaysOn DEF FenceSet
<1>4. CASE Past(a)
  <2>1. \A u \in Tasks : u # t => at'[u] = at[u]
    BY <1>1 DEF LockStep
  <2>2. Past(a)'
    <3>1. CASE t = Flow(a)
      BY <1>0, <1>1, <1>4, <3>1, Zenon DEF FlowData
    <3>2. CASE t # Flow(a)
      <4>1. at'[Flow(a)] = at[Flow(a)]
        BY <2>1, <3>2, OwnTasks
      <4> QED BY <1>4, <4>1 DEF Past
    <3> QED BY <3>1, <3>2
  <2> QED BY <2>2 DEF FenceSet
<1>5. CASE at[Flow(a)].pc \in {"idle", "create"}
  <2>1. CASE t = Flow(a)
    <3>1. at'[Flow(a)].pc \in {"create", "over"} \/ Creates(t)
      BY <1>0, <1>1, <1>5, <2>1, Zenon DEF FlowData
    <3>2. at'[Flow(a)].pc = "over" => Past(a)'
      BY DEF Past
    <3>3. Creates(t) => ctl'[a].held # None
      BY <1>0, OwnTasks DEF Creates, Controls
    <3> QED BY <3>1, <3>2, <3>3 DEF FenceSet
  <2>2. CASE t # Flow(a)
    <3>1. at'[Flow(a)] = at[Flow(a)]
      BY <1>1, <2>2, OwnTasks DEF LockStep
    <3> QED BY <1>5, <3>1 DEF FenceSet
  <2> QED BY <2>1, <2>2
<1>6. CASE ctl[a].held # None
  <2>1. FailsTurn(t) => ctl[a].fence.active
    BY <1>0 DEF FailsTurn, Asserts, Ready
  <2> QED BY <1>1, <1>2, <1>6, <2>1, HeldGoes DEF FenceSet
<1>7. CASE Cleaning(Flow(a))
  BY <1>1, <1>7, CleaningGoes DEF FenceSet
<1>8. CASE \E u \in TasksOf(a) : Fencing(u)
  <2>1. PICK u \in TasksOf(a) : Fencing(u)
    BY <1>8
  <2>2. CASE u = t
    BY <1>1, <1>2, <2>1, <2>2, FencingGoes DEF FenceSet
  <2>3. CASE u # t
    <3>1. at'[u] = at[u]
      BY <1>1, <2>3, OwnTasks DEF LockStep
    <3>2. Fencing(u)'
      BY <2>1, <3>1 DEF Fencing
    <3> QED BY <3>2 DEF FenceSet
  <2> QED BY <2>2, <2>3
<1> QED BY <1>3, <1>4, <1>5, <1>6, <1>7, <1>8 DEF FenceSet

\* Where a throw leads.
LEMMA ThrownTo ==
    ASSUME NEW a \in Attempts, NEW t \in TasksOf(a), LockInv(a), Throws(t)
    PROVE  /\ at'[t].pc \in {"cleanup", "done", "turn", "dispose"}
           /\ t = Agent(a) => ctl'[a].held = None
<1>0. t[1] = a
  BY OwnTasks
<1>1. CASE Ends(t)
  <2>1. at'[t].pc = "cleanup" \/ at'[t].pc = "done"
    BY <1>1 DEF Ends, Moves
  <2>2. t # Agent(a)
    BY <1>1, Workers DEF Ends
  <2> QED BY <2>1, <2>2
<1>2. CASE FailsTurn(t)
  BY <1>0, <1>2 DEF FailsTurn, Moves, Controls
<1>3. CASE Flushes(t)
  <2>1. t # Agent(a)
    BY <1>3, Workers, OwnTasks DEF Flushes
  <2> QED BY <1>3, <2>1 DEF Flushes, Moves
<1> QED BY <1>1, <1>2, <1>3 DEF Throws

\* Nothing that this process wrote brings the trusted state over a foreign write.
LEMMA NotPublished ==
    ASSUME TypeOK, Trusts, NEW t \in Tasks, NEW i \in 1..Version, log[i] = "foreign",
           trusted.base < i, i <= at[t].since, NEW g \in Nat, published.gen > g,
           published.ver \in ReadBy(t)
    PROVE  FALSE
<1>1. /\ trusted \in [ver : Nat, gen : Nat, base : Nat] /\ published \in [ver : Nat, gen : Nat]
      /\ at[t].since \in Nat
  BY TaskAt DEF TypeOK
<1>2. published.ver = trusted.ver /\ \A j \in trusted.base + 1..trusted.ver : log[j] = "own"
  BY <1>1 DEF Trusts, PublishedIsOwn
<1>3. at[t].since <= published.ver
  BY ReadVersions
<1>4. i \in Nat /\ trusted.base + 1 <= i /\ i <= trusted.ver
  BY <1>1, <1>2, <1>3, VersionType
<1> QED BY <1>1, <1>2, <1>4

\* A task that asserts the fence while it is behind does not get through.
LEMMA DoesNotPass ==
    ASSUME TypeOK, Trusts, NEW a \in Attempts, NEW t \in TasksOf(a), LockInv(a), Step(t),
           NEW i \in 1..Version, Behind(a, i), at[t].pc \in FencePcs, at'[t].pc \notin FencePcs
    PROVE  Throws(t)
<1>0. t \in Tasks /\ t[1] = a /\ TaskData(t)
  BY OwnTasks DEF Step
<1>1. at[t].pc # "adopt"
  BY <1>0 DEF Behind
<1>2. \/ Throws(t)
      \/ /\ at[t].pc = "assert"
         /\ \/ ctl[a].fence.fp \in ReadBy(t)
            \/ published.gen > ctl[a].fence.gen /\ published.ver \in ReadBy(t)
  BY <1>0, <1>1, Zenon DEF TaskData
<1>3. /\ ctl[a].fence.fp \in Nat /\ ctl[a].fence.gen \in Nat /\ at[t].since \in Nat /\ i \in Nat
  <2>1. ctl[a].fence.fp \in Nat /\ ctl[a].fence.gen \in Nat
    BY DEF TypeOK, CtlType, FenceType
  <2>2. at[t].since \in Nat
    BY <1>0, TaskAt
  <2>3. i \in Nat
    BY VersionType
  <2> QED BY <2>1, <2>2, <2>3
<1>4. ASSUME at[t].pc = "assert", ctl[a].fence.fp \in ReadBy(t) PROVE FALSE
  <2>1. i <= at[t].since /\ ctl[a].fence.fp < i
    BY <1>4 DEF Behind
  <2>2. at[t].since <= ctl[a].fence.fp
    BY <1>0, <1>4, ReadVersions
  <2> QED BY <1>3, <2>1, <2>2
<1>5. ASSUME at[t].pc = "assert", published.gen > ctl[a].fence.gen, published.ver \in ReadBy(t)
      PROVE  FALSE
  <2>1. i <= at[t].since /\ log[i] = "foreign" /\ trusted.base < i
    BY <1>5 DEF Behind
  <2> QED BY <1>0, <1>3, <1>5, <2>1, NotPublished
<1> QED BY <1>2, <1>4, <1>5

\* Nor does it take the foreign write for a benign one.
LEMMA DoesNotAdopt ==
    ASSUME TypeOK, NEW a \in Attempts, NEW t \in TasksOf(a), Step(t),
           NEW i \in 1..Version, Behind(a, i)
    PROVE  at'[t].pc # "adopt"
<1>0. t \in Tasks /\ t[1] = a /\ TaskData(t)
  BY OwnTasks DEF Step
<1>1. SUFFICES ASSUME at'[t].pc = "adopt" PROVE FALSE
  OBVIOUS
<1>2. PICK v \in ReadBy(t) :
          \/ at[t].pc = "assert" /\ Added(ctl[a].fence.snap, v, {"mirror"})
          \/ at[t].pc = "rewrite" /\ Added(at[t].seen, v, {"mirror", "migration"})
  <2>1. \E v \in ReadBy(t) :
            \/ at[t].pc = "assert" /\ Added(ctl[t[1]].fence.snap, v, {"mirror"})
            \/ at[t].pc = "rewrite" /\ Added(at[t].seen, v, {"mirror", "migration"})
    BY <1>0, <1>1, Zenon DEF TaskData
  <2> QED BY <1>0, <2>1
<1>3. v \in Nat /\ at[t].since <= v
  BY <1>0, ReadVersions
<1>4. ctl[a].fence.snap \in Nat /\ at[t].since \in Nat /\ at[t].seen \in Nat /\ i \in Nat
  <2>1. ctl[a].fence.snap \in Nat
    BY DEF TypeOK, CtlType, FenceType
  <2>2. at[t].since \in Nat /\ at[t].seen \in Nat
    BY <1>0, TaskAt
  <2>3. i \in Nat
    BY VersionType
  <2> QED BY <2>1, <2>2, <2>3
<1>5. /\ log[i] = "foreign" /\ ctl[a].fence.snap < i
      /\ at[t].pc \in {"assert", "rewrite"} => i <= at[t].since
      /\ at[t].pc = "rewrite" => at[t].seen < i
  BY <1>0 DEF Behind
<1>6. ASSUME at[t].pc = "assert", Added(ctl[a].fence.snap, v, {"mirror"}) PROVE FALSE
  <2>1. i \in ctl[a].fence.snap + 1..v
    BY <1>3, <1>4, <1>5, <1>6
  <2> QED BY <1>5, <1>6, <2>1 DEF Added
<1>7. ASSUME at[t].pc = "rewrite", Added(at[t].seen, v, {"mirror", "migration"}) PROVE FALSE
  <2>1. i \in at[t].seen + 1..v
    BY <1>3, <1>4, <1>5, <1>7
  <2> QED BY <1>5, <1>7, <2>1 DEF Added
<1> QED BY <1>2, <1>6, <1>7

\* Nobody gives the lock up while it is with an agent that asserts.
LEMMA DoesNotFence ==
    ASSUME NEW a \in Attempts, NEW t \in TasksOf(a), LockInv(a), LockStep(t), ~Aborted(a),
           NEW i, Behind(a, i)
    PROVE  ~Fencing(t)'
<1>0. t \in Tasks /\ t[1] = a /\ (\A u \in TasksOf(a) : u # t => at'[u] = at[u])
  BY OwnTasks DEF LockStep
<1>1. ~Fencing(t)
  BY <1>0 DEF Behind, Fencing
<1>2. CASE Alike(t)
  BY <1>1, <1>2 DEF Alike
<1>3. CASE Throws(t)
  <2>1. at'[t].pc \in {"cleanup", "done", "turn", "dispose"}
    BY <1>3, ThrownTo
  <2> QED BY <2>1 DEF Fencing, FencingPcs
<1>4. CASE Begins(t) \/ TakesToFree(t) \/ Creates(t)
  BY <1>4 DEF Begins, TakesToFree, Creates, Moves, Fencing, FencingPcs
<1>5. CASE TakesForCleanup(t) \/ Shares(t) \/ LocksForWrite(t) \/ LocksForTurn(t) \/ LocksForCleanup(t)
  <2>1. at'[t].pc \in {"assert", "flush", "stat", "turn"}
    BY <1>5 DEF TakesForCleanup, Shares, LocksForWrite, LocksForTurn, LocksForCleanup, Moves
  <2> QED BY <2>1 DEF Fencing, FencingPcs
<1>6. CASE TakesNothing(t)
  <2>1. at[t].pc \in DrainPcs /\ at'[t].pc = Onward(t)
    BY <1>6 DEF TakesNothing, Moves, DrainPcs
  <2>2. at'[t].pc \in {"results", "over", "lock cleanup", "stream", "done"}
    BY <2>1, OnwardPlaced
  <2> QED BY <2>2 DEF Fencing, FencingPcs
<1>7. CASE Frees(t)
  <2>1. at[t].pc = "free"
    BY <1>7 DEF Frees
  <2> QED BY <1>1, <2>1 DEF Fencing, FencingPcs
<1>8. CASE TakesToFence(t)
  <2>1. at[t].pc = "idle users" /\ ctl[a].users = {} /\ ctl[a].held # None
    BY <1>0, <1>8 DEF TakesToFence
  <2>2. Asserts(Agent(a), "turn") => Aborted(a)
    BY <1>0, <2>1, Takers
  <2>3. Asserts(Agent(a), "turn")
    BY <2>1 DEF Behind
  <2> QED BY <2>2, <2>3
<1> QED BY <1>2, <1>3, <1>4, <1>5, <1>6, <1>7, <1>8 DEF LockStep

\* Whoever gets the lock for the controller asserts the fence first.
LEMMA HeldToAssert ==
    ASSUME NEW a \in Attempts, NEW t \in TasksOf(a), LockInv(a), Step(t),
           ctl[a].held = None, ctl'[a].held # None, ctl[a].fence.active,
           at[Flow(a)].pc \notin {"idle", "create"}
    PROVE  Asserts(Agent(a), "turn")'
<1>0. t[1] = a /\ LockStep(t) /\ FlowData(t)
  BY OwnTasks DEF Step
<1>1. CASE Alike(t) \/ Ends(t) \/ Flushes(t) \/ Begins(t) \/ Frees(t)
  BY <1>0, <1>1 DEF Alike, Ends, Flushes, Begins, Frees, Controls
<1>2. CASE TakesNothing(t) \/ TakesForCleanup(t) \/ TakesToFree(t) \/ TakesToFence(t) \/ FailsTurn(t)
  BY <1>0, <1>2 DEF TakesNothing, TakesForCleanup, TakesToFree, TakesToFence, FailsTurn, Controls
<1>3. CASE LocksForWrite(t) \/ LocksForCleanup(t)
  BY <1>0, <1>3 DEF LocksForWrite, LocksForCleanup, Kept, Controls
<1>4. CASE Shares(t)
  BY <1>0, <1>4 DEF Shares
<1>5. CASE Creates(t)
  BY <1>0, <1>5 DEF Creates
<1>6. CASE LocksForTurn(t)
  <2>1. /\ t = Agent(a) /\ at'[t].then = "turn"
        /\ at'[t].pc = "assert" \/ at'[t].pc = "turn"
    BY <1>0, <1>6 DEF LocksForTurn, Moves
  <2>2. at'[t].pc # "turn"
    BY <1>0, <1>6, Zenon DEF FlowData
  <2> QED BY <2>1, <2>2 DEF Asserts, FencePcs
<1> QED BY <1>0, <1>1, <1>2, <1>3, <1>4, <1>5, <1>6 DEF LockStep, Throws

LEMMA BaseStays ==
    ASSUME TypeOK, NEW t, TrustData(t), trusted.gen > 0
    PROVE  trusted'.base = trusted.base
<1>1. trusted \in [ver : Nat, gen : Nat, base : Nat]
  BY DEF TypeOK
<1>2. CASE UNCHANGED <<trusted, published, lastGen>>
  BY <1>2
<1>3. CASE \E v \in ReadBy(t) : trusted' = [trusted EXCEPT !.ver = v, !.gen = lastGen + 1]
  BY <1>1, <1>3
<1>4. ~(trusted.gen = 0)
  BY <1>1
<1> QED BY <1>2, <1>3, <1>4 DEF TrustData

\* The fence stays behind a foreign write, as long as nobody aborts the attempt.
LEMMA StaysBehind ==
    ASSUME TypeOK, Fences, Trusts, NEW a \in Attempts, NEW t \in TasksOf(a), LockInv(a), Step(t),
           ~Aborted(a), NEW i \in 1..Version, Behind(a, i)
    PROVE  Behind(a, i)'
<1>0. /\ t \in Tasks /\ t[1] = a /\ LockStep(t) /\ TaskData(t) /\ FenceData(t) /\ TrustData(t)
      /\ \A u \in TasksOf(a) : u # t => at'[u] = at[u]
      /\ Agent(a) \in TasksOf(a)
  BY OwnTasks DEF Step, LockStep
<1>1. LockInv(a)'
  BY <1>0, LockStepKeeps
<1>2. /\ log[i] = "foreign" /\ at[Flow(a)].pc \notin {"idle", "create"}
      /\ ctl[a].fence.active /\ ctl[a].fence.fp < i /\ ctl[a].fence.snap < i
      /\ trusted.base < i
      /\ ctl[a].held # None => Asserts(Agent(a), "turn")
      /\ \A u \in TasksOf(a) :
            /\ at[u].pc \notin LockedPcs \cup FencingPcs \cup {"flush", "adopt"}
            /\ at[u].pc \in {"assert", "rewrite"} => i <= at[u].since
            /\ at[u].pc = "rewrite" => at[u].seen < i
  BY Zenon DEF Behind
<1>3. log' = log \/ log' = Append(log, "own")
  BY <1>0, Zenon DEF TaskData
<1>4. /\ Len(log) \in Nat /\ Len(log') \in Nat /\ Len(log) <= Len(log') /\ i \in Nat
      /\ i <= Len(log') /\ log'[i] = "foreign"
  BY <1>2, <1>3, Grows DEF Version
<1>5. at'[Flow(a)].pc \notin {"idle", "create"}
  BY <1>0, <1>2, StaysOn
<1>6. ctl'[a].fence.active /\ ctl'[a].fence.fp < i /\ ctl'[a].fence.snap < i
  <2>1. \/ ctl'[a].fence = ctl[a].fence
        \/ at[t].pc \in LockedPcs \cup FencingPcs \cup {"adopt"}
        \/ /\ at[t].pc = "assert" /\ published.gen > ctl[a].fence.gen
           /\ published.ver \in ReadBy(t)
    BY <1>0, Zenon DEF FenceData
  <2>2. at[t].pc \notin LockedPcs \cup FencingPcs \cup {"adopt"}
    BY <1>2
  <2>3. ASSUME at[t].pc = "assert", published.gen > ctl[a].fence.gen, published.ver \in ReadBy(t)
        PROVE  FALSE
    <3>1. ctl[a].fence.gen \in Nat
      BY DEF TypeOK, CtlType, FenceType
    <3>2. i <= at[t].since
      BY <1>2, <2>3
    <3> QED BY <1>0, <1>2, <2>3, <3>1, <3>2, NotPublished
  <2> QED BY <1>2, <2>1, <2>2, <2>3
<1>7. trusted'.base < i
  <2>1. trusted.gen > 0
    BY <1>2 DEF Fences
  <2> QED BY <1>0, <1>2, <2>1, BaseStays
<1>8. ASSUME ctl'[a].held # None PROVE Asserts(Agent(a), "turn")'
  <2>1. CASE ctl[a].held = None
    BY <1>2, <1>8, <2>1, HeldToAssert
  <2>2. CASE ctl[a].held # None /\ t # Agent(a)
    <3>1. at'[Agent(a)] = at[Agent(a)]
      BY <1>0, <2>2
    <3> QED BY <1>2, <2>2, <3>1 DEF Asserts
  <2>3. CASE ctl[a].held # None /\ t = Agent(a)
    <3>1. at[t].pc \in FencePcs
      BY <1>2, <2>3 DEF Asserts
    <3>2. at'[t].pc \in FencePcs
      BY <1>8, <2>3, <3>1, DoesNotPass, ThrownTo
    <3>3. AgentAt(t)'
      BY <1>0, <1>1, <2>3 DEF LockInv, Placed
    <3> QED BY <2>3, <3>2, <3>3 DEF AgentAt, Asserts, FencePcs, DrainPcs, FencingPcs
  <2> QED BY <2>1, <2>2, <2>3
<1>9. at'[t].pc \notin LockedPcs \cup FencingPcs \cup {"flush", "adopt"}
  <2>1. at'[t].pc # "adopt"
    BY DoesNotAdopt
  <2>2. at'[t].pc \notin FencingPcs
    BY <1>0, DoesNotFence DEF Fencing
  <2>3. ASSUME at'[t].pc \in LockedPcs \cup {"flush"} PROVE FALSE
    <3>1. at[t].pc \in FencePcs \cup LockedPcs \cup {"flush"} \/ ~ctl[a].fence.active
      BY <1>0, <2>3, Zenon DEF TaskData
    <3>2. at[t].pc \in FencePcs
      BY <1>2, <3>1
    <3>3. at'[t].pc \notin FencePcs
      BY <2>3 DEF FencePcs, LockedPcs
    <3>4. Throws(t)
      BY <3>2, <3>3, DoesNotPass
    <3>5. at'[t].pc \in {"cleanup", "done", "turn", "dispose"}
      BY <3>4, ThrownTo
    <3> QED BY <2>3, <3>5 DEF LockedPcs
  <2> QED BY <2>1, <2>2, <2>3
<1>10. /\ at'[t].pc \in {"assert", "rewrite"} => i <= at'[t].since
       /\ at'[t].pc = "rewrite" => at'[t].seen < i
  <2>1. /\ at'[t].pc = "assert" => at'[t].since = Len(log')
        /\ at'[t].pc = "rewrite" => at'[t].since = Len(log') /\ at'[t].seen = ctl[a].fence.snap
    BY <1>0, Zenon DEF TaskData
  <2> QED BY <1>2, <1>4, <2>1
<1>11. \A u \in TasksOf(a) :
           /\ at'[u].pc \notin LockedPcs \cup FencingPcs \cup {"flush", "adopt"}
           /\ at'[u].pc \in {"assert", "rewrite"} => i <= at'[u].since
           /\ at'[u].pc = "rewrite" => at'[u].seen < i
  <2> SUFFICES ASSUME NEW u \in TasksOf(a)
               PROVE  /\ at'[u].pc \notin LockedPcs \cup FencingPcs \cup {"flush", "adopt"}
                      /\ at'[u].pc \in {"assert", "rewrite"} => i <= at'[u].since
                      /\ at'[u].pc = "rewrite" => at'[u].seen < i
    OBVIOUS
  <2>1. CASE u = t
    BY <1>9, <1>10, <2>1
  <2>2. CASE u # t
    <3>1. at'[u] = at[u]
      BY <1>0, <2>2
    <3> QED BY <1>2, <3>1
  <2> QED BY <2>1, <2>2
<1> QED BY <1>4, <1>5, <1>6, <1>7, <1>8, <1>11, Zenon DEF Behind

\* So it does when nothing of the attempt moves.
LEMMA BehindUntouched ==
    ASSUME NEW a \in Attempts, Untouched(a), NEW i, Behind(a, i),
           log'[i] = log[i], trusted'.base = trusted.base
    PROVE  Behind(a, i)'
<1>1. /\ ctl'[a] = ctl[a] /\ \A u \in TasksOf(a) : at'[u] = at[u]
      /\ Flow(a) \in TasksOf(a) /\ Agent(a) \in TasksOf(a)
  BY OwnTasks DEF Untouched
<1>2. at'[Flow(a)] = at[Flow(a)] /\ (Asserts(Agent(a), "turn")' <=> Asserts(Agent(a), "turn"))
  BY <1>1 DEF Asserts
<1> QED BY <1>1, <1>2 DEF Behind

LEMMA FenceSetUntouched ==
    ASSUME NEW a \in Attempts, Untouched(a)
    PROVE  /\ FenceSet(a)' <=> FenceSet(a)
           /\ Aborted(a)' <=> Aborted(a)
           /\ Past(a)' <=> Past(a)
<1>1. /\ ctl'[a] = ctl[a] /\ \A u \in TasksOf(a) : at'[u] = at[u]
      /\ Flow(a) \in TasksOf(a) /\ AbortOf(a) \in TasksOf(a)
  BY OwnTasks DEF Untouched
<1>2. \A u \in TasksOf(a) : Fencing(u)' <=> Fencing(u)
  BY <1>1 DEF Fencing
<1>3. Cleaning(Flow(a))' <=> Cleaning(Flow(a))
  BY <1>1 DEF Cleaning, Asserts
<1>4. (Aborted(a)' <=> Aborted(a)) /\ (Past(a)' <=> Past(a))
  BY <1>1 DEF Aborted, Past
<1> QED BY <1>1, <1>2, <1>3, <1>4 DEF FenceSet

LEMMA StepKeepsNotices ==
    ASSUME Locks, Publishes, Notices, NEW t \in Tasks, Step(t)
    PROVE  Notices'
<1>0. /\ TypeOK /\ Fences /\ Trusts /\ Noticed
      /\ \A b \in Attempts : LockInv(b) /\ FenceSet(b)
      /\ intruded \subseteq Attempts
  BY DEF Locks, Publishes, Notices, TypeOK
<1>1. PICK a \in Attempts : a = t[1]
  BY TasksOfAttempts
<1>2. /\ t \in TasksOf(a) /\ Ready(t) /\ LockStep(t) /\ TaskData(t) /\ TrustData(t) /\ FlowData(t)
      /\ intruded' = intruded
  BY <1>0, <1>1, TasksOfAttempts DEF Step, Fences
<1>3. \A b \in Attempts : b # a => Untouched(b)
  BY <1>0, <1>2, StepUntouched
<1>4. \A b \in Attempts : FenceSet(b)'
  <2>1. FenceSet(a)'
    BY <1>0, <1>2, StepKeepsFenceSet
  <2> QED BY <1>0, <1>3, <2>1, FenceSetUntouched
<1>5. log' = log \/ log' = Append(log, "own")
  BY <1>2, Zenon DEF TaskData
<1>6. /\ Version \in Nat /\ Version' \in Nat /\ Version <= Version'
      /\ \A i \in 1..Version : log'[i] = log[i]
  BY <1>0, <1>5, Grows DEF Version
<1>7. ASSUME NEW b \in intruded PROVE Aborted(b)' \/ Past(b)' \/ \E i \in 1..Version' : Behind(b, i)'
  <2>0. b \in Attempts /\ (Aborted(b) \/ Past(b) \/ \E i \in 1..Version : Behind(b, i))
    BY <1>0 DEF Noticed
  <2>1. CASE b # a
    <3>1. CASE Aborted(b) \/ Past(b)
      BY <1>3, <2>0, <2>1, <3>1, FenceSetUntouched
    <3>2. CASE \E i \in 1..Version : Behind(b, i)
      <4>1. PICK i \in 1..Version : Behind(b, i)
        BY <3>2
      <4>2. trusted.gen > 0
        BY <1>0, <2>0, <4>1 DEF Behind, Fences
      <4>3. Behind(b, i)'
        BY <1>0, <1>2, <1>3, <1>6, <2>0, <2>1, <4>1, <4>2, BaseStays, BehindUntouched
      <4>4. i \in 1..Version'
        BY <1>6
      <4> QED BY <4>3, <4>4
    <3> QED BY <2>0, <3>1, <3>2
  <2>2. CASE b = a
    <3>1. CASE Aborted(a)
      BY <1>0, <1>2, <2>2, <3>1, StaysOn
    <3>2. CASE Past(a)
      <4>1. CASE t = Flow(a)
        BY <1>1, <1>2, <2>2, <3>2, <4>1, Zenon DEF FlowData
      <4>2. CASE t # Flow(a)
        <5>1. at'[Flow(a)] = at[Flow(a)]
          BY <1>2, <4>2, OwnTasks DEF LockStep
        <5> QED BY <2>2, <3>2, <5>1 DEF Past
      <4> QED BY <4>1, <4>2
    <3>3. CASE ~Aborted(a) /\ \E i \in 1..Version : Behind(a, i)
      <4>1. PICK i \in 1..Version : Behind(a, i)
        BY <3>3
      <4>2. Behind(a, i)'
        BY <1>0, <1>2, <3>3, <4>1, StaysBehind
      <4>3. i \in 1..Version'
        BY <1>6
      <4> QED BY <2>2, <4>2, <4>3
    <3> QED BY <2>0, <2>2, <3>1, <3>2, <3>3
  <2> QED BY <2>1, <2>2
<1>8. Noticed'
  BY <1>2, <1>7 DEF Noticed
<1> QED BY <1>4, <1>8 DEF Notices

LEMMA SubmitKeepsNotices ==
    ASSUME Locks, Notices, NEW a \in Attempts, Submit(a)
    PROVE  Notices'
<1>0. /\ TypeOK /\ Noticed /\ (\A b \in Attempts : LockInv(b) /\ FenceSet(b))
      /\ intruded \subseteq Attempts
      /\ UNCHANGED <<log, lock, ctl, trusted, intruded>>
  BY DEF Locks, Notices, TypeOK, Submit, FileKept, TrustKept
<1>1. /\ \A u \in Tasks : u # Flow(a) /\ u # Agent(a) => at'[u] = at[u]
      /\ at[Flow(a)].pc = "prepare" /\ at[Agent(a)].pc = "idle"
      /\ at'[Flow(a)].pc = "prompt" /\ at'[Agent(a)].pc = "turn"
  BY <1>0, SubmitMoves
<1>2. \A b \in Attempts : b # a => Untouched(b)
  <2> SUFFICES ASSUME NEW b \in Attempts, b # a PROVE Untouched(b)
    OBVIOUS
  <2>1. \A u \in TasksOf(b) : u \in Tasks /\ u # Flow(a) /\ u # Agent(a)
    BY OwnTasks
  <2> QED BY <1>0, <1>1, <2>1 DEF Untouched
<1>3. /\ \A u \in TasksOf(a) : u # Flow(a) /\ u # Agent(a) => at'[u] = at[u]
      /\ AbortOf(a) \in TasksOf(a) /\ AbortOf(a) # Flow(a) /\ AbortOf(a) # Agent(a)
      /\ Flow(a) \in TasksOf(a) /\ Agent(a) \in TasksOf(a)
  BY <1>1, OwnTasks
<1>4. Aborted(a)' <=> Aborted(a)
  BY <1>3 DEF Aborted
<1>5. ~Past(a) /\ ~Cleaning(Flow(a)) /\ ~Fencing(Flow(a)) /\ ~Fencing(Agent(a))
      /\ ~Asserts(Agent(a), "turn")
  BY <1>1 DEF Past, Cleaning, Fencing, Asserts, DrainPcs, FencingPcs, FencePcs
<1>6. FenceSet(a)'
  <2>1. \A u \in TasksOf(a) : Fencing(u) => Fencing(u)'
    <3> SUFFICES ASSUME NEW u \in TasksOf(a), Fencing(u) PROVE Fencing(u)'
      OBVIOUS
    <3>1. at'[u] = at[u]
      BY <1>3, <1>5
    <3> QED BY <3>1 DEF Fencing
  <2>2. ctl[a].fence.active \/ Aborted(a) \/ ctl[a].held # None \/ \E u \in TasksOf(a) : Fencing(u)
    BY <1>0, <1>1, <1>5 DEF FenceSet
  <2> QED BY <1>0, <1>4, <2>1, <2>2 DEF FenceSet
<1>7. ASSUME NEW i, Behind(a, i) PROVE Behind(a, i)'
  <2>1. ctl[a].held = None
    BY <1>5, <1>7 DEF Behind
  <2>2. \A u \in TasksOf(a) :
            /\ at'[u].pc \notin LockedPcs \cup FencingPcs \cup {"flush", "adopt"}
            /\ at'[u].pc \in {"assert", "rewrite"} => i <= at'[u].since
            /\ at'[u].pc = "rewrite" => at'[u].seen < i
    <3> SUFFICES ASSUME NEW u \in TasksOf(a)
                 PROVE  /\ at'[u].pc \notin LockedPcs \cup FencingPcs \cup {"flush", "adopt"}
                        /\ at'[u].pc \in {"assert", "rewrite"} => i <= at'[u].since
                        /\ at'[u].pc = "rewrite" => at'[u].seen < i
      OBVIOUS
    <3>1. CASE u = Flow(a) \/ u = Agent(a)
      <4>1. at'[u].pc = "prompt" \/ at'[u].pc = "turn"
        BY <1>1, <3>1
      <4> QED BY <4>1 DEF LockedPcs, FencingPcs
    <3>2. CASE u # Flow(a) /\ u # Agent(a)
      <4>1. at'[u] = at[u]
        BY <1>3, <3>2
      <4> QED BY <1>7, <4>1 DEF Behind
    <3> QED BY <3>1, <3>2
  <2>3. at'[Flow(a)].pc \notin {"idle", "create"}
    BY <1>1
  <2> QED BY <1>0, <1>7, <2>1, <2>2, <2>3 DEF Behind
<1>8. \A b \in Attempts : FenceSet(b)'
  BY <1>0, <1>2, <1>6, FenceSetUntouched
<1>9. ASSUME NEW b \in intruded PROVE Aborted(b)' \/ Past(b)' \/ \E i \in 1..Version' : Behind(b, i)'
  <2>0. b \in Attempts /\ (Aborted(b) \/ Past(b) \/ \E i \in 1..Version : Behind(b, i))
        /\ Version' = Version
    BY <1>0 DEF Noticed, Version
  <2>1. CASE b # a
    <3>1. CASE Aborted(b) \/ Past(b)
      BY <1>2, <2>0, <2>1, <3>1, FenceSetUntouched
    <3>2. CASE \E i \in 1..Version : Behind(b, i)
      <4>1. PICK i \in 1..Version : Behind(b, i)
        BY <3>2
      <4>2. Behind(b, i)'
        BY <1>0, <1>2, <2>0, <2>1, <4>1, BehindUntouched
      <4> QED BY <2>0, <4>2
    <3> QED BY <2>0, <3>1, <3>2
  <2>2. CASE b = a
    BY <1>4, <1>5, <1>7, <2>0, <2>2
  <2> QED BY <2>1, <2>2
<1>10. Noticed'
  BY <1>0, <1>9 DEF Noticed
<1> QED BY <1>8, <1>10 DEF Notices

\* A foreign write is under a fence, or under nobody who will write again.
LEMMA FallsBehind ==
    ASSUME TypeOK, Fences, Pasts, Trusts, NEW a \in Attempts, LockInv(a), FenceSet(a),
           OtherWrites("foreign"), ~Aborted(a), ~Past(a), at[Flow(a)].pc \notin {"idle", "create"}
    PROVE  \E i \in 1..Version' : Behind(a, i)'
<1>0. /\ lock = Other /\ log' = Append(log, "foreign") /\ UNCHANGED <<ctl, at, trusted>>
      /\ \A u \in TasksOf(a) : u \in Tasks /\ u[1] = a
      /\ Flow(a) \in TasksOf(a) /\ Agent(a) \in TasksOf(a)
  BY OwnTasks DEF OtherWrites, TrustKept
<1>1. PICK n : n = Len(log) + 1
  OBVIOUS
<1>2. /\ Len(log) \in Nat /\ n \in Nat /\ Len(log') = n /\ log'[n] = "foreign" /\ Len(log) < n
      /\ n \in 1..n
  BY <1>0, <1>1 DEF TypeOK
<1>3. /\ ctl[a].held = None /\ ~Cleaning(Flow(a)) /\ ~Asserts(Agent(a), "turn")
      /\ \A u \in TasksOf(a) : ~Writing(u) /\ ~Fencing(u)
  BY <1>0, Locked
<1>4. ctl[a].fence.active
  BY <1>3 DEF FenceSet
<1>5. ctl[a].fence.fp < n /\ ctl[a].fence.snap < n
  <2>1. ctl[a].fence.fp \in Nat /\ ctl[a].fence.snap \in Nat
    BY DEF TypeOK, CtlType, FenceType
  <2> QED BY <1>2, <2>1 DEF Pasts, Version
<1>6. trusted.base < n
  <2>1. trusted.base \in Nat /\ trusted.ver \in Nat
    BY DEF TypeOK
  <2> QED BY <1>2, <2>1 DEF Trusts, Version
<1>7. ASSUME NEW u \in TasksOf(a)
      PROVE  at[u].pc \notin LockedPcs \cup FencingPcs \cup FencePcs \cup {"flush"}
  <2>1. ~Writing(u) /\ ~Fencing(u) /\ (u = Flow(a) => ~Cleaning(u)) /\ (u = Agent(a) => ~Asserts(u, "turn"))
    BY <1>3
  <2>2. ~Cleaning(u)
    BY <2>1, Workers
  <2>3. at[u].pc \notin LockedPcs \cup FencingPcs \cup {"flush"}
    BY <2>1, <2>2 DEF Writing, Fencing, Cleaning
  <2>4. u[1] = a /\ Placed(u)
    BY <1>0 DEF LockInv
  <2>5. ~Asserts(u, "stat") /\ ~Asserts(u, "flush")
    BY <2>1, <2>2 DEF Writing, Cleaning
  <2>6. u = Flow(a) => at[u].pc \notin FencePcs
    BY <2>4, <2>5 DEF Placed, FlowAt, DrainPcs, FencingPcs, FencePcs, LockedPcs
  <2>7. u = Agent(a) => at[u].pc \notin FencePcs
    BY <2>1, <2>4 DEF Placed, AgentAt, DrainPcs, FencingPcs, FencePcs
  <2>8. u = AbortOf(a) => at[u].pc \notin FencePcs
    BY <2>4 DEF Placed, AbortAt, Resting, DrainPcs, FencingPcs, FencePcs
  <2>9. Writer(u) => at[u].pc \notin FencePcs
    BY <2>4, <2>5 DEF Placed, WriterAt, Resting, FencePcs, LockedPcs
  <2> QED BY <2>3, <2>4, <2>6, <2>7, <2>8, <2>9 DEF Writer
<1>8. \A u \in TasksOf(a) :
          /\ at'[u].pc \notin LockedPcs \cup FencingPcs \cup {"flush", "adopt"}
          /\ at'[u].pc \notin {"assert", "rewrite"}
  BY <1>0, <1>7 DEF FencePcs
<1>9. at'[Flow(a)].pc \notin {"idle", "create"} /\ ctl'[a].held = None /\ ctl'[a].fence.active
      /\ ctl'[a].fence.fp < n /\ ctl'[a].fence.snap < n /\ trusted'.base < n
  BY <1>0, <1>3, <1>4, <1>5, <1>6
<1>10. Behind(a, n)'
  BY <1>2, <1>8, <1>9 DEF Behind
<1> QED BY <1>2, <1>10 DEF Version

LEMMA OthersKeepNotices ==
    ASSUME Locks, Publishes, Notices, Elsewhere \/ \E kind \in OtherKinds : OtherWrites(kind)
    PROVE  Notices'
<1>0. /\ TypeOK /\ Fences /\ Pasts /\ Trusts /\ Noticed
      /\ \A b \in Attempts : LockInv(b) /\ FenceSet(b)
      /\ intruded \subseteq Attempts
  BY DEF Locks, Publishes, Notices, TypeOK
<1>1. /\ UNCHANGED <<ctl, at, trusted>>
      /\ lock' = lock \/ (lock \in {None, Other} /\ lock' \in {None, Other})
  BY DEF Elsewhere, OtherWrites, TrustKept
<1>2. \A b \in Attempts : Untouched(b)
  BY <1>1, OthersUntouched
<1>3. \A b \in Attempts : FenceSet(b)'
  BY <1>0, <1>2, FenceSetUntouched
<1>4. \A b \in Attempts : (Aborted(b)' <=> Aborted(b)) /\ (Past(b)' <=> Past(b))
  BY <1>2, FenceSetUntouched
<1>5. log' = log \/ \E kind \in OtherKinds : log' = Append(log, kind)
  BY DEF Elsewhere, OtherWrites
<1>6. /\ Version \in Nat /\ Version' \in Nat /\ Version <= Version'
      /\ \A i \in 1..Version : log'[i] = log[i]
  BY <1>0, <1>5, Grows DEF Version
<1>7. \A b \in Attempts : (\E i \in 1..Version : Behind(b, i)) => \E i \in 1..Version' : Behind(b, i)'
  <2> SUFFICES ASSUME NEW b \in Attempts, NEW i \in 1..Version, Behind(b, i)
               PROVE  i \in 1..Version' /\ Behind(b, i)'
    OBVIOUS
  <2> QED BY <1>1, <1>2, <1>6, BehindUntouched
<1>8. \A b \in intruded : Aborted(b)' \/ Past(b)' \/ \E i \in 1..Version' : Behind(b, i)'
  BY <1>0, <1>4, <1>7 DEF Noticed
<1>9. ASSUME NEW b \in intruded', b \notin intruded
      PROVE  Aborted(b)' \/ Past(b)' \/ \E i \in 1..Version' : Behind(b, i)'
  <2>1. \E kind \in OtherKinds : OtherWrites(kind)
    BY <1>9 DEF Elsewhere
  <2>2. /\ OtherWrites("foreign") /\ b \in Attempts /\ at[Flow(b)].pc \notin {"idle", "create"}
    BY <1>9, <2>1 DEF OtherWrites
  <2> QED BY <1>0, <1>4, <2>2, FallsBehind
<1>10. Noticed'
  BY <1>8, <1>9 DEF Noticed
<1> QED BY <1>3, <1>10 DEF Notices

LEMMA NextNotices ==
    ASSUME Locks, Publishes, Notices, [Next]_vars
    PROVE  Notices'
<1>1. TypeOK /\ (\A a \in Attempts : LockInv(a)) /\ \A t \in Tasks : Ready(t)
  BY DEF Locks, Fences
<1>2. \/ \E t \in Tasks : Step(t)
      \/ \E a \in Attempts : Submit(a)
      \/ \E kind \in OtherKinds : OtherWrites(kind)
      \/ Elsewhere
  BY <1>1, NextSteps
<1> QED BY <1>2, StepKeepsNotices, SubmitKeepsNotices, OthersKeepNotices

LEMMA InitNotices == Init => Notices
<1> SUFFICES ASSUME Init PROVE Notices
  OBVIOUS
<1>1. intruded = {}
  BY DEF Init
<1>2. \A a \in Attempts : at[Flow(a)].pc = "idle"
  BY TaskFields, OwnTasks DEF Init, TasksOf
<1> QED BY <1>1, <1>2 DEF Notices, Noticed, FenceSet

\* The inductive invariant of the fence: while the lock is given up a fence is set, and the
\* fence of an attempt under whose controller a foreign write was made is behind that write.
THEOREM NoticesAlways == Spec => []Notices
<1>1. Init => Locks /\ Publishes /\ Notices
  BY InitLocks, InitPublishes, InitNotices
<1>2. Locks /\ Publishes /\ Notices /\ [Next]_vars => Locks' /\ Publishes' /\ Notices'
  BY NextLocks, NextPublishes, NextNotices
<1> QED BY <1>1, <1>2, PTL DEF Spec

LEMMA WritersNotice == Locks /\ Notices => ForeignNoticed
<1> SUFFICES ASSUME Locks, Notices, NEW a \in intruded, NEW t \in Tasks, t[1] = a,
                    at[t].pc \in {"running", "flush"}, ~Aborted(a)
             PROVE  FALSE
  BY DEF ForeignNoticed
<1>0. /\ a \in Attempts /\ t \in TasksOf(a) /\ LockInv(a)
      /\ Past(a) \/ \E i \in 1..Version : Behind(a, i)
  BY DEF Locks, Notices, Noticed, TypeOK, TasksOf
<1>1. CASE Past(a)
  <2>1. t # Flow(a)
    BY <1>1 DEF Past, DrainPcs, FencingPcs
  <2>2. at[t].pc # "flush"
    BY <1>0, <2>1, Workers DEF Cleaning
  <2>3. Writing(t) /\ ~Resting(t)
    BY <2>2 DEF Writing, LockedPcs, Resting
  <2>4. Writer(t)
    BY <1>0, <2>1, <2>3, Workers DEF Writer
  <2>5. at[Agent(a)].pc \in {"turn", "stream"}
    BY <1>0, <2>3, <2>4 DEF LockInv, Phases
  <2>6. at[Flow(a)].pc # "prompt"
    BY <1>1 DEF Past, DrainPcs, FencingPcs
  <2> QED BY <1>0, <2>5, <2>6 DEF LockInv, Phases, Resting
<1>2. CASE \E i \in 1..Version : Behind(a, i)
  <2>1. at[t].pc \notin LockedPcs \cup {"flush"}
    BY <1>0, <1>2 DEF Behind
  <2> QED BY <2>1 DEF LockedPcs
<1> QED BY <1>0, <1>1, <1>2

\* What others did to the session file while an attempt had given the lock up is noticed before
\* the attempt writes again, as long as nobody aborts it: its fence is behind, and no assertion
\* takes the change for one of its own or for a benign one.
THEOREM ForeignNoticedHolds == Spec => []ForeignNoticed
  BY LocksAlways, NoticesAlways, WritersNotice, PTL

=============================================================================
