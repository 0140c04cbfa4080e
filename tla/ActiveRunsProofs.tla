--------------------------- MODULE ActiveRunsProofs ---------------------------
(***************************************************************************)
(* Proofs about the registry of active runs, for any number of runs,        *)
(* sessions, keys, transcripts and callers.                                 *)
(***************************************************************************)
EXTENDS ActiveRuns, TLAPS

Registry ==
    [active : [SessionIds -> Runs \cup {None}],
     idByKey : [SessionKeys -> SessionIds \cup {None}],
     idByFile : [SessionFiles -> SessionIds \cup {None}],
     snapshots : SUBSET SessionIds,
     switches : SUBSET SessionIds,
     waiters : [SessionIds -> SUBSET Callers],
     abandoned : [SessionIds -> Marks \cup {None}],
     abandonedByKey : [SessionKeys -> SessionIds \cup {None}],
     abandonedByFile : [SessionFiles -> SessionIds \cup {None}]]

RunType == [stage : {"queued", "starting", "running", "cleared", "ended"},
            deadline : {"ahead", "extended", "passed"}, timedOut : BOOLEAN]

CallerType == [stage : {"idle", "waiting", "ended", "undrained", "forced"},
               session : SessionIds \cup {None}, drains : BOOLEAN]

TypeOK ==
    /\ r \in Registry
    /\ run \in [Runs -> RunType]
    /\ lane \in [Lanes -> Runs \cup {None}]
    /\ caller \in [Callers -> CallerType]
    /\ \A c \in Callers :
          caller[c].stage = "waiting" \/ caller[c].drains => caller[c].session \in SessionIds
    /\ latest \in [SessionKeys -> Runs \cup {None}]

\* Keys and files lead to sessions that have a run; a key to a session that runs under it, a
\* session is found by one file at most.
IndexesLead(g) ==
    /\ \A k \in SessionKeys : g.idByKey[k] # None =>
          /\ g.active[g.idByKey[k]] # None
          /\ \E h \in Runs : Session[h] = g.idByKey[k] /\ Key[h] = k
    /\ \A f \in SessionFiles : g.idByFile[f] # None => g.active[g.idByFile[f]] # None
    /\ \A e, f \in SessionFiles : (g.idByFile[e] # None /\ g.idByFile[e] = g.idByFile[f]) => e = f

\* The marks and their indexes by key and file are one another's inverse.
MarksAgree(g) ==
    /\ \A s \in SessionIds : g.abandoned[s] # None =>
          /\ g.abandoned[s].key # None => g.abandonedByKey[g.abandoned[s].key] = s
          /\ g.abandonedByFile[g.abandoned[s].file] = s
    /\ \A k \in SessionKeys : LET s == g.abandonedByKey[k] IN
          s # None => g.abandoned[s] # None /\ g.abandoned[s].key = k
    /\ \A f \in SessionFiles : LET s == g.abandonedByFile[f] IN
          s # None => g.abandoned[s] # None /\ g.abandoned[s].file = f

LatestHasKey == \A k \in SessionKeys : latest[k] # None => Key[latest[k]] = k

RunsInv ==
    /\ TypeOK
    /\ IndexesLead(r)
    /\ MarksAgree(r)
    /\ LatestHasKey
    /\ KeyLeadsToLatest
    /\ NothingOutlivesRuns
-----------------------------------------------------------------------------
(* The registry's operations *)

SameRuns(g, n) ==
    /\ n.active = g.active /\ n.waiters = g.waiters
    /\ n.idByKey = g.idByKey /\ n.idByFile = g.idByFile
    /\ n.snapshots = g.snapshots /\ n.switches = g.switches

SameMarks(g, n) ==
    /\ n.abandoned = g.abandoned
    /\ n.abandonedByKey = g.abandonedByKey
    /\ n.abandonedByFile = g.abandonedByFile

\* Marks and their entries may be gone, and no other has come.
OnlyForgets(g, n) ==
    /\ \A s \in SessionIds : n.abandoned[s] \in {g.abandoned[s], None}
    /\ \A k \in SessionKeys : n.abandonedByKey[k] \in {g.abandonedByKey[k], None}
    /\ \A f \in SessionFiles : n.abandonedByFile[f] \in {g.abandonedByFile[f], None}

\* ForgetMark takes a session's mark out of all three maps.
LEMMA ForgetMarkEffect ==
    ASSUME NEW g \in Registry, MarksAgree(g), NEW s \in SessionIds
    PROVE  /\ ForgetMark(g, s) \in Registry
           /\ SameRuns(g, ForgetMark(g, s))
           /\ OnlyForgets(g, ForgetMark(g, s))
           /\ MarksAgree(ForgetMark(g, s))
           /\ ForgetMark(g, s).abandoned[s] = None
<1> DEFINE n == ForgetMark(g, s)
           mark == g.abandoned[s]
<1>1. CASE mark = None
    <2>1. n = g
        BY <1>1 DEF ForgetMark
    <2> QED BY <1>1, <2>1 DEF SameRuns, OnlyForgets
<1>2. CASE mark # None
    <2>1. mark \in Marks
        BY <1>2 DEF Registry
    <2>2. /\ n = [g EXCEPT !.abandoned[s] = None,
                           !.abandonedByKey = Without(@, {mark.key}, s),
                           !.abandonedByFile = Without(@, {mark.file}, s)]
        BY <1>2 DEF ForgetMark
    <2> HIDE DEF n, mark
    <2>3. /\ n.abandoned = [g.abandoned EXCEPT ![s] = None]
          /\ n.abandonedByKey = Without(g.abandonedByKey, {mark.key}, s)
          /\ n.abandonedByFile = Without(g.abandonedByFile, {mark.file}, s)
          /\ SameRuns(g, n)
        BY <2>2 DEF Registry, SameRuns
    <2>4. /\ n.abandonedByKey \in [SessionKeys -> SessionIds \cup {None}]
          /\ \A k \in SessionKeys : n.abandonedByKey[k] =
                IF k = mark.key /\ g.abandonedByKey[k] = s THEN None ELSE g.abandonedByKey[k]
        BY <2>3 DEF Registry, Without
    <2>5. /\ n.abandonedByFile \in [SessionFiles -> SessionIds \cup {None}]
          /\ \A f \in SessionFiles : n.abandonedByFile[f] =
                IF f = mark.file /\ g.abandonedByFile[f] = s THEN None ELSE g.abandonedByFile[f]
        BY <2>3 DEF Registry, Without
    <2>6. /\ n.abandoned \in [SessionIds -> Marks \cup {None}]
          /\ \A t \in SessionIds : n.abandoned[t] = IF t = s THEN None ELSE g.abandoned[t]
        BY <2>3 DEF Registry
    <2>7. n \in Registry
        BY <2>2, <2>3, <2>4, <2>5, <2>6 DEF Registry
    <2>8. OnlyForgets(g, n)
        BY <2>4, <2>5, <2>6 DEF OnlyForgets
    <2>9. MarksAgree(n)
        <3> USE RunsAssumption
        <3>1. \A t \in SessionIds : n.abandoned[t] # None =>
                  /\ n.abandoned[t].key # None => n.abandonedByKey[n.abandoned[t].key] = t
                  /\ n.abandonedByFile[n.abandoned[t].file] = t
            BY <2>4, <2>5, <2>6 DEF MarksAgree, Registry, Marks
        <3>2. \A k \in SessionKeys : n.abandonedByKey[k] # None =>
                  /\ n.abandoned[n.abandonedByKey[k]] # None
                  /\ n.abandoned[n.abandonedByKey[k]].key = k
            BY <2>4, <2>6 DEF MarksAgree, Registry, mark
        <3>3. \A f \in SessionFiles : n.abandonedByFile[f] # None =>
                  /\ n.abandoned[n.abandonedByFile[f]] # None
                  /\ n.abandoned[n.abandonedByFile[f]].file = f
            BY <2>5, <2>6 DEF MarksAgree, Registry, mark
        <3> QED BY <3>1, <3>2, <3>3 DEF MarksAgree
    <2> QED BY <2>3, <2>6, <2>7, <2>8, <2>9 DEF n
<1> QED BY <1>1, <1>2

LEMMA ForgetMarkAtEffect ==
    ASSUME NEW g \in Registry, MarksAgree(g), NEW s \in SessionIds \cup {None}
    PROVE  /\ ForgetMarkAt(g, s) \in Registry
           /\ SameRuns(g, ForgetMarkAt(g, s))
           /\ OnlyForgets(g, ForgetMarkAt(g, s))
           /\ MarksAgree(ForgetMarkAt(g, s))
           /\ s # None => ForgetMarkAt(g, s).abandoned[s] = None
<1>1. CASE s = None
    BY <1>1 DEF ForgetMarkAt, SameRuns, OnlyForgets
<1>2. CASE s # None
    BY <1>2, ForgetMarkEffect DEF ForgetMarkAt
<1> QED BY <1>1, <1>2

\* Clearing leaves no mark of the session, and none that the key or the file leads to.
LEMMA ClearEffect ==
    ASSUME NEW g \in Registry, MarksAgree(g), NEW s \in SessionIds,
           NEW k \in SessionKeys \cup {None}, NEW f \in SessionFiles
    PROVE  /\ ClearAbandonment(g, s, k, f) \in Registry
           /\ SameRuns(g, ClearAbandonment(g, s, k, f))
           /\ MarksAgree(ClearAbandonment(g, s, k, f))
           /\ ClearAbandonment(g, s, k, f).abandoned[s] = None
           /\ k # None => ClearAbandonment(g, s, k, f).abandonedByKey[k] = None
           /\ ClearAbandonment(g, s, k, f).abandonedByFile[f] = None
<1> DEFINE byId == ForgetMark(g, s)
           byKey == IF k = None THEN byId ELSE ForgetMarkAt(byId, byId.abandonedByKey[k])
           n == ForgetMarkAt(byKey, byKey.abandonedByFile[f])
<1>1. n = ClearAbandonment(g, s, k, f)
    BY DEF ClearAbandonment
<1>2. /\ byId \in Registry /\ SameRuns(g, byId) /\ MarksAgree(byId)
      /\ byId.abandoned[s] = None
    BY ForgetMarkEffect
<1> HIDE DEF byId
<1>3. /\ byKey \in Registry /\ SameRuns(byId, byKey) /\ MarksAgree(byKey)
      /\ byKey.abandoned[s] = None
      /\ k # None => byKey.abandonedByKey[k] = None
    <2>1. CASE k = None
        BY <1>2, <2>1 DEF SameRuns
    <2>2. CASE k # None
        <3> DEFINE t == byId.abandonedByKey[k]
        <3>1. t \in SessionIds \cup {None} /\ byKey = ForgetMarkAt(byId, t)
            BY <1>2, <2>2 DEF Registry
        <3> HIDE DEF t, byKey
        <3>2. /\ byKey \in Registry /\ SameRuns(byId, byKey) /\ MarksAgree(byKey)
              /\ OnlyForgets(byId, byKey)
              /\ t # None => byKey.abandoned[t] = None
            BY <1>2, <3>1, ForgetMarkAtEffect
        <3>3. byKey.abandoned[s] = None
            BY <1>2, <3>2 DEF OnlyForgets
        <3>4. byKey.abandonedByKey[k] \in {t, None}
            BY <2>2, <3>2 DEF OnlyForgets, t
        <3>5. byKey.abandonedByKey[k] = None
            BY <2>2, <3>2, <3>4 DEF MarksAgree
        <3> QED BY <3>2, <3>3, <3>5
    <2> QED BY <2>1, <2>2
<1> HIDE DEF byKey
<1>4. /\ n \in Registry /\ SameRuns(byKey, n) /\ MarksAgree(n)
      /\ n.abandoned[s] = None
      /\ k # None => n.abandonedByKey[k] = None
      /\ n.abandonedByFile[f] = None
    <2> DEFINE t == byKey.abandonedByFile[f]
    <2>1. t \in SessionIds \cup {None} /\ n = ForgetMarkAt(byKey, t)
        BY <1>3 DEF Registry
    <2> HIDE DEF t, n
    <2>2. /\ n \in Registry /\ SameRuns(byKey, n) /\ MarksAgree(n)
          /\ OnlyForgets(byKey, n)
          /\ t # None => n.abandoned[t] = None
        BY <1>3, <2>1, ForgetMarkAtEffect
    <2>3. n.abandoned[s] = None /\ (k # None => n.abandonedByKey[k] = None)
        BY <1>3, <2>2 DEF OnlyForgets
    <2>4. n.abandonedByFile[f] \in {t, None}
        BY <2>2 DEF OnlyForgets, t
    <2>5. n.abandonedByFile[f] = None
        BY <2>2, <2>4 DEF MarksAgree
    <2> QED BY <2>2, <2>3, <2>5
<1> QED BY <1>1, <1>2, <1>3, <1>4 DEF SameRuns

LEMMA MarkEffect ==
    ASSUME NEW g \in Registry, MarksAgree(g), NEW s \in SessionIds,
           NEW k \in SessionKeys \cup {None}, NEW f \in SessionFiles
    PROVE  /\ MarkAbandoned(g, s, k, f) \in Registry
           /\ SameRuns(g, MarkAbandoned(g, s, k, f))
           /\ MarksAgree(MarkAbandoned(g, s, k, f))
<1> USE RunsAssumption
<1> DEFINE c == ClearAbandonment(g, s, k, f)
           n == MarkAbandoned(g, s, k, f)
           mark == [key |-> k, file |-> f]
<1>1. /\ c \in Registry /\ SameRuns(g, c) /\ MarksAgree(c) /\ c.abandoned[s] = None
      /\ k # None => c.abandonedByKey[k] = None
      /\ c.abandonedByFile[f] = None
    BY ClearEffect
<1>2. n = [c EXCEPT !.abandoned[s] = mark,
                    !.abandonedByKey = Entered(@, k, s),
                    !.abandonedByFile = Entered(@, f, s)]
    BY DEF MarkAbandoned
<1>3. mark \in Marks /\ mark # None /\ mark.key = k /\ mark.file = f
    BY DEF Marks
<1> HIDE DEF c, n, mark
<1>4. /\ n.abandoned = [c.abandoned EXCEPT ![s] = mark]
      /\ n.abandonedByKey = Entered(c.abandonedByKey, k, s)
      /\ n.abandonedByFile = Entered(c.abandonedByFile, f, s)
      /\ SameRuns(c, n)
    BY <1>1, <1>2 DEF Registry, SameRuns
<1>5. /\ n.abandonedByKey \in [SessionKeys -> SessionIds \cup {None}]
      /\ \A x \in SessionKeys : n.abandonedByKey[x] = IF x = k THEN s ELSE c.abandonedByKey[x]
    BY <1>1, <1>4 DEF Registry, Entered
<1>6. /\ n.abandonedByFile \in [SessionFiles -> SessionIds \cup {None}]
      /\ \A x \in SessionFiles : n.abandonedByFile[x] = IF x = f THEN s ELSE c.abandonedByFile[x]
    BY <1>1, <1>4 DEF Registry, Entered
<1>7. /\ n.abandoned \in [SessionIds -> Marks \cup {None}]
      /\ \A t \in SessionIds : n.abandoned[t] = IF t = s THEN mark ELSE c.abandoned[t]
    BY <1>1, <1>3, <1>4 DEF Registry
<1>8. n \in Registry
    BY <1>1, <1>2, <1>4, <1>5, <1>6, <1>7 DEF Registry
<1>9. MarksAgree(n)
    <2>1. \A t \in SessionIds : n.abandoned[t] # None =>
              /\ n.abandoned[t].key # None => n.abandonedByKey[n.abandoned[t].key] = t
              /\ n.abandonedByFile[n.abandoned[t].file] = t
        <3> SUFFICES ASSUME NEW t \in SessionIds, n.abandoned[t] # None
                     PROVE  /\ n.abandoned[t].key # None => n.abandonedByKey[n.abandoned[t].key] = t
                            /\ n.abandonedByFile[n.abandoned[t].file] = t
            OBVIOUS
        <3>1. CASE t = s
            BY <1>3, <1>5, <1>6, <1>7, <3>1
        <3>2. CASE t # s
            <4>1. n.abandoned[t] = c.abandoned[t] /\ c.abandoned[t] \in Marks
                BY <1>1, <1>7, <3>2 DEF Registry
            <4> QED BY <1>1, <1>5, <1>6, <3>2, <4>1 DEF MarksAgree, Marks
        <3> QED BY <3>1, <3>2
    <2>2. \A x \in SessionKeys : n.abandonedByKey[x] # None =>
              /\ n.abandoned[n.abandonedByKey[x]] # None
              /\ n.abandoned[n.abandonedByKey[x]].key = x
        BY <1>1, <1>3, <1>5, <1>7 DEF MarksAgree, Registry
    <2>3. \A x \in SessionFiles : n.abandonedByFile[x] # None =>
              /\ n.abandoned[n.abandonedByFile[x]] # None
              /\ n.abandoned[n.abandonedByFile[x]].file = x
        BY <1>1, <1>3, <1>6, <1>7 DEF MarksAgree, Registry
    <2> QED BY <2>1, <2>2, <2>3 DEF MarksAgree
<1> QED BY <1>1, <1>4, <1>8, <1>9 DEF SameRuns, n, c
\* The new file of a session is its only one.
FileMoves(g, n, s, f) ==
    /\ n \in Registry /\ SameMarks(g, n)
    /\ n.active = g.active /\ n.waiters = g.waiters /\ n.idByKey = g.idByKey
    /\ n.snapshots = g.snapshots /\ n.switches = g.switches
    /\ \A x \in SessionFiles : n.idByFile[x] =
          IF x = f THEN s ELSE IF g.idByFile[x] = s THEN None ELSE g.idByFile[x]

LEMMA FileEffect ==
    ASSUME NEW g \in Registry, NEW s \in SessionIds, NEW f \in SessionFiles
    PROVE  FileMoves(g, FileReplaced(g, s, f), s, f)
<1> USE RunsAssumption
<1> DEFINE index == Entered(Without(g.idByFile, SessionFiles, s), f, s)
           n == FileReplaced(g, s, f)
<1>1. n = [g EXCEPT !.idByFile = index]
    BY DEF FileReplaced
<1>2. /\ index \in [SessionFiles -> SessionIds \cup {None}]
      /\ \A x \in SessionFiles : index[x] =
            IF x = f THEN s ELSE IF g.idByFile[x] = s THEN None ELSE g.idByFile[x]
    BY DEF Registry, Without, Entered
<1> HIDE DEF index, n
<1>3. n \in Registry
    BY <1>1, <1>2 DEF Registry
<1>4. /\ n.idByFile = index /\ SameMarks(g, n)
      /\ n.active = g.active /\ n.waiters = g.waiters /\ n.idByKey = g.idByKey
      /\ n.snapshots = g.snapshots /\ n.switches = g.switches
    BY <1>1 DEF Registry, SameMarks
<1> QED BY <1>2, <1>3, <1>4 DEF n, FileMoves

\* Registering enters the run under its session, key and file.
Registers(g, n, h) ==
    /\ n \in Registry /\ MarksAgree(n)
    /\ n.active = [g.active EXCEPT ![Session[h]] = h]
    /\ n.waiters = g.waiters /\ n.snapshots = g.snapshots /\ n.switches = g.switches
    /\ \A k \in SessionKeys : n.idByKey[k] = IF k = Key[h] THEN Session[h] ELSE g.idByKey[k]
    /\ \A x \in SessionFiles : n.idByFile[x] =
          IF x = File[h] THEN Session[h]
          ELSE IF g.idByFile[x] = Session[h] THEN None ELSE g.idByFile[x]

LEMMA RegisteredEffect ==
    ASSUME NEW g \in Registry, MarksAgree(g), NEW h \in Runs
    PROVE  Registers(g, Registered(g, h), h)
<1> USE RunsAssumption
<1> DEFINE s == Session[h]
           n == Registered(g, h)
           fresh == ClearAbandonment(g, s, Key[h], File[h])
           entered == [fresh EXCEPT !.active[s] = h, !.idByKey = Entered(@, Key[h], s)]
<1>1. s \in SessionIds /\ Key[h] \in SessionKeys \cup {None} /\ File[h] \in SessionFiles
    OBVIOUS
<1>2. fresh \in Registry /\ SameRuns(g, fresh) /\ MarksAgree(fresh)
    BY <1>1, ClearEffect
<1>3. n = FileReplaced(entered, s, File[h])
    BY DEF Registered
<1> HIDE DEF fresh, n, s
<1>4. /\ Entered(fresh.idByKey, Key[h], s) \in [SessionKeys -> SessionIds \cup {None}]
      /\ \A k \in SessionKeys : Entered(fresh.idByKey, Key[h], s)[k] =
            IF k = Key[h] THEN s ELSE fresh.idByKey[k]
    BY <1>1, <1>2 DEF Registry, Entered
<1>5. [fresh.active EXCEPT ![s] = h] \in [SessionIds -> Runs \cup {None}]
    BY <1>1, <1>2 DEF Registry
<1>6. /\ entered \in Registry
      /\ entered.active = [fresh.active EXCEPT ![s] = h]
      /\ entered.idByKey = Entered(fresh.idByKey, Key[h], s)
      /\ entered.idByFile = fresh.idByFile /\ entered.waiters = fresh.waiters
      /\ entered.snapshots = fresh.snapshots /\ entered.switches = fresh.switches
      /\ SameMarks(fresh, entered)
    BY <1>2, <1>4, <1>5 DEF Registry, SameMarks
<1> HIDE DEF entered
<1>7. /\ n \in Registry /\ SameMarks(entered, n)
      /\ n.active = entered.active /\ n.waiters = entered.waiters /\ n.idByKey = entered.idByKey
      /\ n.snapshots = entered.snapshots /\ n.switches = entered.switches
      /\ \A x \in SessionFiles : n.idByFile[x] =
            IF x = File[h] THEN s ELSE IF entered.idByFile[x] = s THEN None ELSE entered.idByFile[x]
    BY <1>1, <1>3, <1>6, FileEffect DEF FileMoves
<1>8. MarksAgree(n)
    BY <1>2, <1>6, <1>7 DEF MarksAgree, SameMarks
<1> QED BY <1>2, <1>4, <1>6, <1>7, <1>8 DEF SameRuns, Registers, n, s

\* A run that goes takes all of its session's files, notes and waiters, and the given key.
Removes(g, n, s, k) ==
    /\ n \in Registry /\ SameMarks(g, n)
    /\ n.active = [g.active EXCEPT ![s] = None]
    /\ n.waiters = [g.waiters EXCEPT ![s] = {}]
    /\ n.snapshots = g.snapshots \ {s} /\ n.switches = g.switches \ {s}
    /\ \A x \in SessionKeys : n.idByKey[x] =
          IF (k = x \/ k = None) /\ g.idByKey[x] = s THEN None ELSE g.idByKey[x]
    /\ \A f \in SessionFiles : n.idByFile[f] = IF g.idByFile[f] = s THEN None ELSE g.idByFile[f]

LEMMA RemovedEffect ==
    ASSUME NEW g \in Registry, NEW s \in SessionIds, NEW k \in SessionKeys \cup {None}
    PROVE  Removes(g, Removed(g, s, k), s, k)
<1> USE RunsAssumption
<1> DEFINE n == Removed(g, s, k)
           keys == Without(g.idByKey, IF k = None THEN SessionKeys ELSE {k}, s)
           files == Without(g.idByFile, SessionFiles, s)
<1>1. n = [g EXCEPT !.active[s] = None, !.snapshots = @ \ {s}, !.switches = @ \ {s},
                    !.idByKey = keys, !.idByFile = files, !.waiters[s] = {}]
    BY DEF Removed
<1>2. /\ keys \in [SessionKeys -> SessionIds \cup {None}]
      /\ \A x \in SessionKeys : keys[x] =
            IF (k = x \/ k = None) /\ g.idByKey[x] = s THEN None ELSE g.idByKey[x]
    BY DEF Registry, Without
<1>3. /\ files \in [SessionFiles -> SessionIds \cup {None}]
      /\ \A f \in SessionFiles : files[f] = IF g.idByFile[f] = s THEN None ELSE g.idByFile[f]
    BY DEF Registry, Without
<1> HIDE DEF keys, files, n
<1>4. /\ n.active = [g.active EXCEPT ![s] = None]
      /\ n.waiters = [g.waiters EXCEPT ![s] = {}]
      /\ n.snapshots = g.snapshots \ {s} /\ n.switches = g.switches \ {s}
      /\ n.idByKey = keys /\ n.idByFile = files /\ SameMarks(g, n)
    BY <1>1 DEF Registry, SameMarks
<1>5. /\ [g.active EXCEPT ![s] = None] \in [SessionIds -> Runs \cup {None}]
      /\ [g.waiters EXCEPT ![s] = {}] \in [SessionIds -> SUBSET Callers]
      /\ g.snapshots \ {s} \in SUBSET SessionIds /\ g.switches \ {s} \in SUBSET SessionIds
    BY DEF Registry
<1>6. n \in Registry
    BY <1>1, <1>2, <1>3, <1>4, <1>5 DEF Registry, SameMarks
<1> QED BY <1>2, <1>3, <1>4, <1>6 DEF n, Removes
-----------------------------------------------------------------------------
(* What the operations keep of the indexes *)

\* The key a caller may give with a session id, or none.
KeyOf(s, k) == k = None \/ \E h \in Runs : Session[h] = s /\ Key[h] = k

LEMMA RegisteredLeads ==
    ASSUME NEW g \in Registry, IndexesLead(g), MarksAgree(g), NEW h \in Runs
    PROVE  IndexesLead(Registered(g, h))
<1> USE RunsAssumption
<1> DEFINE n == Registered(g, h)
           s == Session[h]
<1>1. /\ n \in Registry
      /\ n.active = [g.active EXCEPT ![s] = h]
      /\ \A k \in SessionKeys : n.idByKey[k] = IF k = Key[h] THEN s ELSE g.idByKey[k]
      /\ \A x \in SessionFiles : n.idByFile[x] =
            IF x = File[h] THEN s ELSE IF g.idByFile[x] = s THEN None ELSE g.idByFile[x]
    BY RegisteredEffect DEF Registers
<1>2. s \in SessionIds
    OBVIOUS
<1> HIDE DEF n
<1>3. \A t \in SessionIds : g.active[t] # None => n.active[t] # None
    BY <1>1 DEF Registry
<1>4. n.active[s] # None
    BY <1>1, <1>2 DEF Registry
<1>5. \A k \in SessionKeys : n.idByKey[k] # None =>
          /\ n.active[n.idByKey[k]] # None
          /\ \E x \in Runs : Session[x] = n.idByKey[k] /\ Key[x] = k
    BY <1>1, <1>3, <1>4 DEF IndexesLead, Registry
<1> HIDE DEF s
<1>6. \A f \in SessionFiles : n.idByFile[f] # None => n.active[n.idByFile[f]] # None
    BY <1>1, <1>3, <1>4 DEF IndexesLead, Registry
<1>7. \A e, f \in SessionFiles : (n.idByFile[e] # None /\ n.idByFile[e] = n.idByFile[f]) => e = f
    BY <1>1 DEF IndexesLead
<1> QED BY <1>5, <1>6, <1>7 DEF IndexesLead, n

LEMMA RemovedLeads ==
    ASSUME NEW g \in Registry, IndexesLead(g), NEW s \in SessionIds,
           NEW k \in SessionKeys \cup {None}, KeyOf(s, k)
    PROVE  IndexesLead(Removed(g, s, k))
<1> USE RunsAssumption
<1> DEFINE n == Removed(g, s, k)
<1>1. /\ n.active = [g.active EXCEPT ![s] = None]
      /\ \A x \in SessionKeys : n.idByKey[x] =
            IF (k = x \/ k = None) /\ g.idByKey[x] = s THEN None ELSE g.idByKey[x]
      /\ \A f \in SessionFiles : n.idByFile[f] =
            IF g.idByFile[f] = s THEN None ELSE g.idByFile[f]
    <2>1. Removes(g, n, s, k)
        BY RemovedEffect
    <2> HIDE DEF n
    <2> QED BY <2>1 DEF Removes
<1> HIDE DEF n
<1>2. \A t \in SessionIds : g.active[t] # None /\ t # s => n.active[t] # None
    BY <1>1 DEF Registry
<1>3. \A x \in SessionKeys : n.idByKey[x] # None => n.idByKey[x] = g.idByKey[x] /\ n.idByKey[x] # s
    <2> SUFFICES ASSUME NEW x \in SessionKeys, g.idByKey[x] = s PROVE k = x \/ k = None
        BY <1>1
    <2>1. \E h \in Runs : Session[h] = s /\ Key[h] = x
        BY DEF IndexesLead
    <2> QED BY <2>1, SessionKeyAssumption DEF KeyOf
<1>4. \A x \in SessionKeys : n.idByKey[x] # None =>
          /\ n.active[n.idByKey[x]] # None
          /\ \E h \in Runs : Session[h] = n.idByKey[x] /\ Key[h] = x
    BY <1>2, <1>3 DEF IndexesLead, Registry
<1>5. \A f \in SessionFiles : n.idByFile[f] # None => n.active[n.idByFile[f]] # None
    BY <1>1, <1>2 DEF IndexesLead, Registry
<1>6. \A e, f \in SessionFiles : (n.idByFile[e] # None /\ n.idByFile[e] = n.idByFile[f]) => e = f
    BY <1>1 DEF IndexesLead
<1> QED BY <1>4, <1>5, <1>6 DEF IndexesLead, n

LEMMA FileLeads ==
    ASSUME NEW g \in Registry, IndexesLead(g), NEW s \in SessionIds, NEW f \in SessionFiles,
           g.active[s] # None
    PROVE  IndexesLead(FileReplaced(g, s, f))
<1> DEFINE n == FileReplaced(g, s, f)
<1>1. /\ n.active = g.active /\ n.idByKey = g.idByKey
      /\ \A x \in SessionFiles : n.idByFile[x] =
            IF x = f THEN s ELSE IF g.idByFile[x] = s THEN None ELSE g.idByFile[x]
    BY FileEffect DEF FileMoves
<1> HIDE DEF n
<1>2. \A x \in SessionFiles : n.idByFile[x] # None => n.active[n.idByFile[x]] # None
    BY <1>1 DEF IndexesLead
<1>3. \A e, x \in SessionFiles : (n.idByFile[e] # None /\ n.idByFile[e] = n.idByFile[x]) => e = x
    BY <1>1 DEF IndexesLead
<1> QED BY <1>1, <1>2, <1>3 DEF IndexesLead, n

-----------------------------------------------------------------------------
(* What the steps do *)

\* A run's clear, its own or by force: the registry and the callers it answers.
Clears(s, k) ==
    /\ s \in SessionIds /\ k \in SessionKeys \cup {None} /\ KeyOf(s, k)
    /\ r' = Removed(r, s, k)

LEMMA ClearOwnEffect ==
    ASSUME TypeOK, NEW h \in Runs, ClearOwn(h)
    PROVE  /\ r' = r \/ (r.active[Session[h]] = h /\ Clears(Session[h], Key[h]))
           /\ caller' = Answered(r')
BY RunsAssumption DEF ClearOwn, Clears, KeyOf

LEMMA ForceClearEffect ==
    ASSUME TypeOK, NEW c \in Callers, NEW k \in SessionKeys \cup {None}, ForceClear(c, k)
    PROVE  /\ caller[c].session \in SessionIds /\ caller[c].stage = "undrained"
           /\ r' = r \/ Clears(caller[c].session, k)
           /\ caller' = [Answered(r') EXCEPT ![c] = Told("forced")]
BY DEF ForceClear, Clears, KeyOf, TypeOK

\* Every step registers a run, removes one, or leaves runs, keys and latest registrations alone.
RegistryStep ==
    \/ \E h \in Runs : r' = Registered(r, h) /\ latest' = Entered(latest, Key[h], h)
    \/ latest' = latest /\ \E s, k : Clears(s, k)
    \/ latest' = latest /\ \E s \in SessionIds, f \in SessionFiles :
          r.active[s] # None /\ r' = FileReplaced(r, s, f)
    \/ latest' = latest /\ \E h \in Runs : r' = MarkAbandoned(r, Session[h], Key[h], File[h])
    \/ latest' = latest /\ r' \in Registry /\ SameMarks(r, r')
          /\ r'.active = r.active /\ r'.idByKey = r.idByKey /\ r'.idByFile = r.idByFile

LEMMA StepsOfRegistry == RunsInv /\ [Next]_vars => RegistryStep
<1> SUFFICES ASSUME RunsInv, [Next]_vars PROVE RegistryStep
    OBVIOUS
<1> USE RunsAssumption DEF RunsInv
<1>0. CASE latest' = latest /\ r' = r
    BY <1>0 DEF RegistryStep, SameMarks, TypeOK
<1>1. ASSUME NEW h \in Runs, RegisterRun(h) PROVE RegistryStep
    BY <1>1 DEF RegistryStep, RegisterRun
<1>2. ASSUME NEW h \in Runs, UpdateSnapshot(h) PROVE RegistryStep
    <2>1. PICK noted \in SUBSET SessionIds : r' = [r EXCEPT !.snapshots = noted] /\ latest' = latest
        <3>1. r.snapshots \cup {Session[h]} \in SUBSET SessionIds
            BY DEF TypeOK, Registry
        <3> QED BY <1>2, <3>1 DEF UpdateSnapshot
    <2>2. /\ r' \in Registry /\ SameMarks(r, r')
          /\ r'.active = r.active /\ r'.idByKey = r.idByKey /\ r'.idByFile = r.idByFile
        BY <2>1 DEF SameMarks, TypeOK, Registry
    <2> QED BY <2>1, <2>2 DEF RegistryStep
<1>3. ASSUME NEW h \in Runs, NEW f \in SessionFiles, RotateFile(h, f) PROVE RegistryStep
    BY <1>3 DEF RegistryStep, RotateFile
<1>4. ASSUME NEW h \in Runs, PassDeadline(h) \/ TimeOutIdle(h) PROVE RegistryStep
    <2>1. r' = MarkActiveAbandoned(r, h) /\ latest' = latest
        BY <1>4 DEF PassDeadline, TimeOutIdle
    <2> QED BY <1>0, <2>1 DEF MarkActiveAbandoned, RegistryStep
<1>5. ASSUME NEW h \in Runs, ClearEarly(h) \/ FinishRun(h) PROVE RegistryStep
    <2>1. ClearOwn(h) /\ latest' = latest
        BY <1>5 DEF ClearEarly, FinishRun
    <2> QED BY <1>0, <2>1, ClearOwnEffect DEF RegistryStep
<1>6. ASSUME NEW s \in SessionIds, RequestSwitch(s) \/ ConsumeSwitch(s) PROVE RegistryStep
    <2>1. PICK noted \in SUBSET SessionIds : r' = [r EXCEPT !.switches = noted] /\ latest' = latest
        BY <1>6 DEF RequestSwitch, ConsumeSwitch, TypeOK, Registry
    <2>2. /\ r' \in Registry /\ SameMarks(r, r')
          /\ r'.active = r.active /\ r'.idByKey = r.idByKey /\ r'.idByFile = r.idByFile
        BY <2>1 DEF SameMarks, TypeOK, Registry
    <2> QED BY <2>1, <2>2 DEF RegistryStep
<1>7. ASSUME NEW c \in Callers, NEW s \in SessionIds, NEW drains \in BOOLEAN, Wait(c, s, drains)
      PROVE  RegistryStep
    <2>1. r' = [r EXCEPT !.waiters[s] = @ \cup {c}] /\ latest' = latest
        BY <1>7 DEF Wait
    <2> QED BY <2>1 DEF RegistryStep, SameMarks, TypeOK, Registry
<1>8. ASSUME NEW c \in Callers, WaitTimesOut(c) PROVE RegistryStep
    <2>1. r' = [r EXCEPT !.waiters[caller[c].session] = @ \ {c}] /\ latest' = latest
        BY <1>8 DEF WaitTimesOut
    <2> QED BY <2>1 DEF RegistryStep, SameMarks, TypeOK, Registry
<1>9. ASSUME NEW c \in Callers, NEW k \in SessionKeys \cup {None}, ForceClear(c, k)
      PROVE  RegistryStep
    BY <1>0, <1>9, ForceClearEffect DEF RegistryStep, ForceClear
<1> QED BY <1>0, <1>1, <1>2, <1>3, <1>4, <1>5, <1>6, <1>7, <1>8, <1>9
        DEF Next, vars, StartRun, ExtendDeadline, LaneGivesUp, FailStart, AbortThrows

LEMMA RegistryKept ==
    ASSUME RunsInv, RegistryStep
    PROVE  (IndexesLead(r) /\ MarksAgree(r) /\ LatestHasKey /\ KeyLeadsToLatest)' /\ r' \in Registry
<1> USE RunsAssumption DEF RunsInv
<1>1. r \in Registry /\ latest \in [SessionKeys -> Runs \cup {None}]
    BY DEF TypeOK
<1>2. CASE \E h \in Runs : r' = Registered(r, h) /\ latest' = Entered(latest, Key[h], h)
    <2> PICK h \in Runs : r' = Registered(r, h) /\ latest' = Entered(latest, Key[h], h)
        BY <1>2
    <2>0. Registers(r, r', h)
        BY <1>1, RegisteredEffect
    <2>1. r' \in Registry /\ MarksAgree(r')
        BY <2>0 DEF Registers
    <2>2. IndexesLead(r')
        BY <1>1, RegisteredLeads
    <2>3. \A k \in SessionKeys : latest'[k] = IF k = Key[h] THEN h ELSE latest[k]
        BY <1>1 DEF Entered
    <2>4. LatestHasKey'
        BY <2>3 DEF LatestHasKey
    <2>5. KeyLeadsToLatest'
        <3>1. r'.active = [r.active EXCEPT ![Session[h]] = h]
            BY <2>0 DEF Registers
        <3>2. \A k \in SessionKeys : r'.idByKey[k] = IF k = Key[h] THEN Session[h] ELSE r.idByKey[k]
            BY <2>0 DEF Registers
        <3> SUFFICES ASSUME NEW k \in SessionKeys, latest'[k] # None,
                            r'.active[Session[latest'[k]]] = latest'[k]
                     PROVE  r'.idByKey[k] = Session[latest'[k]]
            BY DEF KeyLeadsToLatest
        <3>3. CASE k = Key[h]
            BY <2>3, <3>2, <3>3
        <3>4. CASE k # Key[h]
            <4>1. latest'[k] = latest[k] /\ latest[k] \in Runs /\ latest[k] # h
                BY <1>1, <2>3, <3>4 DEF LatestHasKey
            <4>2. r.active[Session[latest[k]]] = latest[k]
                BY <1>1, <3>1, <4>1 DEF Registry
            <4> QED BY <3>2, <3>4, <4>1, <4>2 DEF KeyLeadsToLatest
        <3> QED BY <3>3, <3>4
    <2> QED BY <2>1, <2>2, <2>4, <2>5
<1>3. CASE latest' = latest /\ \E s, k : Clears(s, k)
    <2> PICK s, k : Clears(s, k)
        BY <1>3
    <2>1. s \in SessionIds /\ k \in SessionKeys \cup {None} /\ KeyOf(s, k) /\ r' = Removed(r, s, k)
        BY DEF Clears
    <2>2. /\ r' \in Registry /\ SameMarks(r, r')
          /\ r'.active = [r.active EXCEPT ![s] = None]
          /\ \A x \in SessionKeys : r'.idByKey[x] =
                IF (k = x \/ k = None) /\ r.idByKey[x] = s THEN None ELSE r.idByKey[x]
        <3>1. Removes(r, r', s, k)
            BY <1>1, <2>1, RemovedEffect
        <3> QED BY <3>1 DEF Removes
    <2>3. IndexesLead(r')
        BY <1>1, <2>1, RemovedLeads
    <2>4. MarksAgree(r') /\ LatestHasKey'
        BY <1>3, <2>2 DEF MarksAgree, SameMarks, LatestHasKey
    <2>5. KeyLeadsToLatest'
        <3> SUFFICES ASSUME NEW x \in SessionKeys, latest[x] # None,
                            r'.active[Session[latest[x]]] = latest[x]
                     PROVE  r'.idByKey[x] = Session[latest[x]]
            BY <1>3 DEF KeyLeadsToLatest
        <3>1. Session[latest[x]] # s /\ r.active[Session[latest[x]]] = latest[x]
            BY <1>1, <2>1, <2>2 DEF Registry
        <3> QED BY <2>2, <3>1 DEF KeyLeadsToLatest
    <2> QED BY <2>2, <2>3, <2>4, <2>5
<1>4. CASE latest' = latest /\ \E s \in SessionIds, f \in SessionFiles :
              r.active[s] # None /\ r' = FileReplaced(r, s, f)
    <2> PICK s \in SessionIds, f \in SessionFiles : r.active[s] # None /\ r' = FileReplaced(r, s, f)
        BY <1>4
    <2>1. r' \in Registry /\ SameMarks(r, r') /\ r'.active = r.active /\ r'.idByKey = r.idByKey
        BY <1>1, FileEffect DEF FileMoves
    <2>2. IndexesLead(r')
        BY <1>1, FileLeads
    <2> QED BY <1>4, <2>1, <2>2 DEF MarksAgree, SameMarks, LatestHasKey, KeyLeadsToLatest
<1>5. CASE latest' = latest /\ \E h \in Runs : r' = MarkAbandoned(r, Session[h], Key[h], File[h])
    <2>1. r' \in Registry /\ SameRuns(r, r') /\ MarksAgree(r')
        BY <1>1, <1>5, MarkEffect
    <2> QED BY <1>5, <2>1 DEF SameRuns, IndexesLead, LatestHasKey, KeyLeadsToLatest
<1>6. CASE latest' = latest /\ r' \in Registry /\ SameMarks(r, r')
              /\ r'.active = r.active /\ r'.idByKey = r.idByKey /\ r'.idByFile = r.idByFile
    BY <1>6 DEF SameMarks, MarksAgree, IndexesLead, LatestHasKey, KeyLeadsToLatest
<1> QED BY <1>2, <1>3, <1>4, <1>5, <1>6 DEF RegistryStep
-----------------------------------------------------------------------------
(* Preservation: runs, callers and waiters *)

LEMMA ToldFacts ==
    \A stage \in {"ended", "undrained", "forced"} :
        /\ Told(stage) \in CallerType
        /\ Told(stage).stage = stage /\ Told(stage).drains = FALSE
BY DEF Told, CallerType

\* What an end answers: just those waiting that the registry no longer knows.
LEMMA AnsweredEffect ==
    ASSUME TypeOK, NEW g
    PROVE  /\ Answered(g) \in [Callers -> CallerType]
           /\ \A c \in Callers :
                 IF caller[c].stage = "waiting" /\ c \notin g.waiters[caller[c].session]
                 THEN Answered(g)[c].stage = "ended" /\ ~Answered(g)[c].drains
                 ELSE Answered(g)[c] = caller[c]
BY ToldFacts DEF Answered, TypeOK, CallerType

LEMMA CallerStep ==
    ASSUME RunsInv, [Next]_vars
    PROVE  /\ caller' \in [Callers -> CallerType]
           /\ \A c \in Callers :
                 caller'[c].stage = "waiting" \/ caller'[c].drains => caller'[c].session \in SessionIds
<1> USE DEF RunsInv
<1>1. /\ caller \in [Callers -> CallerType]
      /\ \A c \in Callers :
            caller[c].stage = "waiting" \/ caller[c].drains => caller[c].session \in SessionIds
    BY DEF TypeOK, CallerType
<1>2. CASE UNCHANGED caller
    BY <1>1, <1>2
<1>3. ASSUME NEW h \in Runs, ClearEarly(h) \/ FinishRun(h)
      PROVE  /\ caller' \in [Callers -> CallerType]
             /\ \A c \in Callers : caller'[c].stage = "waiting" \/ caller'[c].drains
                                      => caller'[c].session \in SessionIds
    <2>1. caller' = Answered(r')
        BY <1>3 DEF ClearEarly, FinishRun, ClearOwn
    <2> QED BY <1>1, <2>1, AnsweredEffect
<1>4. ASSUME NEW c \in Callers, NEW s \in SessionIds, NEW drains \in BOOLEAN,
             NEW stage \in {"waiting", "undrained"},
             caller' = [caller EXCEPT ![c] = [stage |-> stage, session |-> s, drains |-> drains]]
      PROVE  /\ caller' \in [Callers -> CallerType]
             /\ \A e \in Callers : caller'[e].stage = "waiting" \/ caller'[e].drains
                                      => caller'[e].session \in SessionIds
    <2>1. [stage |-> stage, session |-> s, drains |-> drains] \in CallerType
        BY DEF CallerType
    <2> QED BY <1>1, <1>4, <2>1
<1>5. ASSUME NEW c \in Callers, WaitTimesOut(c)
      PROVE  /\ caller' \in [Callers -> CallerType]
             /\ \A e \in Callers : caller'[e].stage = "waiting" \/ caller'[e].drains
                                      => caller'[e].session \in SessionIds
    <2>1. CASE caller[c].drains
        <3>1. caller' = [caller EXCEPT ![c] = [caller[c] EXCEPT !.stage = "undrained"]]
            BY <1>1, <1>5, <2>1 DEF WaitTimesOut
        <3>2. /\ [caller[c] EXCEPT !.stage = "undrained"] \in CallerType
              /\ [caller[c] EXCEPT !.stage = "undrained"].session = caller[c].session
            BY <1>1 DEF CallerType
        <3> QED BY <1>1, <2>1, <3>1, <3>2
    <2>2. CASE ~caller[c].drains
        <3>1. caller' = [caller EXCEPT ![c] = Told("undrained")]
            BY <1>1, <1>5, <2>2 DEF WaitTimesOut
        <3> QED BY <1>1, <3>1, ToldFacts
    <2> QED BY <2>1, <2>2
<1>6. ASSUME NEW c \in Callers, NEW k \in SessionKeys \cup {None}, ForceClear(c, k)
      PROVE  /\ caller' \in [Callers -> CallerType]
             /\ \A e \in Callers : caller'[e].stage = "waiting" \/ caller'[e].drains
                                      => caller'[e].session \in SessionIds
    <2>1. caller' = [Answered(r') EXCEPT ![c] = Told("forced")]
        BY <1>6, ForceClearEffect
    <2>2. /\ Answered(r') \in [Callers -> CallerType]
          /\ \A e \in Callers : Answered(r')[e].stage = "waiting" \/ Answered(r')[e].drains
                                   => Answered(r')[e].session \in SessionIds
        BY <1>1, AnsweredEffect
    <2> HIDE DEF RunsInv
    <2> QED BY <2>1, <2>2, ToldFacts
<1> QED BY <1>2, <1>3, <1>4, <1>5, <1>6
        DEF Next, vars, StartRun, RegisterRun, UpdateSnapshot, RotateFile, ExtendDeadline,
            PassDeadline, TimeOutIdle, LaneGivesUp, FailStart, RequestSwitch, ConsumeSwitch,
            Wait, AbortThrows

LEMMA TypeStep == RunsInv /\ [Next]_vars => TypeOK'
<1> SUFFICES ASSUME RunsInv, [Next]_vars PROVE TypeOK'
    OBVIOUS
<1> USE RunsAssumption DEF RunsInv
<1>1. r' \in Registry
    BY StepsOfRegistry, RegistryKept
<1>2. latest' \in [SessionKeys -> Runs \cup {None}]
    <2>1. latest' = latest \/ \E h \in Runs : latest' = Entered(latest, Key[h], h)
        BY StepsOfRegistry DEF RegistryStep
    <2> QED BY <2>1 DEF TypeOK, Entered
<1>3. run' \in [Runs -> RunType]
    <2>1. run \in [Runs -> RunType] /\ Over \in RunType
        BY DEF TypeOK, Over, RunType
    <2>2. \A h \in Runs, stage \in {"starting", "running", "cleared", "ended"} :
              [run[h] EXCEPT !.stage = stage] \in RunType
        BY <2>1 DEF RunType
    <2>3. \A h \in Runs : /\ [run[h] EXCEPT !.deadline = "extended"] \in RunType
                          /\ [run[h] EXCEPT !.deadline = "passed", !.timedOut = TRUE] \in RunType
                          /\ [run[h] EXCEPT !.timedOut = TRUE] \in RunType
        BY <2>1 DEF RunType
    <2>4. CASE \E h \in Runs : StartRun(h) \/ RegisterRun(h) \/ ClearEarly(h) \/ FailStart(h)
        <3> PICK h \in Runs : StartRun(h) \/ RegisterRun(h) \/ ClearEarly(h) \/ FailStart(h)
            BY <2>4
        <3>1. PICK stage \in {"starting", "running", "cleared", "ended"} : Stage(h, stage)
            BY DEF StartRun, RegisterRun, ClearEarly, FailStart
        <3>2. run' = [run EXCEPT ![h] = [run[h] EXCEPT !.stage = stage]]
            BY <2>1, <3>1 DEF Stage
        <3> QED BY <2>1, <2>2, <3>2
    <2>5. CASE \E h \in Runs : ExtendDeadline(h) \/ PassDeadline(h) \/ TimeOutIdle(h)
        <3> PICK h \in Runs : ExtendDeadline(h) \/ PassDeadline(h) \/ TimeOutIdle(h)
            BY <2>5
        <3>1. \/ run' = [run EXCEPT ![h] = [run[h] EXCEPT !.deadline = "extended"]]
              \/ run' = [run EXCEPT ![h] = [run[h] EXCEPT !.deadline = "passed", !.timedOut = TRUE]]
              \/ run' = [run EXCEPT ![h] = [run[h] EXCEPT !.timedOut = TRUE]]
            BY <2>1 DEF ExtendDeadline, PassDeadline, TimeOutIdle
        <3> QED BY <2>1, <2>3, <3>1
    <2>6. CASE \E h \in Runs : FinishRun(h)
        BY <2>1, <2>6 DEF FinishRun
    <2>7. CASE UNCHANGED run
        BY <2>1, <2>7
    <2> QED BY <2>4, <2>5, <2>6, <2>7
            DEF Next, vars, UpdateSnapshot, RotateFile, LaneGivesUp, RequestSwitch, ConsumeSwitch,
                Wait, AbortThrows, WaitTimesOut, ForceClear
<1>4. lane' \in [Lanes -> Runs \cup {None}]
    BY DEF TypeOK, Next, vars, StartRun, RegisterRun, UpdateSnapshot, RotateFile, ExtendDeadline,
           PassDeadline, TimeOutIdle, LaneGivesUp, ClearEarly, FinishRun, FailStart,
           RequestSwitch, ConsumeSwitch, Wait, AbortThrows, WaitTimesOut, ForceClear
<1> QED BY <1>1, <1>2, <1>3, <1>4, CallerStep DEF TypeOK, CallerType
\* An end answers every waiter of its session, and no other.
LEMMA ClearAnswers ==
    ASSUME TypeOK, NothingOutlivesRuns, NEW s, NEW k, Clears(s, k)
    PROVE  /\ \A c \in Callers :
                 IF caller[c].stage = "waiting" /\ caller[c].session = s
                 THEN Answered(r')[c].stage = "ended"
                 ELSE Answered(r')[c] = caller[c]
           /\ Removes(r, r', s, k)
<1>1. Removes(r, r', s, k) /\ s \in SessionIds
    BY RemovedEffect DEF Clears, TypeOK
<1>2. \A c \in Callers : caller[c].stage = "waiting" =>
          (c \notin r'.waiters[caller[c].session] <=> caller[c].session = s)
    BY <1>1 DEF Removes, NothingOutlivesRuns, TypeOK, Registry
<1>3. \A c \in Callers :
          IF caller[c].stage = "waiting" /\ c \notin r'.waiters[caller[c].session]
          THEN Answered(r')[c].stage = "ended"
          ELSE Answered(r')[c] = caller[c]
    BY AnsweredEffect
<1> QED BY <1>1, <1>2, <1>3

LEMMA NobodyAnswered ==
    ASSUME TypeOK, NothingOutlivesRuns
    PROVE  \A c \in Callers : Answered(r)[c] = caller[c]
BY AnsweredEffect DEF NothingOutlivesRuns

LEMMA WaitStep ==
    ASSUME RunsInv, [Next]_vars
    PROVE  NothingOutlivesRuns'
<1> USE RunsAssumption DEF RunsInv
<1>0. /\ r \in Registry /\ caller \in [Callers -> CallerType]
      /\ \A c \in Callers :
            caller[c].stage = "waiting" \/ caller[c].drains => caller[c].session \in SessionIds
    BY DEF TypeOK
\* Steps that leave waiters and callers alone and take no run away.
<1>1. ASSUME caller' = caller, r'.waiters = r.waiters,
             \A s \in SessionIds : r.active[s] # None => r'.active[s] # None,
             \A s \in (r'.snapshots \ r.snapshots) \cup (r'.switches \ r.switches) :
                r.active[s] # None /\ s \in SessionIds
      PROVE  NothingOutlivesRuns'
    BY <1>0, <1>1 DEF NothingOutlivesRuns, Registry
\* Steps that take a run away, and may force a caller that waits no more.
<1>2. ASSUME NEW s, NEW k, Clears(s, k),
             \A c \in Callers : \/ caller'[c] = Answered(r')[c]
                                \/ caller[c].stage = "undrained" /\ caller'[c].stage = "forced"
      PROVE  NothingOutlivesRuns'
    <2>1. s \in SessionIds /\ Removes(r, r', s, k)
        BY <1>2, ClearAnswers DEF Clears
    <2>2. \A c \in Callers : caller'[c].stage = "waiting" =>
              caller[c].stage = "waiting" /\ caller'[c] = caller[c] /\ caller[c].session # s
        BY <1>2, ClearAnswers
    <2>3. \A c \in Callers : caller[c].stage = "waiting" /\ caller[c].session # s =>
              caller'[c] = caller[c]
        BY <1>2, ClearAnswers
    <2>4. \A t \in SessionIds \ {s} : r'.waiters[t] = r.waiters[t] /\ r'.active[t] = r.active[t]
        BY <1>0, <2>1 DEF Removes, Registry
    <2>5. r'.waiters[s] = {} /\ s \notin r'.snapshots \cup r'.switches
        BY <1>0, <2>1 DEF Removes, Registry
    <2>6. \A c \in Callers : caller'[c].stage = "waiting" =>
              c \in r'.waiters[caller'[c].session] /\ r'.active[caller'[c].session] # None
        BY <1>0, <2>2, <2>4 DEF NothingOutlivesRuns
    <2>7. \A t \in SessionIds : \A c \in r'.waiters[t] :
              caller'[c].stage = "waiting" /\ caller'[c].session = t
        BY <1>0, <2>3, <2>4, <2>5 DEF NothingOutlivesRuns, Registry
    <2>8. \A t \in r'.snapshots \cup r'.switches : r'.active[t] # None
        BY <1>0, <2>1, <2>4, <2>5 DEF NothingOutlivesRuns, Removes, Registry
    <2> QED BY <2>6, <2>7, <2>8 DEF NothingOutlivesRuns
\* A caller starts or stops waiting.
<1>3. ASSUME NEW c \in Callers, NEW s \in SessionIds, NEW drains \in BOOLEAN, Wait(c, s, drains)
      PROVE  NothingOutlivesRuns'
    <2>1. /\ caller[c].stage = "idle" /\ r.active[s] # None
          /\ caller'[c].stage = "waiting" /\ caller'[c].session = s
          /\ \A e \in Callers \ {c} : caller'[e] = caller[e]
        BY <1>0, <1>3 DEF Wait
    <2>2. /\ r'.active = r.active /\ r'.snapshots = r.snapshots /\ r'.switches = r.switches
          /\ r'.waiters[s] = r.waiters[s] \cup {c}
          /\ \A t \in SessionIds \ {s} : r'.waiters[t] = r.waiters[t]
        BY <1>0, <1>3 DEF Wait, Registry
    <2> QED BY <1>0, <2>1, <2>2 DEF NothingOutlivesRuns, Registry
<1>4. ASSUME NEW c \in Callers, WaitTimesOut(c) PROVE NothingOutlivesRuns'
    <2>1. /\ caller[c].stage = "waiting" /\ caller'[c].stage = "undrained"
          /\ \A e \in Callers \ {c} : caller'[e] = caller[e]
        BY <1>0, <1>4, ToldFacts DEF WaitTimesOut, CallerType
    <2> DEFINE s == caller[c].session
    <2>2. /\ r'.active = r.active /\ r'.snapshots = r.snapshots /\ r'.switches = r.switches
          /\ r'.waiters[s] = r.waiters[s] \ {c}
          /\ \A t \in SessionIds \ {s} : r'.waiters[t] = r.waiters[t]
        BY <1>0, <1>4, <2>1 DEF WaitTimesOut, Registry
    <2> QED BY <1>0, <2>1, <2>2 DEF NothingOutlivesRuns, Registry
<1>5. ASSUME NEW c \in Callers, NEW s \in SessionIds, AbortThrows(c, s) PROVE NothingOutlivesRuns'
    <2>1. /\ caller[c].stage = "idle" /\ caller'[c].stage = "undrained" /\ r' = r
          /\ \A e \in Callers \ {c} : caller'[e] = caller[e]
        BY <1>0, <1>5 DEF AbortThrows
    <2> QED BY <1>0, <2>1 DEF NothingOutlivesRuns, Registry
<1>6. ASSUME NEW h \in Runs, ClearEarly(h) \/ FinishRun(h) PROVE NothingOutlivesRuns'
    <2>1. ClearOwn(h) /\ caller' = Answered(r')
        BY <1>6 DEF ClearEarly, FinishRun, ClearOwn
    <2>2. CASE r' = r
        <3>1. \A c \in Callers : caller'[c] = caller[c]
            BY <2>1, <2>2, NobodyAnswered
        <3> QED BY <1>0, <2>2, <3>1 DEF NothingOutlivesRuns, Registry
    <2>3. CASE Clears(Session[h], Key[h])
        BY <1>2, <2>1, <2>3
    <2> QED BY <2>1, <2>2, <2>3, ClearOwnEffect
<1>7. ASSUME NEW c \in Callers, NEW k \in SessionKeys \cup {None}, ForceClear(c, k)
      PROVE  NothingOutlivesRuns'
    <2>1. /\ caller[c].stage = "undrained"
          /\ r' = r \/ Clears(caller[c].session, k)
          /\ caller' = [Answered(r') EXCEPT ![c] = Told("forced")]
        BY <1>7, ForceClearEffect
    <2>2. /\ caller'[c].stage = "forced"
          /\ \A e \in Callers \ {c} : caller'[e] = Answered(r')[e]
        BY <2>1, AnsweredEffect, ToldFacts
    <2>3. CASE r' = r
        <3>1. \A e \in Callers \ {c} : caller'[e] = caller[e]
            BY <2>2, <2>3, NobodyAnswered
        <3> QED BY <1>0, <2>1, <2>2, <2>3, <3>1 DEF NothingOutlivesRuns, Registry
    <2>4. CASE Clears(caller[c].session, k)
        BY <1>2, <2>1, <2>2, <2>4
    <2> QED BY <2>1, <2>3, <2>4
<1>8. ASSUME NEW h \in Runs, RegisterRun(h) PROVE NothingOutlivesRuns'
    <2>1. Registers(r, r', h) /\ caller' = caller
        BY <1>0, <1>8, RegisteredEffect DEF RegisterRun
    <2> QED BY <1>0, <1>1, <2>1 DEF Registers, Registry
<1>9. ASSUME NEW h \in Runs, NEW f \in SessionFiles, RotateFile(h, f) PROVE NothingOutlivesRuns'
    <2>1. FileMoves(r, r', Session[h], f) /\ caller' = caller
        BY <1>0, <1>9, FileEffect DEF RotateFile
    <2> QED BY <1>1, <2>1 DEF FileMoves
<1>10. ASSUME NEW h \in Runs, PassDeadline(h) \/ TimeOutIdle(h) PROVE NothingOutlivesRuns'
    <2>1. r' = MarkActiveAbandoned(r, h) /\ caller' = caller
        BY <1>10 DEF PassDeadline, TimeOutIdle
    <2>2. r' = r \/ SameRuns(r, r')
        BY <1>0, <2>1, MarkEffect DEF MarkActiveAbandoned
    <2> QED BY <1>1, <2>1, <2>2 DEF SameRuns
<1>11. ASSUME NEW h \in Runs, UpdateSnapshot(h) PROVE NothingOutlivesRuns'
    <2>1. /\ r'.active = r.active /\ r'.waiters = r.waiters /\ r'.switches = r.switches
          /\ r'.snapshots = r.snapshots \cup {Session[h]} /\ r.active[Session[h]] # None
          /\ caller' = caller
        BY <1>0, <1>11 DEF UpdateSnapshot, Registry
    <2> QED BY <1>1, <2>1
<1>12. ASSUME NEW s \in SessionIds, RequestSwitch(s) \/ ConsumeSwitch(s) PROVE NothingOutlivesRuns'
    <2>1. /\ r'.active = r.active /\ r'.waiters = r.waiters /\ r'.snapshots = r.snapshots
          /\ \/ r'.switches = r.switches \cup {s} /\ r.active[s] # None
             \/ r'.switches = r.switches \ {s}
          /\ caller' = caller
        BY <1>0, <1>12 DEF RequestSwitch, ConsumeSwitch, Registry
    <2> QED BY <1>1, <2>1
<1>13. CASE r' = r /\ caller' = caller
    BY <1>1, <1>13
<1> QED BY <1>3, <1>4, <1>5, <1>6, <1>7, <1>8, <1>9, <1>10, <1>11, <1>12, <1>13
        DEF Next, vars, StartRun, ExtendDeadline, LaneGivesUp, FailStart
-----------------------------------------------------------------------------
(* The invariant *)

LEMMA InitRuns == Init => RunsInv
<1> SUFFICES ASSUME Init PROVE RunsInv
    OBVIOUS
<1> USE RunsAssumption
<1>1. /\ \A s \in SessionIds : r.active[s] = None /\ r.waiters[s] = {} /\ r.abandoned[s] = None
      /\ \A k \in SessionKeys : r.idByKey[k] = None /\ r.abandonedByKey[k] = None /\ latest[k] = None
      /\ \A f \in SessionFiles : r.idByFile[f] = None /\ r.abandonedByFile[f] = None
      /\ r.snapshots = {} /\ r.switches = {}
    BY DEF Init, Empty
<1>2. r \in Registry
    BY DEF Init, Empty, Registry
<1>3. \A c \in Callers : caller[c].stage = "idle" /\ ~caller[c].drains
    BY DEF Init
<1>4. TypeOK
    BY <1>2, <1>3 DEF Init, TypeOK, RunType, CallerType
<1>5. IndexesLead(r) /\ MarksAgree(r)
    BY <1>1 DEF IndexesLead, MarksAgree
<1>6. LatestHasKey /\ KeyLeadsToLatest /\ NothingOutlivesRuns
    BY <1>1, <1>3 DEF LatestHasKey, KeyLeadsToLatest, NothingOutlivesRuns
<1> QED BY <1>4, <1>5, <1>6 DEF RunsInv

LEMMA RunsStep == RunsInv /\ [Next]_vars => RunsInv'
BY StepsOfRegistry, RegistryKept, TypeStep, WaitStep DEF RunsInv

LEMMA RunsInvariance == Spec => []RunsInv
BY InitRuns, RunsStep, PTL DEF Spec

\* Every way a session's run can go (clearActiveEmbeddedRun, forceClearEmbeddedAgentRun) answers
\* its waiters and takes its snapshot and switch request along.
THEOREM NothingIsLeft == Spec => []NothingOutlivesRuns
<1>1. RunsInv => NothingOutlivesRuns
    BY DEF RunsInv
<1> QED BY RunsInvariance, <1>1, PTL

\* The maps of run-state.ts stay consistent.
THEOREM MapsAgree == Spec => []IndexesAgree
<1>1. RunsInv => IndexesAgree
    BY DEF RunsInv, IndexesLead, MarksAgree, IndexesAgree
<1> QED BY RunsInvariance, <1>1, PTL

\* An older run that ends does not take the key of a newer one along.
THEOREM LatestIsFound == Spec => []KeyLeadsToLatest
<1>1. RunsInv => KeyLeadsToLatest
    BY DEF RunsInv
<1> QED BY RunsInvariance, <1>1, PTL

\* A waiter learns the end of its session's run, never its replacement.
THEOREM EndIsAnswered == Spec => EndedMeansNoRun
<1>1. ASSUME RunsInv, [Next]_vars, NEW c \in Callers,
             caller[c].stage = "waiting", caller'[c].stage = "ended"
      PROVE  r'.active[caller[c].session] = None
    <2> USE RunsAssumption
    <2>0. /\ TypeOK /\ NothingOutlivesRuns /\ r \in Registry /\ caller \in [Callers -> CallerType]
          /\ caller[c].session \in SessionIds
        BY <1>1 DEF RunsInv, TypeOK
    <2>1. ASSUME NEW s, NEW k, Clears(s, k), caller'[c] = Answered(r')[c]
          PROVE  r'.active[caller[c].session] = None
        <3>1. Removes(r, r', s, k) /\ s = caller[c].session /\ s \in SessionIds
            BY <1>1, <2>0, <2>1, ClearAnswers DEF Clears
        <3> QED BY <2>0, <3>1 DEF Removes, Registry
    <2>2. CASE \E h \in Runs : ClearEarly(h) \/ FinishRun(h)
        <3> PICK h \in Runs : ClearOwn(h) /\ caller' = Answered(r')
            BY <2>2 DEF ClearEarly, FinishRun, ClearOwn
        <3> QED BY <1>1, <2>0, <2>1, ClearOwnEffect, NobodyAnswered
    <2>3. CASE \E e \in Callers, k \in SessionKeys \cup {None} : ForceClear(e, k)
        <3> PICK e \in Callers, k \in SessionKeys \cup {None} : ForceClear(e, k)
            BY <2>3
        <3>1. /\ caller[e].stage = "undrained"
              /\ r' = r \/ Clears(caller[e].session, k)
              /\ caller' = [Answered(r') EXCEPT ![e] = Told("forced")]
            BY <2>0, ForceClearEffect
        <3>2. caller'[c] = Answered(r')[c]
            BY <1>1, <2>0, <3>1, AnsweredEffect
        <3> QED BY <1>1, <2>0, <2>1, <3>1, <3>2, NobodyAnswered
    <2>4. CASE \E e \in Callers : \/ WaitTimesOut(e)
                                  \/ \E s \in SessionIds : AbortThrows(e, s)
                                  \/ \E s \in SessionIds, drains \in BOOLEAN : Wait(e, s, drains)
        BY <1>1, <2>0, <2>4, ToldFacts DEF WaitTimesOut, Wait, AbortThrows, CallerType
    <2>5. CASE UNCHANGED caller
        BY <1>1, <2>5
    <2> QED BY <1>1, <2>2, <2>3, <2>4, <2>5
            DEF Next, vars, StartRun, RegisterRun, UpdateSnapshot, RotateFile, ExtendDeadline,
                PassDeadline, TimeOutIdle, LaneGivesUp, FailStart, RequestSwitch, ConsumeSwitch
<1>2. RunsInv /\ [Next]_vars =>
          [\A c \in Callers : (caller[c].stage = "waiting" /\ caller'[c].stage = "ended") =>
              r'.active[caller[c].session] = None]_vars
    BY <1>1
<1> QED BY RunsInvariance, <1>2, PTL DEF Spec, EndedMeansNoRun

\* Only the registered run itself, or a caller's force, takes a session's run away.
THEOREM NoForeignClear == Spec => RegisteredUntilOwnEnd
<1>1. ASSUME RunsInv, [Next]_vars, NEW s \in SessionIds, r.active[s] # None, r'.active[s] = None
      PROVE  \/ run'[r.active[s]] # run[r.active[s]]
             \/ \E c \in Callers : caller[c].session = s /\ caller[c].stage # "forced"
                                       /\ caller'[c].stage = "forced"
    <2> USE RunsAssumption
    <2>0. TypeOK /\ r \in Registry /\ run \in [Runs -> RunType]
        BY <1>1 DEF RunsInv, TypeOK
    <2>1. ASSUME NEW t, NEW k, Clears(t, k) PROVE s = t
        <3>1. Removes(r, r', t, k)
            BY <2>0, <2>1, RemovedEffect DEF Clears
        <3> QED BY <1>1, <2>0, <3>1 DEF Removes, Registry
    <2>2. CASE \E h \in Runs : ClearEarly(h) \/ FinishRun(h)
        <3> PICK h \in Runs : ClearEarly(h) \/ FinishRun(h)
            BY <2>2
        <3>1. ClearOwn(h) /\ run'[h] # run[h]
            BY <2>0 DEF ClearEarly, FinishRun, Stage, Over, RunType
        <3>2. r.active[Session[h]] = h /\ s = Session[h]
            BY <1>1, <2>0, <2>1, <3>1, ClearOwnEffect
        <3> QED BY <3>1, <3>2
    <2>3. CASE \E c \in Callers, k \in SessionKeys \cup {None} : ForceClear(c, k)
        <3> PICK c \in Callers, k \in SessionKeys \cup {None} : ForceClear(c, k)
            BY <2>3
        <3>1. /\ caller[c].stage = "undrained"
              /\ r' = r \/ Clears(caller[c].session, k)
              /\ caller' = [Answered(r') EXCEPT ![c] = Told("forced")]
            BY <2>0, ForceClearEffect
        <3>2. caller'[c].stage = "forced"
            BY <2>0, <3>1, AnsweredEffect, ToldFacts
        <3>3. s = caller[c].session
            BY <1>1, <2>1, <3>1
        <3> QED BY <3>1, <3>2, <3>3
    <2>4. ASSUME r'.active = r.active PROVE FALSE
        BY <1>1, <2>4
    <2>5. ASSUME NEW h \in Runs, RegisterRun(h) PROVE FALSE
        <3>1. Registers(r, r', h)
            BY <1>1, <2>0, <2>5, RegisteredEffect DEF RegisterRun, RunsInv
        <3> QED BY <1>1, <2>0, <3>1 DEF Registers, Registry
    <2>6. ASSUME NEW h \in Runs, NEW f \in SessionFiles, RotateFile(h, f) PROVE FALSE
        BY <2>0, <2>4, <2>6, FileEffect DEF RotateFile, FileMoves
    <2>7. ASSUME NEW h \in Runs, PassDeadline(h) \/ TimeOutIdle(h) PROVE FALSE
        <3>1. r' = MarkActiveAbandoned(r, h)
            BY <2>7 DEF PassDeadline, TimeOutIdle
        <3>2. r' = r \/ SameRuns(r, r')
            BY <1>1, <2>0, <3>1, MarkEffect DEF MarkActiveAbandoned, RunsInv
        <3> QED BY <2>4, <3>2 DEF SameRuns
    <2>8. ASSUME NEW h \in Runs, UpdateSnapshot(h) PROVE FALSE
        BY <2>0, <2>4, <2>8 DEF UpdateSnapshot, Registry
    <2>9. ASSUME NEW t \in SessionIds, RequestSwitch(t) \/ ConsumeSwitch(t) PROVE FALSE
        BY <2>0, <2>4, <2>9 DEF RequestSwitch, ConsumeSwitch, Registry
    <2>10. ASSUME NEW c \in Callers, NEW t \in SessionIds, NEW drains \in BOOLEAN, Wait(c, t, drains)
           PROVE  FALSE
        BY <2>0, <2>4, <2>10 DEF Wait, Registry
    <2>11. ASSUME NEW c \in Callers, WaitTimesOut(c) PROVE FALSE
        BY <2>0, <2>4, <2>11 DEF WaitTimesOut, Registry
    <2> QED BY <1>1, <2>2, <2>3, <2>4, <2>5, <2>6, <2>7, <2>8, <2>9, <2>10, <2>11
            DEF Next, vars, StartRun, ExtendDeadline, LaneGivesUp, FailStart, AbortThrows
<1>2. RunsInv /\ [Next]_vars =>
          [\A s \in SessionIds : (r.active[s] # None /\ r'.active[s] = None) =>
              \/ run'[r.active[s]] # run[r.active[s]]
              \/ \E c \in Callers : caller[c].session = s /\ caller[c].stage # "forced"
                                        /\ caller'[c].stage = "forced"]_vars
    BY <1>1
<1> QED BY RunsInvariance, <1>2, PTL DEF Spec, RegisteredUntilOwnEnd
=============================================================================
