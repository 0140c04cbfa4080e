----------------------------- MODULE ServerProofs -----------------------------
(***************************************************************************)
(* Proofs about the server's own code: the WhatsApp host adapter and the    *)
(* gateway pipeline.  The two share no state.                              *)
(*                                                                         *)
(* The host adapter, for any number of sockets, hence of reconnects in a    *)
(* row.  A start that is yet to come, a connect under way and a live socket *)
(* are one right to be connected, which every step hands on or gives up:    *)
(* that is the first conjunct of OneConnection, and with one start (NestJS  *)
(* bootstraps a channel once) it makes the whole of it inductive.           *)
(*                                                                         *)
(* The gateway, for any number of messages, conversations and replies.  Its *)
(* properties are inductive together with three facts: a session is stored  *)
(* under the key of the message that saved it, and keys tell conversations  *)
(* apart; a conversation known when a message came still has a session; and *)
(* the count of sent replies follows the stage of the turn.                 *)
(***************************************************************************)
EXTENDS WhatsappHost, Gateway, FiniteSetTheorems, SequenceTheorems, TLAPS


HostTypeOK ==
    /\ stopping \in BOOLEAN /\ loggedOut \in BOOLEAN
    /\ socket \in [Sockets -> {"none", "live", "closed"}]
    /\ loading \in Nat /\ reading \in Nat /\ starts \in Nat

RightsBounded == Attempts + starts <= MaxStarts

-----------------------------------------------------------------------------
(* Counting live sockets *)

LEMMA LiveIsFinite == IsFiniteSet(LiveSockets) /\ Cardinality(LiveSockets) \in Nat
<1>1. IsFiniteSet(Sockets)
    BY FS_Interval, HostAssumption DEF Sockets
<1>2. IsFiniteSet(LiveSockets)
    BY <1>1, FS_Subset DEF LiveSockets
<1> QED BY <1>2, FS_CardinalityType

\* A live socket makes a right of its own.
LEMMA LiveCounts == ASSUME NEW s \in Sockets, socket[s] = "live" PROVE Cardinality(LiveSockets) >= 1
<1>1. LiveSockets # {}
    BY DEF LiveSockets
<1> QED BY <1>1, LiveIsFinite, FS_EmptySet

\* With one live socket at most, two live sockets are one.
LEMMA LiveIsUnique ==
    ASSUME Cardinality(LiveSockets) <= 1, NEW s \in LiveSockets, NEW r \in LiveSockets
    PROVE  s = r
<1>1. PICK x : LiveSockets = {x}
    <2>1. LiveSockets # {}
        OBVIOUS
    <2>2. Cardinality(LiveSockets) = 1
        BY <2>1, LiveIsFinite, FS_EmptySet
    <2> QED BY <2>2, LiveIsFinite, FS_Singleton
<1> QED BY <1>1

\* What steps make of the live sockets.
LEMMA LiveAfterMake ==
    ASSUME NEW s \in Sockets, HostTypeOK, socket[s] = "none",
           socket' = [socket EXCEPT ![s] = "live"]
    PROVE  /\ LiveSockets' = LiveSockets \cup {s}
           /\ Cardinality(LiveSockets') = Cardinality(LiveSockets) + 1
<1>1. LiveSockets' = LiveSockets \cup {s} /\ s \notin LiveSockets
    BY DEF LiveSockets, HostTypeOK, Sockets
<1> QED BY <1>1, LiveIsFinite, FS_AddElement

LEMMA LiveAfterClose ==
    ASSUME NEW s \in Sockets, HostTypeOK, socket[s] = "live",
           socket' = [socket EXCEPT ![s] = "closed"]
    PROVE  /\ LiveSockets' = LiveSockets \ {s}
           /\ Cardinality(LiveSockets') = Cardinality(LiveSockets) - 1
<1>1. LiveSockets' = LiveSockets \ {s} /\ s \in LiveSockets
    BY DEF LiveSockets, HostTypeOK, Sockets
<1> QED BY <1>1, LiveIsFinite, FS_RemoveElement

LEMMA LiveAfterStop ==
    ASSUME HostTypeOK, Stop
    PROVE  /\ LiveSockets' \subseteq LiveSockets
           /\ Cardinality(LiveSockets') <= Cardinality(LiveSockets)
           /\ Cardinality(LiveSockets') \in Nat
<1>1. LiveSockets' \subseteq LiveSockets
    BY DEF LiveSockets, HostTypeOK, Sockets, Stop
<1> QED BY <1>1, LiveIsFinite, FS_Subset, FS_CardinalityType

-----------------------------------------------------------------------------
(* The invariants *)

LEMMA HostTypeStep == HostTypeOK /\ [HostNext]_hostVars => HostTypeOK'
<1> SUFFICES ASSUME HostTypeOK, [HostNext]_hostVars PROVE HostTypeOK'
    OBVIOUS
<1> USE DEF HostTypeOK, Sockets
<1>1. CASE Start
    <2>1. loading' \in Nat /\ reading' \in Nat /\ starts' \in Nat
        BY <1>1 DEF Start
    <2> QED BY <1>1, <2>1, Zenon DEF Start
<1>2. CASE BaileysLoaded
    BY <1>2 DEF BaileysLoaded
<1>3. CASE MakeSocket
    BY <1>3 DEF MakeSocket
<1>4. CASE ConnectThrows
    BY <1>4 DEF ConnectThrows
<1>5. CASE Stop
    BY <1>5 DEF Stop
<1>6. CASE \E s \in Sockets : Close(s)
    BY <1>6 DEF Close
<1>7. CASE UNCHANGED hostVars
    BY <1>7 DEF hostVars
<1> QED BY <1>1, <1>2, <1>3, <1>4, <1>5, <1>6, <1>7 DEF HostNext

LEMMA RightsStep == HostTypeOK /\ RightsBounded /\ [HostNext]_hostVars => RightsBounded'
<1> SUFFICES ASSUME HostTypeOK, RightsBounded, [HostNext]_hostVars PROVE RightsBounded'
    OBVIOUS
<1> USE LiveIsFinite, HostAssumption DEF HostTypeOK, RightsBounded, Attempts
<1>1. CASE Start
    BY <1>1 DEF Start, LiveSockets
<1>2. CASE BaileysLoaded
    BY <1>2 DEF BaileysLoaded, LiveSockets
<1>3. CASE MakeSocket
    <2>1. Cardinality(LiveSockets') = Cardinality(LiveSockets) + 1
        BY <1>3, LiveAfterMake DEF MakeSocket
    <2> QED BY <1>3, <2>1 DEF MakeSocket
<1>4. CASE ConnectThrows
    BY <1>4 DEF ConnectThrows, LiveSockets
<1>5. CASE Stop
    BY <1>5, LiveAfterStop DEF Stop
<1>6. CASE \E s \in Sockets : Close(s)
    <2>1. Cardinality(LiveSockets') = Cardinality(LiveSockets) - 1
        BY <1>6, LiveAfterClose DEF Close
    <2> QED BY <1>6, <2>1 DEF Close
<1>7. CASE UNCHANGED hostVars
    BY <1>7 DEF hostVars, LiveSockets
<1> QED BY <1>1, <1>2, <1>3, <1>4, <1>5, <1>6, <1>7 DEF HostNext

\* Where a channel that has not been told to stop has its live socket, and what a log-out
\* leaves.
LEMMA ConnectionStep ==
    ASSUME MaxStarts <= 1, HostTypeOK, OneConnection, [HostNext]_hostVars
    PROVE  (loggedOut => Attempts = 0)' /\ (~stopping => \A s \in LiveSockets : sock = s)'
<1> USE LiveIsFinite, HostAssumption DEF HostTypeOK, OneConnection, Attempts
<1>1. CASE Start
    <2>1. LiveSockets = {}
        BY <1>1, FS_EmptySet DEF Start
    <2> QED BY <1>1, <2>1 DEF Start, LiveSockets
<1>2. CASE BaileysLoaded
    BY <1>2 DEF BaileysLoaded, LiveSockets
<1>3. CASE MakeSocket
    <2>1. LiveSockets = {} /\ ~loggedOut
        BY <1>3, FS_EmptySet DEF MakeSocket
    <2> QED BY <1>3, <2>1, LiveAfterMake DEF MakeSocket
<1>4. CASE ConnectThrows
    BY <1>4 DEF ConnectThrows, LiveSockets
<1>5. CASE Stop
    BY SMTT(30), <1>5, LiveAfterStop DEF Stop
<1>6. CASE \E s \in Sockets : Close(s)
    <2> PICK s \in Sockets : Close(s)
        BY <1>6
    <2>1. LiveSockets' \subseteq LiveSockets
        BY LiveAfterClose DEF Close
    <2>2. Cardinality(LiveSockets') = Cardinality(LiveSockets) - 1
        BY LiveAfterClose DEF Close
    <2>3. Cardinality(LiveSockets) >= 1
        BY LiveCounts DEF Close
    <2>4. ~loggedOut /\ loading = 0 /\ reading = 0 /\ Cardinality(LiveSockets) = 1
        BY <2>3
    <2>5. (loggedOut => Attempts = 0)'
        BY <2>2, <2>4 DEF Close
    <2> QED BY <2>1, <2>5 DEF Close
<1>7. CASE UNCHANGED hostVars
    BY <1>7 DEF hostVars, LiveSockets
<1> QED BY <1>1, <1>2, <1>3, <1>4, <1>5, <1>6, <1>7 DEF HostNext

-----------------------------------------------------------------------------

LEMMA InitRights == HostInit => HostTypeOK /\ RightsBounded /\ OneConnection
<1> SUFFICES ASSUME HostInit PROVE HostTypeOK /\ RightsBounded /\ OneConnection
    OBVIOUS
<1>1. LiveSockets = {}
    BY DEF HostInit, LiveSockets
<1>2. Attempts = 0 /\ Attempts + starts <= MaxStarts
    BY <1>1, FS_EmptySet, HostAssumption DEF HostInit, Attempts
<1>3. HostTypeOK
    <2>1. loading \in Nat /\ reading \in Nat /\ starts \in Nat
        BY HostAssumption DEF HostInit
    <2> QED BY <2>1, Zenon DEF HostInit, HostTypeOK
<1> QED BY <1>1, <1>2, <1>3 DEF RightsBounded, OneConnection

\* However connections are lost, connects fail, and stops and reconnects interleave, the
\* connects under way and the live sockets are never more than the starts (connect,
\* whose close handler calls connect again).
THEOREM ConnectionsFollowStarts == HostSpec => []RightsBounded
<1>1. HostTypeOK /\ RightsBounded /\ [HostNext]_hostVars => (HostTypeOK /\ RightsBounded)'
    BY HostTypeStep, RightsStep
<1> QED BY InitRights, <1>1, PTL DEF HostSpec

\* A channel that is started once has one connection at a time; it has none once the pairing
\* was logged out; and its socket is the one that stop would end.
THEOREM OneStartOneConnection ==
    ASSUME MaxStarts <= 1
    PROVE  HostSpec => []OneConnection
<1>1. HostTypeOK /\ OneConnection /\ [HostNext]_hostVars => (HostTypeOK /\ OneConnection)'
    BY HostTypeStep, RightsStep, ConnectionStep DEF OneConnection, RightsBounded
<1> QED BY InitRights, <1>1, PTL DEF HostSpec

-----------------------------------------------------------------------------
(* The gateway *)


\* A joined sequence has one beginning of a given length, and one rest.
LEMMA JoinTells ==
    ASSUME NEW S, NEW f \in Seq(S), NEW g \in Seq(S), NEW s \in Seq(S), NEW t \in Seq(S),
           Len(f) = Len(g), f \o s = g \o t
    PROVE  f = g /\ s = t
<1>1. \A x, y \in Seq(S) : /\ Len(x \o y) = Len(x) + Len(y)
                          /\ \A i \in 1..Len(x) : (x \o y)[i] = x[i]
                          /\ \A j \in 1..Len(y) : (x \o y)[Len(x) + j] = y[j]
    <2> TAKE x, y \in Seq(S)
    <2>1. Len(x) \in Nat /\ Len(y) \in Nat
        OBVIOUS
    <2>2. \A j \in 1..Len(y) : (x \o y)[Len(x) + j] = y[j]
        BY <2>1
    <2> QED BY <2>1, <2>2
<1>2. Len(s) = Len(t) /\ Len(s) \in Nat /\ Len(f) \in Nat
    <2>1. Len(f) \in Nat /\ Len(s) \in Nat /\ Len(t) \in Nat
        OBVIOUS
    <2> QED BY <1>1, <2>1
<1>3. f = g
    BY <1>1, SeqEqual
<1>4. \A i \in 1..Len(s) : s[i] = t[i]
    <2> TAKE i \in 1..Len(s)
    <2>1. (f \o s)[Len(f) + i] = s[i]
        BY <1>1
    <2>2. (g \o t)[Len(f) + i] = t[i]
        BY <1>1, <1>2
    <2> QED BY <2>1, <2>2
<1> QED BY <1>2, <1>3, <1>4, SeqEqual

\* The channel has one part, so equal keys have equal ids, whatever colons a chat id has.
LEMMA KeyTellsChats ==
    ASSUME NEW m \in Msgs, NEW n \in Msgs, SessionKey(m) = SessionKey(n)
    PROVE  SameChat(m, n)
<1> DEFINE agent == <<"agent", "main">>
<1> HIDE DEF agent
<1>1. agent \in Seq(Part) /\ Len(agent) = 2
    BY GatewayAssumption DEF agent
<1> DEFINE front(k) == agent \o Channel[k]
<1>2. ASSUME NEW k \in Msgs
      PROVE  /\ Channel[k] \in Seq(Part) /\ ChatId[k] \in Seq(Part)
             /\ front(k) \in Seq(Part) /\ Len(front(k)) = 3
             /\ SessionKey(k) = front(k) \o ChatId[k]
  <2>1. Channel[k] \in Seq(Part) /\ Len(Channel[k]) = 1 /\ ChatId[k] \in Seq(Part)
      BY GatewayAssumption
  <2>2. front(k) \in Seq(Part) /\ Len(front(k)) = Len(agent) + Len(Channel[k])
      BY <1>1, <2>1, ConcatProperties
  <2>3. SessionKey(k) = front(k) \o ChatId[k]
      BY DEF SessionKey, agent
  <2> QED BY <1>1, <2>1, <2>2, <2>3
<1>3. front(m) = front(n) /\ ChatId[m] = ChatId[n]
  <2> HIDE DEF front
  <2>1. front(m) \o ChatId[m] = front(n) \o ChatId[n] /\ Len(front(m)) = Len(front(n))
      BY <1>2
  <2>2. /\ front(m) \in Seq(Part) /\ front(n) \in Seq(Part)
        /\ ChatId[m] \in Seq(Part) /\ ChatId[n] \in Seq(Part)
      BY <1>2
  <2> QED BY ONLY <2>1, <2>2, JoinTells
<1>4. Channel[m] = Channel[n]
  <2>1. agent \o Channel[m] = agent \o Channel[n] /\ Len(agent) = Len(agent)
      BY <1>3
  <2>2. Channel[m] \in Seq(Part) /\ Channel[n] \in Seq(Part)
      BY <1>2
  <2> QED BY <1>1, <2>1, <2>2, JoinTells
<1> QED BY <1>3, <1>4 DEF SameChat

\* A session is stored under the key of the message that saved it.
StoredUnderOwnKey ==
    \A k \in Keys : store[k] # NoSession => SessionKey(store[k]) = k

\* A conversation known when a message came still has a session, which its turn was given.
StillKnown ==
    \A m \in Msgs : known[m] =>
        /\ store[SessionKey(m)] # NoSession
        /\ stage[m] \in {"load", "media", "turn", "prepare", "deliver", "save"} => seen[m] # NoSession

\* Nothing is sent before the turn has ended, and a reply is prepared while one is left.
Counting ==
    \A m \in Msgs :
        /\ stage[m] \in {"new", "commands", "inbound", "routing", "load", "media", "turn"} => sent[m] = 0
        /\ stage[m] = "prepare" => sent[m] < replies[m]

IInv ==
    /\ TypeOK
    /\ SavedMeansAnswered
    /\ SessionOfOwnChat
    /\ StoredUnderOwnKey
    /\ StillKnown
    /\ Counting

LEMMA GatewayInit == Init => IInv
<1> SUFFICES ASSUME Init PROVE IInv
    OBVIOUS
<1> USE GatewayAssumption DEF Init
<1>1. TypeOK
    BY DEF TypeOK, Stages
<1>2. SavedMeansAnswered /\ SessionOfOwnChat /\ StoredUnderOwnKey /\ StillKnown /\ Counting
    BY DEF SavedMeansAnswered, SessionOfOwnChat, StoredUnderOwnKey, StillKnown, Counting
<1> QED BY <1>1, <1>2 DEF IInv

LEMMA KeyIsKey == ASSUME NEW m \in Msgs PROVE SessionKey(m) \in Keys
BY DEF Keys

\* Saving leaves the message as the last one of its conversation.
LEMMA SaveStores ==
    ASSUME IInv, NEW m \in Msgs, Save(m)
    PROVE  /\ store' \in [Keys -> Msgs \cup {NoSession}]
           /\ store'[SessionKey(m)] = m
           /\ \A k \in Keys \ {SessionKey(m)} : store'[k] = store[k]
           /\ stage' \in [Msgs -> Stages]
           /\ stage'[m] = "save"
           /\ \A n \in Msgs \ {m} : stage'[n] = stage[n]
<1>1. SessionKey(m) \in Keys
    BY KeyIsKey
<1>2. store' = [store EXCEPT ![SessionKey(m)] = m] /\ store \in [Keys -> Msgs \cup {NoSession}]
    BY DEF IInv, TypeOK, Save
<1>3. /\ stage' \in [Msgs -> Stages] /\ stage'[m] = "save"
      /\ \A n \in Msgs \ {m} : stage'[n] = stage[n]
    BY DEF IInv, TypeOK, Save, Stages
<1> QED BY <1>1, <1>2, <1>3

\* A step that saves keeps the invariant, whatever it does to the replies of its message.
LEMMA SaveKeepsInv ==
    ASSUME IInv, NEW m \in Msgs, Save(m), stage[m] \in {"turn", "deliver"},
           replies' \in [Msgs -> 0..MaxReplies],
           \A n \in Msgs \ {m} : replies'[n] = replies[n],
           sent[m] = replies'[m],
           UNCHANGED <<seen, sent, known>>
    PROVE  IInv'
<1>c. MaxReplies \in Nat /\ NoSession \notin Msgs
    BY GatewayAssumption
<1> USE <1>c DEF IInv
<1>0. /\ store' \in [Keys -> Msgs \cup {NoSession}]
      /\ store'[SessionKey(m)] = m
      /\ SessionKey(m) \in Keys
      /\ \A k \in Keys \ {SessionKey(m)} : store'[k] = store[k]
      /\ stage' \in [Msgs -> Stages]
      /\ stage'[m] = "save"
      /\ \A n \in Msgs \ {m} : stage'[n] = stage[n]
    BY SaveStores, KeyIsKey
<1>a. \A n \in Msgs : SessionKey(n) \in Keys
    BY KeyIsKey
<1>b. \A n \in Msgs : store[SessionKey(n)] # NoSession => store'[SessionKey(n)] # NoSession
    BY <1>0, <1>a
<1>1. TypeOK'
    BY <1>0 DEF TypeOK
<1>2. SavedMeansAnswered'
  <2> SUFFICES ASSUME NEW k \in Keys, store'[k] # NoSession
               PROVE  /\ sent'[store'[k]] = replies'[store'[k]]
                      /\ stage'[store'[k]] \in {"save", "done", "failed"}
      BY DEF SavedMeansAnswered
  <2>1. CASE k = SessionKey(m)
      BY <2>1, <1>0
  <2>2. CASE k # SessionKey(m)
    <3>1. store'[k] = store[k] /\ store[k] \in Msgs
        BY <2>2, <1>0 DEF TypeOK
    <3> DEFINE p == store[k]
    <3>2. p \in Msgs /\ p # m /\ sent[p] = replies[p] /\ stage[p] \in {"save", "done", "failed"}
        BY <2>2, <3>1, <1>0 DEF SavedMeansAnswered
    <3>3. store'[k] = p /\ sent'[p] = sent[p] /\ replies'[p] = replies[p] /\ stage'[p] = stage[p]
        BY <3>1, <3>2, <1>0
    <3> QED BY <3>2, <3>3
  <2> QED BY <2>1, <2>2
<1>3. SessionOfOwnChat'
    BY <1>b DEF SessionOfOwnChat, TypeOK
<1>4. StoredUnderOwnKey'
    BY <1>0 DEF StoredUnderOwnKey
<1>5. StillKnown'
    BY <1>0, <1>b DEF StillKnown
<1>6. Counting'
    BY <1>0 DEF Counting
<1> QED BY <1>1, <1>2, <1>3, <1>4, <1>5, <1>6

LEMMA GatewayStep == IInv /\ [Next]_vars => IInv'
<1> SUFFICES ASSUME IInv, [Next]_vars PROVE IInv'
    OBVIOUS
<1>c. MaxReplies \in Nat /\ NoSession \notin Msgs
    BY GatewayAssumption
<1> USE <1>c DEF IInv
<1>2. ASSUME NEW m \in Msgs, Receive(m) PROVE IInv'
  <2> USE <1>2, KeyIsKey DEF Receive
  <2>1. TypeOK'
      BY DEF TypeOK, Stages
  <2>2. SavedMeansAnswered' /\ SessionOfOwnChat' /\ StoredUnderOwnKey'
      BY DEF TypeOK, SavedMeansAnswered, SessionOfOwnChat, StoredUnderOwnKey
  <2>3. StillKnown' /\ Counting'
      BY DEF TypeOK, StillKnown, Counting
  <2> QED BY <2>1, <2>2, <2>3
<1>3. ASSUME NEW m \in Msgs, CommandsAnswered(m) \/ Classified(m) \/ Loaded(m) \/ MediaResolved(m)
                              \/ Saved(m) \/ Rejects(m)
      PROVE IInv'
  <2>1. /\ UNCHANGED <<seen, replies, sent, store, known>>
        /\ stage' \in [Msgs -> Stages]
        /\ \A n \in Msgs \ {m} : stage'[n] = stage[n]
      BY <1>3 DEF CommandsAnswered, Classified, Loaded, MediaResolved, Saved, Rejects, TypeOK, Stages, Ended
  <2>2. stage[m] \in {"save", "done", "failed"} => stage'[m] \in {"save", "done", "failed"}
      BY <1>3 DEF CommandsAnswered, Classified, Loaded, MediaResolved, Saved, Rejects, TypeOK, Ended
  <2>3. stage'[m] \in {"load", "media", "turn", "prepare", "deliver", "save"}
            => stage[m] \in {"load", "media"}
      BY <1>3 DEF CommandsAnswered, Classified, Loaded, MediaResolved, Saved, Rejects, TypeOK
  <2>4. TypeOK'
      BY <2>1 DEF TypeOK
  <2>5. SavedMeansAnswered'
      BY <2>1, <2>2 DEF TypeOK, SavedMeansAnswered
  <2>6. SessionOfOwnChat' /\ StoredUnderOwnKey'
      BY <2>1 DEF SessionOfOwnChat, StoredUnderOwnKey
  <2>7. StillKnown'
      BY <2>1, <2>3 DEF StillKnown
  <2>8. Counting'
      BY <1>3, <2>1 DEF CommandsAnswered, Classified, Loaded, MediaResolved, Saved, Rejects, TypeOK, Counting, Ended
  <2> QED BY <2>4, <2>5, <2>6, <2>7, <2>8
<1>4. ASSUME NEW m \in Msgs, Routed(m) PROVE IInv'
  <2> USE <1>4, KeyIsKey DEF Routed
  <2>1. TypeOK'
      BY DEF TypeOK, Stages
  <2>2. SavedMeansAnswered' /\ StoredUnderOwnKey'
      BY DEF TypeOK, SavedMeansAnswered, StoredUnderOwnKey
  <2>3. SessionOfOwnChat'
    <3> DEFINE p == store[SessionKey(m)]
    <3>1. ASSUME p # NoSession
          PROVE  p \in Msgs /\ p # m /\ SameChat(p, m)
      <4>1. p \in Msgs /\ stage[p] \in {"save", "done", "failed"} /\ SessionKey(p) = SessionKey(m)
          BY <3>1 DEF TypeOK, SavedMeansAnswered, StoredUnderOwnKey
      <4> QED BY <4>1, KeyTellsChats
    <3>2. seen' = [seen EXCEPT ![m] = p] /\ store' = store
        OBVIOUS
    <3> QED BY <3>1, <3>2 DEF TypeOK, SessionOfOwnChat
  <2>4. StillKnown' /\ Counting'
      BY DEF TypeOK, StillKnown, Counting
  <2> QED BY <2>1, <2>2, <2>3, <2>4
<1>5. ASSUME NEW m \in Msgs, TurnEnded(m) PROVE IInv'
  <2>1. PICK n \in 0..MaxReplies :
            /\ replies' = [replies EXCEPT ![m] = n]
            /\ IF n > 0 THEN stage' = [stage EXCEPT ![m] = "prepare"] /\ UNCHANGED store ELSE Save(m)
      BY <1>5 DEF TurnEnded
  <2>2. stage[m] = "turn" /\ UNCHANGED <<seen, sent, known>>
      BY <1>5 DEF TurnEnded
  <2>3. sent[m] = 0
      BY <2>2 DEF Counting
  <2>4. CASE n = 0
      BY <2>1, <2>2, <2>3, <2>4, SaveKeepsInv DEF TypeOK
  <2>5. CASE n > 0
    <3>1. /\ replies' = [replies EXCEPT ![m] = n] /\ stage' = [stage EXCEPT ![m] = "prepare"]
          /\ UNCHANGED store
        BY <2>1, <2>5
    <3>2. TypeOK' /\ Counting'
        BY <2>2, <2>3, <2>5, <3>1 DEF TypeOK, Stages, Counting
    <3>3. SavedMeansAnswered'
        BY <2>2, <3>1 DEF TypeOK, SavedMeansAnswered
    <3>4. SessionOfOwnChat' /\ StoredUnderOwnKey' /\ StillKnown'
        BY <2>2, <3>1 DEF TypeOK, SessionOfOwnChat, StoredUnderOwnKey, StillKnown
    <3> QED BY <3>2, <3>3, <3>4
  <2> QED BY <2>4, <2>5
<1>6. ASSUME NEW m \in Msgs, Prepared(m) PROVE IInv'
  <2> USE <1>6 DEF Prepared
  <2>1. sent[m] + 1 <= replies[m] /\ sent[m] + 1 \in 0..MaxReplies
      BY DEF TypeOK, Counting
  <2>2. TypeOK'
      BY <2>1 DEF TypeOK, Stages
  <2>3. SavedMeansAnswered'
      BY DEF TypeOK, SavedMeansAnswered
  <2>4. SessionOfOwnChat' /\ StoredUnderOwnKey' /\ StillKnown' /\ Counting'
      BY DEF TypeOK, SessionOfOwnChat, StoredUnderOwnKey, StillKnown, Counting
  <2> QED BY <2>2, <2>3, <2>4
<1>7. ASSUME NEW m \in Msgs, Delivered(m) PROVE IInv'
  <2>1. stage[m] = "deliver" /\ UNCHANGED <<seen, replies, sent, known>>
      BY <1>7 DEF Delivered
  <2>2. CASE sent[m] < replies[m]
    <3>1. stage' = [stage EXCEPT ![m] = "prepare"] /\ UNCHANGED store
        BY <1>7, <2>2 DEF Delivered
    <3> QED BY <2>1, <2>2, <3>1
            DEF TypeOK, Stages, SavedMeansAnswered, SessionOfOwnChat, StoredUnderOwnKey,
                StillKnown, Counting
  <2>3. CASE ~(sent[m] < replies[m])
    <3>1. Save(m)
        BY <1>7, <2>3 DEF Delivered
    <3>2. sent[m] = replies[m]
        BY <2>3 DEF TypeOK
    <3>3. replies' \in [Msgs -> 0..MaxReplies]
        BY <2>1 DEF TypeOK
    <3> QED BY <2>1, <3>1, <3>2, <3>3, SaveKeepsInv
  <2> QED BY <2>2, <2>3
<1>8. CASE UNCHANGED vars
    BY <1>8 DEF vars, TypeOK, SavedMeansAnswered, SessionOfOwnChat, StoredUnderOwnKey, StillKnown, Counting
<1> QED BY <1>2, <1>3, <1>4, <1>5, <1>6, <1>7, <1>8 DEF Next

LEMMA GatewayInvariance == Spec => []IInv
<1> QED BY GatewayInit, GatewayStep, PTL DEF Spec

\* The stages, sessions and counts keep their types, and no turn sends more replies than
\* it has.
THEOREM GatewayTypes == Spec => []TypeOK
<1>1. IInv => TypeOK
    BY DEF IInv
<1> QED BY GatewayInvariance, <1>1, PTL

\* A session is only ever saved for a message all of whose replies were delivered.
THEOREM OnlyAnsweredIsSaved == Spec => []SavedMeansAnswered
<1>1. IInv => SavedMeansAnswered
    BY DEF IInv
<1> QED BY GatewayInvariance, <1>1, PTL

\* Turns are given sessions of their own conversation only, whatever colons the chat ids
\* have, as long as channel ids have none (RoutingService.resolve).
THEOREM ChatsDoNotMix == Spec => []SessionOfOwnChat
<1>1. IInv => SessionOfOwnChat
    BY DEF IInv
<1> QED BY GatewayInvariance, <1>1, PTL

\* A conversation that had a session when a message came is not new to its turn.
THEOREM NoConversationForgotten == Spec => []ConversationIsRemembered
<1>1. IInv => ConversationIsRemembered
    BY DEF IInv, StillKnown, ConversationIsRemembered
<1> QED BY GatewayInvariance, <1>1, PTL
=============================================================================
