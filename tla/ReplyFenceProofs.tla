--------------------------- MODULE ReplyFenceProofs ---------------------------
(***************************************************************************)
(* Proofs about the reply fence, for any number of dispatches, sessions,    *)
(* lanes and timeouts.                                                      *)
(***************************************************************************)
EXTENDS ReplyFence, FiniteSetTheorems, TLAPS

Fence == [generation : Nat, active : Nat, controllers : SUBSET Dispatches,
          lanes : SUBSET FenceLanes]

TypeOK ==
    /\ byKey \in [FenceKeys -> Fence]
    /\ byLane \in [FenceLanes -> SUBSET FenceKeys]
    /\ aborted \subseteq Dispatches
    /\ timeouts \in Nat
    /\ dispatch \in [Dispatches ->
          [stage : {"idle", "running", "ended"}, key : FenceKeys \cup {Idle.key},
           lane : FenceLanes \cup {NoLane}, generation : Nat,
           followup : {"none", "queued", "complete"}]]
    /\ \A d \in Dispatches :
          IF dispatch[d].stage = "idle" THEN dispatch[d].followup = "none"
          ELSE dispatch[d].key \in FenceKeys /\ dispatch[d].lane \in FenceLanes

\* The dispatches that run under a key.
RunningUnder(k) == {d \in Dispatches : dispatch[d].key = k /\ Running(d)}

\* A dispatch or its queued follow-up has its abort controller in use.
Registered(d) ==
    \/ dispatch[d].followup = "queued"
    \/ Running(d) /\ dispatch[d].followup = "none"

Counted == \A k \in FenceKeys : byKey[k].active = Cardinality(RunningUnder(k))

\* A fence that is present is in use, and holds controllers of its own dispatches only.
InUse ==
    \A k \in FenceKeys :
        /\ Present(k) => byKey[k].active # 0 \/ byKey[k].controllers # {}
        /\ \A d \in byKey[k].controllers : Registered(d) /\ dispatch[d].key = k

\* A controller that is in use is in the fence until it is aborted.
Signalled ==
    \A d \in Dispatches :
        /\ d \in aborted => dispatch[d].stage # "idle"
        /\ Registered(d) => (d \in aborted <=> d \notin byKey[dispatch[d].key].controllers)

\* Generations of a fence in use only grow, and leave a dispatch behind together with its
\* controller.
Generations ==
    \A d \in Dispatches : Running(d) =>
        /\ dispatch[d].generation <= byKey[dispatch[d].key].generation
        /\ Registered(d) => (IsSuperseded(d) <=> d \notin byKey[dispatch[d].key].controllers)

Indices == \A d \in Dispatches : Running(d) => dispatch[d].key \in byLane[dispatch[d].lane]

FenceInv == TypeOK /\ Counted /\ InUse /\ Signalled /\ Generations /\ Indices

-----------------------------------------------------------------------------
(* The operations on fences *)

LEMMA FenceFacts ==
    /\ NoFence \in Fence
    /\ \A f \in Fence : UnlessUnused(f) \in Fence /\ Bumped(f) \in Fence
<1>1. NoFence \in Fence
    BY DEF NoFence, Fence
<1>2. ASSUME NEW f \in Fence PROVE Bumped(f) \in Fence
    <2>1. f.generation + 1 \in Nat /\ {} \in SUBSET Dispatches
        BY DEF Fence
    <2> QED BY <2>1 DEF Bumped, Fence
<1> QED BY <1>1, <1>2 DEF UnlessUnused

\* What a superseded fence is: its controllers are forgotten and it is kept, with a new
\* generation, by the dispatches that run.
LEMMA SupersededFence ==
    ASSUME NEW fences \in [FenceKeys -> Fence], NEW keys, NEW k \in FenceKeys
    PROVE  /\ Superseded(fences, keys) \in [FenceKeys -> Fence]
           /\ k \notin keys => Superseded(fences, keys)[k] = fences[k]
           /\ k \in keys =>
                 /\ Superseded(fences, keys)[k].active = fences[k].active
                 /\ Superseded(fences, keys)[k].controllers = {}
                 /\ fences[k].active # 0 =>
                       Superseded(fences, keys)[k].generation = fences[k].generation + 1
                 /\ Superseded(fences, keys)[k] # NoFence => fences[k].active # 0
<1>1. Superseded(fences, keys) \in [FenceKeys -> Fence]
    BY FenceFacts DEF Superseded
<1>2. k \notin keys => Superseded(fences, keys)[k] = fences[k]
    BY DEF Superseded
<1>3. CASE k \in keys /\ fences[k] = NoFence
    BY <1>1, <1>2, <1>3 DEF Superseded, NoFence
<1>4. CASE k \in keys /\ fences[k] # NoFence
    <2> DEFINE f == fences[k]
    <2>1. Superseded(fences, keys)[k] = UnlessUnused(Bumped(f))
        BY <1>4 DEF Superseded
    <2>2. f \in Fence
        OBVIOUS
    <2> HIDE DEF f
    <2>3. /\ UnlessUnused(Bumped(f)).active = f.active
          /\ UnlessUnused(Bumped(f)).controllers = {}
          /\ f.active # 0 => UnlessUnused(Bumped(f)).generation = f.generation + 1
          /\ UnlessUnused(Bumped(f)) # NoFence => f.active # 0
        BY <2>2 DEF UnlessUnused, Bumped, NoFence, Fence
    <2> QED BY <1>1, <1>4, <2>1, <2>3 DEF f
<1> QED BY <1>1, <1>2, <1>3, <1>4

\* The dispatches whose controllers a supersession aborts are those of its fences.
LEMMA AbortsItsFences ==
    ASSUME InUse, Signalled, NEW keys \in SUBSET FenceKeys, NEW e \in Dispatches, Registered(e),
           dispatch[e].key \in FenceKeys
    PROVE  e \in aborted \cup Controllers(keys) <=> e \in aborted \/ dispatch[e].key \in keys
BY DEF InUse, Signalled, Controllers

\* Idle dispatches have no part in a fence.
LEMMA IdleIsUnknown ==
    ASSUME TypeOK, InUse, Signalled, NEW d \in Dispatches, dispatch[d].stage = "idle",
           NEW keys \in SUBSET FenceKeys
    PROVE  d \notin aborted \cup Controllers(keys)
BY DEF TypeOK, InUse, Signalled, Controllers, Registered, Running

LEMMA RunningIsFinite ==
    ASSUME NEW k PROVE IsFiniteSet(RunningUnder(k)) /\ Cardinality(RunningUnder(k)) \in Nat
<1>1. IsFiniteSet(RunningUnder(k))
    BY FenceAssumption, FS_Subset DEF RunningUnder
<1> QED BY <1>1, FS_CardinalityType

\* The fence of a running dispatch is in use.
LEMMA RunningKeepsFence ==
    ASSUME TypeOK, Counted, NEW d \in Dispatches, Running(d)
    PROVE  /\ dispatch[d].key \in FenceKeys
           /\ byKey[dispatch[d].key].active # 0
           /\ Present(dispatch[d].key)
<1>1. dispatch[d].key \in FenceKeys
    BY DEF TypeOK, Running
<1>2. RunningUnder(dispatch[d].key) # {}
    BY DEF RunningUnder
<1>3. Cardinality(RunningUnder(dispatch[d].key)) # 0
    BY <1>2, RunningIsFinite, FS_EmptySet
<1> QED BY <1>1, <1>3 DEF Counted, Present, NoFence

LEMMA RunningKeepsFenceAfter ==
    ASSUME TypeOK', Counted', NEW e \in Dispatches, Running(e)', NEW k, k = dispatch'[e].key
    PROVE  k \in FenceKeys /\ byKey'[k].active # 0 /\ byKey'[k] # NoFence
<1>1. k \in FenceKeys
    BY DEF TypeOK, Running
<1>2. e \in RunningUnder(k)' /\ IsFiniteSet(RunningUnder(k)')
    BY FenceAssumption, FS_Subset DEF RunningUnder
<1>3. Cardinality(RunningUnder(k)') # 0
    BY <1>2, FS_EmptySet
<1> QED BY <1>1, <1>3 DEF Counted, NoFence

LEMMA InterruptsFenceKeys ==
    ASSUME NEW key \in FenceKeys
    PROVE  /\ Interrupts(key) \in SUBSET FenceKeys
           /\ IsRoot(key) => key \in Interrupts(key)
           /\ ~IsRoot(key) => Interrupts(key) = {}
<1>1. RootKey(key.chat, TRUE) \in FenceKeys
    BY DEF RootKey, FenceKeys
<1>2. \A k \in FenceKeys : Family(k) \in SUBSET FenceKeys /\ k \in Family(k)
    BY DEF Family
<1> QED BY <1>1, <1>2 DEF Interrupts

-----------------------------------------------------------------------------
(* What the steps do to the fences *)

LEMMA StartEffect ==
    ASSUME TypeOK, NEW d \in Dispatches, NEW key \in FenceKeys, NEW lane \in FenceLanes,
           Start(d, key, lane)
    PROVE  /\ byKey' \in [FenceKeys -> Fence]
           /\ byKey'[key].active = byKey[key].active + 1
           /\ d \in byKey'[key].controllers
           /\ IF key \in Interrupts(key)
              THEN /\ byKey'[key].generation = byKey[key].generation + 1
                   /\ byKey'[key].controllers = {d}
              ELSE /\ byKey'[key].generation = byKey[key].generation
                   /\ byKey'[key].controllers = byKey[key].controllers \cup {d}
           /\ \A k \in FenceKeys \ {key} :
                 IF k \in Interrupts(key)
                 THEN /\ byKey'[k].active = byKey[k].active
                      /\ byKey'[k].controllers = {}
                      /\ byKey[k].active # 0 =>
                            byKey'[k].generation = byKey[k].generation + 1
                      /\ byKey'[k] # NoFence => byKey[k].active # 0
                 ELSE byKey'[k] = byKey[k]
<1> DEFINE superseded == Superseded(byKey, Interrupts(key) \ {key})
           own == IF key \in Interrupts(key) THEN Bumped(byKey[key]) ELSE byKey[key]
<1>1. superseded \in [FenceKeys -> Fence]
    BY SupersededFence DEF TypeOK
<1>2. /\ own \in Fence /\ own.active = byKey[key].active
      /\ IF key \in Interrupts(key)
         THEN own.generation = byKey[key].generation + 1 /\ own.controllers = {}
         ELSE own.generation = byKey[key].generation /\ own.controllers = byKey[key].controllers
    BY FenceFacts DEF TypeOK, Bumped, Fence
<1>3. byKey' = [superseded EXCEPT ![key] = Begun(own, d, lane)]
    BY DEF Start
<1>4. \A k \in FenceKeys \ {key} :
         IF k \in Interrupts(key)
         THEN /\ superseded[k].active = byKey[k].active
              /\ superseded[k].controllers = {}
              /\ byKey[k].active # 0 => superseded[k].generation = byKey[k].generation + 1
              /\ superseded[k] # NoFence => byKey[k].active # 0
         ELSE superseded[k] = byKey[k]
    BY SupersededFence DEF TypeOK
<1> HIDE DEF superseded, own
<1>5. /\ Begun(own, d, lane) \in Fence
      /\ Begun(own, d, lane).active = own.active + 1
      /\ Begun(own, d, lane).generation = own.generation
      /\ Begun(own, d, lane).controllers = own.controllers \cup {d}
    <2>1. /\ own.generation \in Nat /\ own.active + 1 \in Nat
          /\ own.controllers \cup {d} \in SUBSET Dispatches
          /\ own.lanes \cup {lane} \in SUBSET FenceLanes
        BY <1>2 DEF Fence
    <2> QED BY <1>2, <2>1 DEF Begun, Fence
<1>6. byKey'[key] = Begun(own, d, lane)
    BY <1>1, <1>3
<1>7. \A k \in FenceKeys \ {key} : byKey'[k] = superseded[k]
    BY <1>1, <1>3
<1>8. byKey' \in [FenceKeys -> Fence]
    BY <1>1, <1>3, <1>5
<1> QED BY <1>2, <1>4, <1>5, <1>6, <1>7, <1>8

\* A fence after one of its users gave up: what stays, stays as it was.
LEMMA KeptFence ==
    ASSUME NEW f \in Fence, f.active # 0 \/ f.controllers # {} \/ f = NoFence
    PROVE  UnlessUnused(f) = f
BY DEF UnlessUnused, Fence, NoFence

LEMMA DroppedFence ==
    ASSUME NEW f \in Fence
    PROVE  /\ UnlessUnused(f) \in Fence
           /\ UnlessUnused(f).active = f.active
           /\ UnlessUnused(f).controllers = f.controllers
           /\ f.active # 0 => UnlessUnused(f).generation = f.generation
           /\ UnlessUnused(f) # NoFence => f.active # 0 \/ f.controllers # {}
BY DEF UnlessUnused, Fence, NoFence

LEMMA EndEffect ==
    ASSUME TypeOK, Counted, NEW d \in Dispatches, End(d)
    PROVE  LET key == dispatch[d].key IN
           /\ key \in FenceKeys
           /\ byKey' \in [FenceKeys -> Fence]
           /\ byKey'[key].active = byKey[key].active - 1
           /\ byKey'[key].controllers = byKey[key].controllers \ TakesController(d)
           /\ byKey'[key].active # 0 => byKey'[key].generation = byKey[key].generation
           /\ byKey'[key] # NoFence => byKey'[key].active # 0 \/ byKey'[key].controllers # {}
           /\ \A k \in FenceKeys \ {key} : byKey'[k] = byKey[k]
<1> DEFINE key == dispatch[d].key
           kept == [byKey[key] EXCEPT !.active = @ - 1, !.controllers = @ \ TakesController(d)]
<1>1. key \in FenceKeys /\ byKey[key].active \in Nat \ {0}
    BY RunningKeepsFence DEF End, Running, TypeOK, Fence
<1>2. /\ kept \in Fence
      /\ kept.active = byKey[key].active - 1
      /\ kept.generation = byKey[key].generation
      /\ kept.controllers = byKey[key].controllers \ TakesController(d)
    <2>1. byKey[key] \in Fence
        BY <1>1 DEF TypeOK
    <2>2. /\ byKey[key].active - 1 \in Nat
          /\ byKey[key].controllers \ TakesController(d) \in SUBSET Dispatches
        BY <1>1, <2>1 DEF Fence
    <2> QED BY <2>1, <2>2 DEF Fence
<1>3. byKey' = [byKey EXCEPT ![key] = UnlessUnused(kept)]
    BY DEF End
<1> HIDE DEF kept, key
<1>4. byKey' \in [FenceKeys -> Fence] /\ byKey'[key] = UnlessUnused(kept)
    BY <1>1, <1>2, <1>3, DroppedFence DEF TypeOK
<1>5. \A k \in FenceKeys \ {key} : byKey'[k] = byKey[k]
    BY <1>3 DEF TypeOK
<1> QED BY <1>1, <1>2, <1>4, <1>5, DroppedFence DEF key

LEMMA CompleteEffect ==
    ASSUME TypeOK, InUse, NEW d \in Dispatches, CompleteFollowup(d)
    PROVE  LET key == dispatch[d].key IN
           /\ key \in FenceKeys
           /\ byKey' \in [FenceKeys -> Fence]
           /\ byKey'[key].active = byKey[key].active
           /\ byKey'[key].controllers = byKey[key].controllers \ {d}
           /\ byKey'[key].active # 0 => byKey'[key].generation = byKey[key].generation
           /\ byKey'[key] # NoFence => byKey'[key].active # 0 \/ byKey'[key].controllers # {}
           /\ \A k \in FenceKeys \ {key} : byKey'[k] = byKey[k]
<1> DEFINE key == dispatch[d].key
           kept == [byKey[key] EXCEPT !.controllers = @ \ {d}]
<1>1. key \in FenceKeys
    BY DEF CompleteFollowup, TypeOK
<1>2. /\ kept \in Fence
      /\ kept.active = byKey[key].active
      /\ kept.generation = byKey[key].generation
      /\ kept.controllers = byKey[key].controllers \ {d}
    BY <1>1 DEF TypeOK, Fence
<1>3. byKey' = [byKey EXCEPT ![key] = IF Present(key) THEN UnlessUnused(kept) ELSE @]
    BY DEF CompleteFollowup
<1>4. ~Present(key) => byKey[key].active = 0 /\ byKey[key].controllers = {}
    BY DEF Present, NoFence
<1> HIDE DEF kept, key
<1>5. byKey' \in [FenceKeys -> Fence]
    BY <1>1, <1>2, <1>3, DroppedFence DEF TypeOK
<1>6. byKey'[key] = IF Present(key) THEN UnlessUnused(kept) ELSE byKey[key]
    BY <1>1, <1>3 DEF TypeOK
<1>7. \A k \in FenceKeys \ {key} : byKey'[k] = byKey[k]
    BY <1>3 DEF TypeOK
<1> QED BY <1>1, <1>2, <1>4, <1>5, <1>6, <1>7, DroppedFence DEF key, Present

LEMMA TimeOutEffect ==
    ASSUME TypeOK, NEW l \in FenceLanes, TimeOutLane(l)
    PROVE  \E keys \in SUBSET FenceKeys :
           /\ aborted' = aborted \cup Controllers(keys)
           /\ byKey' \in [FenceKeys -> Fence]
           /\ \A k \in FenceKeys :
                 IF k \in keys
                 THEN /\ byKey'[k].active = byKey[k].active
                      /\ byKey'[k].controllers = {}
                      /\ byKey[k].active # 0 =>
                            byKey'[k].generation = byKey[k].generation + 1
                      /\ byKey'[k] # NoFence => byKey[k].active # 0
                 ELSE byKey'[k] = byKey[k]
<1> DEFINE keys == UNION {Family(k) : k \in byLane[l]}
<1>1. keys \in SUBSET FenceKeys
    BY DEF TypeOK, Family
<1>2. byKey' = Superseded(byKey, keys) /\ aborted' = aborted \cup Controllers(keys)
    BY DEF TimeOutLane
<1> HIDE DEF keys
<1>3. byKey' \in [FenceKeys -> Fence]
    BY <1>2, FenceFacts DEF TypeOK, Superseded
<1>4. ASSUME NEW k \in FenceKeys
      PROVE  IF k \in keys
             THEN /\ byKey'[k].active = byKey[k].active
                  /\ byKey'[k].controllers = {}
                  /\ byKey[k].active # 0 => byKey'[k].generation = byKey[k].generation + 1
                  /\ byKey'[k] # NoFence => byKey[k].active # 0
             ELSE byKey'[k] = byKey[k]
    <2>1. byKey \in [FenceKeys -> Fence]
        BY DEF TypeOK
    <2>2. /\ k \notin keys => Superseded(byKey, keys)[k] = byKey[k]
          /\ k \in keys =>
                /\ Superseded(byKey, keys)[k].active = byKey[k].active
                /\ Superseded(byKey, keys)[k].controllers = {}
                /\ byKey[k].active # 0 =>
                      Superseded(byKey, keys)[k].generation = byKey[k].generation + 1
                /\ Superseded(byKey, keys)[k] # NoFence => byKey[k].active # 0
        BY <2>1, SupersededFence
    <2> QED BY <1>2, <2>2
<1> QED BY <1>1, <1>2, <1>3, <1>4

-----------------------------------------------------------------------------
(* Preservation: types and indices *)

LEMMA InitFence == Init => FenceInv
<1> SUFFICES ASSUME Init PROVE FenceInv
    OBVIOUS
<1>1. \A d \in Dispatches : dispatch[d].stage = "idle" /\ dispatch[d].followup = "none"
    BY DEF Init, Idle
<1>2. TypeOK
    <2>1. byKey \in [FenceKeys -> Fence]
        BY FenceFacts DEF Init
    <2>2. dispatch \in [Dispatches ->
              [stage : {"idle", "running", "ended"}, key : FenceKeys \cup {Idle.key},
               lane : FenceLanes \cup {NoLane}, generation : Nat,
               followup : {"none", "queued", "complete"}]]
        BY DEF Init, Idle
    <2>3. byLane \in [FenceLanes -> SUBSET FenceKeys] /\ aborted \subseteq Dispatches
        BY DEF Init
    <2> QED BY <1>1, <2>1, <2>2, <2>3, FenceAssumption DEF TypeOK, Init
<1>3. \A d \in Dispatches : ~Running(d) /\ ~Registered(d)
    BY <1>1 DEF Running, Registered
<1>4. \A k \in FenceKeys : byKey[k] = NoFence
    BY DEF Init
<1>5. Counted
    <2>1. \A k \in FenceKeys : RunningUnder(k) = {}
        BY <1>3 DEF RunningUnder
    <2> QED BY <1>4, <2>1, FS_EmptySet DEF Counted, NoFence
<1>6. InUse /\ Signalled
    BY <1>3, <1>4 DEF InUse, Signalled, Present, NoFence, Init
<1> QED BY <1>2, <1>3, <1>5, <1>6 DEF FenceInv, Generations, Indices

LEMMA StartTypes ==
    ASSUME TypeOK, NEW d \in Dispatches, NEW key \in FenceKeys, NEW lane \in FenceLanes,
           Start(d, key, lane)
    PROVE  TypeOK'
<1>1. byKey' \in [FenceKeys -> Fence]
    BY StartEffect
<1>2. byLane' \in [FenceLanes -> SUBSET FenceKeys]
    BY DEF Start, Indexed, TypeOK
<1>3. aborted' \subseteq Dispatches
    BY InterruptsFenceKeys DEF Start, Controllers, TypeOK, Fence
<1>4. byKey'[key].generation \in Nat
    BY <1>1 DEF Fence
<1> QED BY <1>1, <1>2, <1>3, <1>4 DEF Start, TypeOK

LEMMA TypeStep == FenceInv /\ [Next]_vars => TypeOK'
<1> SUFFICES ASSUME FenceInv, [Next]_vars PROVE TypeOK'
    OBVIOUS
<1> USE DEF FenceInv
<1>1. CASE \E d \in Dispatches, key \in FenceKeys, lane \in FenceLanes : Start(d, key, lane)
    BY <1>1, StartTypes
<1>2. CASE \E d \in Dispatches : QueueFollowup(d)
    BY <1>2 DEF QueueFollowup, TypeOK
<1>3. CASE \E d \in Dispatches : End(d)
    <2>1. byKey' \in [FenceKeys -> Fence]
        BY <1>3, EndEffect
    <2> QED BY <1>3, <2>1 DEF End, TypeOK, Indexed
<1>4. CASE \E d \in Dispatches : CompleteFollowup(d)
    <2>1. byKey' \in [FenceKeys -> Fence]
        BY <1>4, CompleteEffect
    <2> QED BY <1>4, <2>1 DEF CompleteFollowup, TypeOK, Indexed
<1>5. CASE \E l \in FenceLanes : TimeOutLane(l)
    <2>1. byKey' \in [FenceKeys -> Fence]
        BY <1>5, TimeOutEffect
    <2>2. aborted' \subseteq Dispatches
        BY <1>5, TimeOutEffect DEF Controllers, TypeOK, Fence
    <2>3. timeouts' \in Nat
        BY <1>5 DEF TimeOutLane, TypeOK
    <2> QED BY <1>5, <2>1, <2>2, <2>3 DEF TimeOutLane, TypeOK, Indexed
<1>6. CASE UNCHANGED vars
    BY <1>6 DEF vars, TypeOK
<1> QED BY <1>1, <1>2, <1>3, <1>4, <1>5, <1>6 DEF Next

-----------------------------------------------------------------------------
(* Preservation: starts *)

\* A step of one dispatch leaves the others as they are.
LEMMA OthersUntouched ==
    ASSUME TypeOK, NEW d \in Dispatches, NEW x, dispatch' = [dispatch EXCEPT ![d] = x]
    PROVE  /\ dispatch'[d] = x
           /\ \A e \in Dispatches \ {d} : dispatch'[e] = dispatch[e]
BY DEF TypeOK

LEMMA StartCounts ==
    ASSUME TypeOK, Counted, NEW d \in Dispatches, NEW key \in FenceKeys, NEW lane \in FenceLanes,
           Start(d, key, lane)
    PROVE  Counted'
<1>1. dispatch'[d].key = key /\ dispatch'[d].stage = "running" /\ dispatch[d].stage = "idle"
    BY DEF Start, TypeOK
<1>2. \A e \in Dispatches \ {d} : dispatch'[e] = dispatch[e]
    BY OthersUntouched DEF Start
<1>3. RunningUnder(key)' = RunningUnder(key) \cup {d} /\ d \notin RunningUnder(key)
    BY <1>1, <1>2 DEF RunningUnder, Running
<1>4. \A k \in FenceKeys \ {key} : RunningUnder(k)' = RunningUnder(k)
    BY <1>1, <1>2 DEF RunningUnder, Running
<1>5. Cardinality(RunningUnder(key)') = Cardinality(RunningUnder(key)) + 1
    BY <1>3, RunningIsFinite, FS_AddElement
<1>6. \A k \in FenceKeys \ {key} : byKey'[k].active = byKey[k].active
    BY StartEffect
<1>7. byKey'[key].active = byKey[key].active + 1
    BY StartEffect
<1> QED BY <1>4, <1>5, <1>6, <1>7 DEF Counted

LEMMA StartSignals ==
    ASSUME FenceInv, NEW d \in Dispatches, NEW key \in FenceKeys, NEW lane \in FenceLanes,
           Start(d, key, lane)
    PROVE  (InUse /\ Signalled /\ Generations)'
<1> USE DEF FenceInv
<1> DEFINE keys == Interrupts(key)
<1>1. /\ dispatch'[d].key = key /\ dispatch'[d].stage = "running"
      /\ dispatch'[d].followup = "none"
      /\ dispatch'[d].generation = byKey'[key].generation
      /\ dispatch[d].stage = "idle"
      /\ aborted' = aborted \cup Controllers(keys)
    BY DEF Start, TypeOK
<1>2. \A e \in Dispatches \ {d} : dispatch'[e] = dispatch[e]
    BY OthersUntouched DEF Start
<1>3. \A e \in Dispatches \ {d} : (Registered(e)' <=> Registered(e)) /\ (Running(e)' <=> Running(e))
    BY <1>2 DEF Registered, Running
<1>4. keys \in SUBSET FenceKeys /\ (IsRoot(key) => key \in keys) /\ (~IsRoot(key) => keys = {})
    BY InterruptsFenceKeys
<1> HIDE DEF keys
<1>5. /\ byKey' \in [FenceKeys -> Fence] /\ d \in byKey'[key].controllers
      /\ byKey'[key].active = byKey[key].active + 1
      /\ key \in keys => /\ byKey'[key].generation = byKey[key].generation + 1
                         /\ byKey'[key].controllers = {d}
      /\ key \notin keys => /\ byKey'[key].generation = byKey[key].generation
                            /\ byKey'[key].controllers = byKey[key].controllers \cup {d}
    BY StartEffect DEF keys
<1>6. \A k \in FenceKeys \ {key} :
          /\ k \in keys => /\ byKey'[k].active = byKey[k].active
                           /\ byKey'[k].controllers = {}
                           /\ byKey[k].active # 0 =>
                                 byKey'[k].generation = byKey[k].generation + 1
                           /\ byKey'[k] # NoFence => byKey[k].active # 0
          /\ k \notin keys => byKey'[k] = byKey[k]
    BY StartEffect DEF keys
<1>7. Registered(d)' /\ Running(d)'
    BY <1>1 DEF Registered, Running
<1>8. InUse'
    <2> SUFFICES ASSUME NEW k \in FenceKeys
                 PROVE  /\ byKey'[k] # NoFence =>
                              byKey'[k].active # 0 \/ byKey'[k].controllers # {}
                        /\ \A e \in byKey'[k].controllers : Registered(e)' /\ dispatch'[e].key = k
        BY DEF InUse, Present
    <2>1. d \notin byKey[k].controllers
        BY <1>1 DEF InUse, Registered, Running, TypeOK
    <2>2. byKey[k].controllers \subseteq Dispatches
        BY DEF TypeOK, Fence
    <2>3. CASE k = key
        BY <1>1, <1>2, <1>3, <1>5, <1>7, <2>1, <2>2, <2>3 DEF InUse
    <2>4. CASE k # key
        BY <1>2, <1>3, <1>6, <2>1, <2>2, <2>4 DEF InUse, Present
    <2> QED BY <2>3, <2>4
<1>9. Signalled'
    <2>1. d \notin aborted'
        BY <1>1, <1>4, IdleIsUnknown
    <2> SUFFICES ASSUME NEW e \in Dispatches, e # d
                 PROVE  /\ e \in aborted' => dispatch[e].stage # "idle"
                        /\ Registered(e) =>
                              (e \in aborted' <=> e \notin byKey'[dispatch[e].key].controllers)
        BY <1>1, <1>2, <1>3, <1>5, <1>7, <2>1 DEF Signalled
    <2>2. e \in aborted' => dispatch[e].stage # "idle"
        BY <1>1, <1>4, IdleIsUnknown
    <2>3. CASE Registered(e)
        <3>1. dispatch[e].key \in FenceKeys
            BY <2>3 DEF Registered, Running, TypeOK
        <3>2. e \in aborted' <=> e \in aborted \/ dispatch[e].key \in keys
            BY <1>1, <1>4, <2>3, <3>1, AbortsItsFences
        <3> QED BY <1>5, <1>6, <2>2, <2>3, <3>1, <3>2 DEF Signalled
    <2> QED BY <2>2, <2>3
<1>10. Generations'
    <2> SUFFICES ASSUME NEW e \in Dispatches, e # d, Running(e)
                 PROVE  LET k == dispatch[e].key IN
                        /\ dispatch[e].generation <= byKey'[k].generation
                        /\ Registered(e) => (byKey'[k].generation # dispatch[e].generation
                                                <=> e \notin byKey'[k].controllers)
        BY <1>1, <1>2, <1>3, <1>5, <1>7 DEF Generations, IsSuperseded, TypeOK, Fence
    <2>1. /\ dispatch[e].key \in FenceKeys /\ byKey[dispatch[e].key].active # 0
          /\ dispatch[e].generation \in Nat /\ byKey[dispatch[e].key].generation \in Nat
        BY RunningKeepsFence DEF TypeOK, Fence
    <2>2. CASE dispatch[e].key = key
        BY <1>5, <2>1, <2>2 DEF Generations, IsSuperseded
    <2>3. CASE dispatch[e].key # key
        BY <1>6, <2>1, <2>3 DEF Generations, IsSuperseded
    <2> QED BY <2>2, <2>3
<1> QED BY <1>8, <1>9, <1>10

\* Counted keeps the fence of a running dispatch, which so stays in the index of its lane.
LEMMA IndicesStep ==
    ASSUME FenceInv, [Next]_vars, Counted', TypeOK'
    PROVE  Indices'
<1> SUFFICES ASSUME NEW e \in Dispatches, Running(e)'
             PROVE  dispatch'[e].key \in byLane'[dispatch'[e].lane]
    BY DEF Indices
<1> USE DEF FenceInv
<1>1. dispatch'[e].key \in FenceKeys /\ byKey'[dispatch'[e].key] # NoFence
    BY RunningKeepsFenceAfter
<1>2. ASSUME byLane' = Indexed(byLane, byKey'), dispatch'[e].key = dispatch[e].key,
             dispatch'[e].lane = dispatch[e].lane, Running(e)
      PROVE  dispatch'[e].key \in byLane'[dispatch'[e].lane]
    BY <1>1, <1>2 DEF Indexed, Indices, TypeOK, Running
<1>3. CASE \E d \in Dispatches, key \in FenceKeys, lane \in FenceLanes : Start(d, key, lane)
    <2> PICK d \in Dispatches, key \in FenceKeys, lane \in FenceLanes : Start(d, key, lane)
        BY <1>3
    <2>1. byLane' = [Indexed(byLane, byKey') EXCEPT ![lane] = @ \cup {key}]
        BY DEF Start
    <2>2. CASE e = d
        BY <2>1, <2>2 DEF Start, TypeOK, Indexed
    <2>3. CASE e # d
        <3>1. dispatch'[e] = dispatch[e] /\ Running(e)
            BY <2>3 DEF Start, TypeOK, Running
        <3>2. dispatch[e].key \in Indexed(byLane, byKey')[dispatch[e].lane]
            BY <1>1, <3>1 DEF Indexed, Indices, TypeOK, Running
        <3> QED BY <2>1, <3>1, <3>2 DEF Indexed
    <2> QED BY <2>2, <2>3
<1>4. CASE \E d \in Dispatches : QueueFollowup(d)
    BY <1>4 DEF QueueFollowup, TypeOK, Indices, Running
<1>5. CASE \E d \in Dispatches : End(d)
    BY <1>2, <1>5 DEF End, TypeOK, Running
<1>6. CASE \E d \in Dispatches : CompleteFollowup(d)
    BY <1>2, <1>6 DEF CompleteFollowup, TypeOK, Running
<1>7. CASE \E l \in FenceLanes : TimeOutLane(l)
    BY <1>2, <1>7 DEF TimeOutLane, Running
<1>8. CASE UNCHANGED vars
    BY <1>8 DEF vars, Indices, Running
<1> QED BY <1>3, <1>4, <1>5, <1>6, <1>7, <1>8 DEF Next

-----------------------------------------------------------------------------
(* Preservation: ends, follow-ups and timeouts *)

LEMMA QueueKeeps ==
    ASSUME FenceInv, NEW d \in Dispatches, QueueFollowup(d)
    PROVE  (Counted /\ InUse /\ Signalled /\ Generations)'
<1> USE DEF FenceInv
<1>1. /\ byKey' = byKey /\ aborted' = aborted
      /\ \A e \in Dispatches : /\ dispatch'[e].key = dispatch[e].key
                               /\ dispatch'[e].stage = dispatch[e].stage
                               /\ dispatch'[e].generation = dispatch[e].generation
    BY DEF QueueFollowup, TypeOK
<1>2. \A e \in Dispatches : Registered(e)' <=> Registered(e)
    BY DEF QueueFollowup, TypeOK, Registered, Running
<1>3. \A e \in Dispatches : Running(e)' <=> Running(e)
    BY <1>1 DEF Running
<1>4. \A k \in FenceKeys : RunningUnder(k)' = RunningUnder(k)
    BY <1>1, <1>3 DEF RunningUnder
<1>5. Counted'
    BY <1>1, <1>4 DEF Counted
<1>6. InUse'
    BY <1>1, <1>2 DEF InUse, Present, TypeOK, Fence
<1>7. Signalled' /\ Generations'
    BY <1>1, <1>2, <1>3 DEF Signalled, Generations, IsSuperseded
<1> QED BY <1>5, <1>6, <1>7

LEMMA EndKeeps ==
    ASSUME FenceInv, NEW d \in Dispatches, End(d)
    PROVE  (Counted /\ InUse /\ Signalled /\ Generations)'
<1> USE DEF FenceInv
<1> PICK key \in FenceKeys : key = dispatch[d].key
    BY EndEffect
<1>1. /\ dispatch'[d].stage = "ended" /\ dispatch'[d].key = key
      /\ dispatch'[d].followup = dispatch[d].followup
      /\ dispatch[d].stage = "running" /\ aborted' = aborted
    BY DEF End, TypeOK
<1>2. \A e \in Dispatches \ {d} : dispatch'[e] = dispatch[e]
    BY DEF End, TypeOK
<1>3. /\ byKey'[key].active = byKey[key].active - 1
      /\ byKey'[key].controllers = byKey[key].controllers \ TakesController(d)
      /\ byKey'[key].active # 0 => byKey'[key].generation = byKey[key].generation
      /\ byKey'[key] # NoFence => byKey'[key].active # 0 \/ byKey'[key].controllers # {}
      /\ \A k \in FenceKeys \ {key} : byKey'[k] = byKey[k]
    BY EndEffect
<1>4. \A e \in Dispatches \ {d} : (Registered(e)' <=> Registered(e)) /\ (Running(e)' <=> Running(e))
    BY <1>2 DEF Registered, Running
<1>5. ~Running(d)' /\ (Registered(d)' <=> dispatch[d].followup = "queued")
    BY <1>1 DEF Registered, Running
<1>6. Counted'
    <2>1. RunningUnder(key)' = RunningUnder(key) \ {d} /\ d \in RunningUnder(key)
        BY <1>1, <1>2 DEF RunningUnder, Running
    <2>2. \A k \in FenceKeys \ {key} : RunningUnder(k)' = RunningUnder(k)
        BY <1>1, <1>2 DEF RunningUnder, Running
    <2>3. Cardinality(RunningUnder(key)') = Cardinality(RunningUnder(key)) - 1
        BY <2>1, RunningIsFinite, FS_RemoveElement
    <2> QED BY <1>3, <2>2, <2>3 DEF Counted
<1>7. InUse'
    <2> SUFFICES ASSUME NEW k \in FenceKeys
                 PROVE  /\ byKey'[k] # NoFence =>
                              byKey'[k].active # 0 \/ byKey'[k].controllers # {}
                        /\ \A e \in byKey'[k].controllers : Registered(e)' /\ dispatch'[e].key = k
        BY DEF InUse, Present
    <2>1. byKey[k].controllers \subseteq Dispatches
        BY DEF TypeOK, Fence
    <2>2. CASE k = key
        <3>1. ASSUME NEW e \in byKey'[key].controllers
              PROVE  Registered(e)' /\ dispatch'[e].key = key
            <4>1. e \in byKey[key].controllers /\ e \notin TakesController(d) /\ e \in Dispatches
                BY <1>3, <2>1, <2>2, <3>1
            <4>2. CASE e = d
                BY <1>1, <1>5, <4>1, <4>2 DEF TakesController
            <4>3. CASE e # d
                BY <1>2, <1>4, <4>1, <4>3 DEF InUse
            <4> QED BY <4>2, <4>3
        <3> QED BY <1>3, <2>2, <3>1
    <2>3. CASE k # key
        BY <1>2, <1>3, <1>4, <2>1, <2>3 DEF InUse, Present
    <2> QED BY <2>2, <2>3
<1>8. Signalled'
    <2> SUFFICES ASSUME NEW e \in Dispatches
                 PROVE  /\ e \in aborted => dispatch'[e].stage # "idle"
                        /\ Registered(e)' =>
                              (e \in aborted <=> e \notin byKey'[dispatch'[e].key].controllers)
        BY <1>1 DEF Signalled
    <2>1. CASE e = d
        BY <1>1, <1>3, <1>5, <2>1 DEF Signalled, Registered, TakesController
    <2>2. CASE e # d
        <3>1. Registered(e) => dispatch[e].key \in FenceKeys
            BY DEF Registered, Running, TypeOK
        <3> QED BY <1>2, <1>3, <1>4, <2>2, <3>1 DEF Signalled, TakesController
    <2> QED BY <2>1, <2>2
<1>9. Generations'
    <2> SUFFICES ASSUME NEW e \in Dispatches, Running(e)', e # d
                 PROVE  LET k == dispatch[e].key IN
                        /\ dispatch[e].generation <= byKey'[k].generation
                        /\ Registered(e) => (byKey'[k].generation # dispatch[e].generation
                                                <=> e \notin byKey'[k].controllers)
        BY <1>2, <1>4, <1>5 DEF Generations, IsSuperseded
    <2>1. Running(e) /\ dispatch[e].key \in FenceKeys
        BY <1>4, RunningKeepsFence
    <2>2. byKey'[dispatch[e].key].active # 0
        BY <1>2, <1>6, TypeStep, RunningKeepsFenceAfter DEF Next
    <2>3. e \in byKey'[dispatch[e].key].controllers <=> e \in byKey[dispatch[e].key].controllers
        BY <1>3, <2>1 DEF TakesController
    <2> QED BY <1>3, <2>1, <2>2, <2>3 DEF Generations, IsSuperseded
<1> QED BY <1>6, <1>7, <1>8, <1>9

LEMMA CompleteKeeps ==
    ASSUME FenceInv, NEW d \in Dispatches, CompleteFollowup(d)
    PROVE  (Counted /\ InUse /\ Signalled /\ Generations)'
<1> USE DEF FenceInv
<1> DEFINE key == dispatch[d].key
<1>1. /\ dispatch'[d].followup = "complete" /\ dispatch'[d].key = key
      /\ dispatch'[d].stage = dispatch[d].stage /\ aborted' = aborted
      /\ dispatch'[d].generation = dispatch[d].generation
    BY DEF CompleteFollowup, TypeOK
<1>2. \A e \in Dispatches \ {d} : dispatch'[e] = dispatch[e]
    BY DEF CompleteFollowup, TypeOK
<1>3. /\ key \in FenceKeys
      /\ byKey'[key].active = byKey[key].active
      /\ byKey'[key].controllers = byKey[key].controllers \ {d}
      /\ byKey'[key].active # 0 => byKey'[key].generation = byKey[key].generation
      /\ byKey'[key] # NoFence => byKey'[key].active # 0 \/ byKey'[key].controllers # {}
      /\ \A k \in FenceKeys \ {key} : byKey'[k] = byKey[k]
    BY CompleteEffect
<1> HIDE DEF key
<1>4. \A e \in Dispatches : Running(e)' <=> Running(e)
    BY <1>1, <1>2 DEF Running
<1>5. ~Registered(d)' /\ \A e \in Dispatches \ {d} : Registered(e)' <=> Registered(e)
    BY <1>1, <1>2 DEF Registered, Running
<1>6. Counted'
    <2>1. \A k \in FenceKeys : RunningUnder(k)' = RunningUnder(k)
        BY <1>1, <1>2, <1>4 DEF RunningUnder, key
    <2> QED BY <1>3, <2>1 DEF Counted
<1>7. InUse'
    <2> SUFFICES ASSUME NEW k \in FenceKeys
                 PROVE  /\ byKey'[k] # NoFence =>
                              byKey'[k].active # 0 \/ byKey'[k].controllers # {}
                        /\ \A e \in byKey'[k].controllers : Registered(e)' /\ dispatch'[e].key = k
        BY DEF InUse, Present
    <2>1. byKey[k].controllers \subseteq Dispatches
        BY DEF TypeOK, Fence
    <2>2. CASE k = key
        BY <1>2, <1>3, <1>5, <2>1, <2>2 DEF InUse
    <2>3. CASE k # key
        BY <1>2, <1>3, <1>5, <2>1, <2>3 DEF InUse, Present, key
    <2> QED BY <2>2, <2>3
<1>8. Signalled'
    <2> SUFFICES ASSUME NEW e \in Dispatches
                 PROVE  /\ e \in aborted => dispatch'[e].stage # "idle"
                        /\ Registered(e)' =>
                              (e \in aborted <=> e \notin byKey'[dispatch'[e].key].controllers)
        BY <1>1 DEF Signalled
    <2>1. CASE e = d
        BY <1>1, <1>5, <2>1 DEF Signalled
    <2>2. CASE e # d
        <3>1. Registered(e) => dispatch[e].key \in FenceKeys
            BY DEF Registered, Running, TypeOK
        <3> QED BY <1>2, <1>3, <1>5, <2>2, <3>1 DEF Signalled
    <2> QED BY <2>1, <2>2
<1>9. Generations'
    <2> SUFFICES ASSUME NEW e \in Dispatches, Running(e)
                 PROVE  LET k == dispatch[e].key IN
                        /\ dispatch[e].generation <= byKey'[k].generation
                        /\ Registered(e)' => (byKey'[k].generation # dispatch[e].generation
                                                <=> e \notin byKey'[k].controllers)
        BY <1>1, <1>2, <1>4 DEF Generations, IsSuperseded, key
    <2>1. dispatch[e].key \in FenceKeys /\ byKey[dispatch[e].key].active # 0
        BY RunningKeepsFence
    <2>2. byKey'[dispatch[e].key].generation = byKey[dispatch[e].key].generation
        BY <1>3, <2>1
    <2> QED BY <1>3, <1>5, <2>1, <2>2 DEF Generations, IsSuperseded
<1> QED BY <1>6, <1>7, <1>8, <1>9

LEMMA TimeOutKeeps ==
    ASSUME FenceInv, NEW l \in FenceLanes, TimeOutLane(l)
    PROVE  (Counted /\ InUse /\ Signalled /\ Generations)'
<1> USE DEF FenceInv
<1>1. PICK keys \in SUBSET FenceKeys :
          /\ aborted' = aborted \cup Controllers(keys)
          /\ \A k \in FenceKeys :
                IF k \in keys
                THEN /\ byKey'[k].active = byKey[k].active
                     /\ byKey'[k].controllers = {}
                     /\ byKey[k].active # 0 =>
                           byKey'[k].generation = byKey[k].generation + 1
                     /\ byKey'[k] # NoFence => byKey[k].active # 0
                ELSE byKey'[k] = byKey[k]
    BY TimeOutEffect
<1>2. dispatch' = dispatch
    BY DEF TimeOutLane
<1>3. \A e \in Dispatches : (Registered(e)' <=> Registered(e)) /\ (Running(e)' <=> Running(e))
    BY <1>2 DEF Registered, Running
<1>4. Counted'
    <2>1. \A k \in FenceKeys : RunningUnder(k)' = RunningUnder(k)
        BY <1>2 DEF RunningUnder, Running
    <2> QED BY <1>1, <2>1 DEF Counted
<1>5. InUse'
    <2>1. \A k \in FenceKeys : byKey[k].controllers \subseteq Dispatches
        BY DEF TypeOK, Fence
    <2> QED BY <1>1, <1>2, <1>3, <2>1 DEF InUse, Present
<1>6. Signalled'
    <2> SUFFICES ASSUME NEW e \in Dispatches
                 PROVE  /\ e \in aborted' => dispatch[e].stage # "idle"
                        /\ Registered(e) =>
                              (e \in aborted' <=> e \notin byKey'[dispatch[e].key].controllers)
        BY <1>2, <1>3 DEF Signalled
    <2>1. e \in aborted' => dispatch[e].stage # "idle"
        BY <1>1, IdleIsUnknown
    <2>2. CASE Registered(e)
        <3>1. dispatch[e].key \in FenceKeys
            BY <2>2 DEF Registered, Running, TypeOK
        <3>2. e \in aborted' <=> e \in aborted \/ dispatch[e].key \in keys
            BY <1>1, <2>2, <3>1, AbortsItsFences
        <3> QED BY <1>1, <2>1, <2>2, <3>1, <3>2 DEF Signalled
    <2> QED BY <2>1, <2>2
<1>7. Generations'
    <2> SUFFICES ASSUME NEW e \in Dispatches, Running(e)
                 PROVE  LET k == dispatch[e].key IN
                        /\ dispatch[e].generation <= byKey'[k].generation
                        /\ Registered(e) => (byKey'[k].generation # dispatch[e].generation
                                                <=> e \notin byKey'[k].controllers)
        BY <1>2, <1>3 DEF Generations, IsSuperseded
    <2>1. /\ dispatch[e].key \in FenceKeys /\ byKey[dispatch[e].key].active # 0
          /\ dispatch[e].generation \in Nat /\ byKey[dispatch[e].key].generation \in Nat
        BY RunningKeepsFence DEF TypeOK, Fence
    <2> QED BY <1>1, <2>1 DEF Generations, IsSuperseded
<1> QED BY <1>4, <1>5, <1>6, <1>7

-----------------------------------------------------------------------------
(* The invariant *)

LEMMA FenceStep == FenceInv /\ [Next]_vars => FenceInv'
<1> SUFFICES ASSUME FenceInv, [Next]_vars PROVE FenceInv'
    OBVIOUS
<1>1. TypeOK'
    BY TypeStep
<1>2. (Counted /\ InUse /\ Signalled /\ Generations)'
    <2>1. CASE \E d \in Dispatches, key \in FenceKeys, lane \in FenceLanes : Start(d, key, lane)
        BY <2>1, StartCounts, StartSignals DEF FenceInv
    <2>2. CASE \E d \in Dispatches : QueueFollowup(d) \/ End(d) \/ CompleteFollowup(d)
        BY <2>2, QueueKeeps, EndKeeps, CompleteKeeps
    <2>3. CASE \E l \in FenceLanes : TimeOutLane(l)
        BY <2>3, TimeOutKeeps
    <2>4. CASE UNCHANGED vars
        BY <2>4 DEF vars, FenceInv, Counted, InUse, Signalled, Generations, RunningUnder,
                    Registered, Running, Present, IsSuperseded
    <2> QED BY <2>1, <2>2, <2>3, <2>4 DEF Next
<1> QED BY <1>1, <1>2, IndicesStep DEF FenceInv

LEMMA FenceInvariance == Spec => []FenceInv
BY InitFence, FenceStep, PTL DEF Spec

\* A fence counts its running dispatches exactly and lives just as long as it has one, or a
\* queued follow-up (beginTelegramReplyFence, endTelegramReplyFence).
THEOREM CountIsExact == Spec => []CountedExactly
<1>1. FenceInv => CountedExactly
    <2> SUFFICES ASSUME FenceInv, NEW k \in FenceKeys
                 PROVE  LET users == {d \in Dispatches : dispatch[d].key = k}
                        IN  /\ byKey[k].active = Cardinality({d \in users : Running(d)})
                            /\ Present(k) =>
                                  \E d \in users : Running(d) \/ dispatch[d].followup = "queued"
        BY DEF CountedExactly
    <2>1. {d \in {e \in Dispatches : dispatch[e].key = k} : Running(d)} = RunningUnder(k)
        BY DEF RunningUnder
    <2>2. byKey[k].active = Cardinality(RunningUnder(k))
        BY DEF FenceInv, Counted
    <2>3. byKey[k].active # 0 => RunningUnder(k) # {}
        BY <2>2, FS_EmptySet
    <2>4. byKey[k].controllers \subseteq Dispatches
        BY DEF FenceInv, TypeOK, Fence
    <2>5. Present(k) => \E d \in Dispatches :
              dispatch[d].key = k /\ (Running(d) \/ dispatch[d].followup = "queued")
        BY <2>3, <2>4 DEF FenceInv, InUse, RunningUnder, Registered
    <2> QED BY <2>1, <2>2, <2>5
<1> QED BY FenceInvariance, <1>1, PTL

\* The generation that a dispatch asks and its abort signal agree.
THEOREM SupersessionAborts == Spec => []SupersededMeansAborted
<1>1. FenceInv => SupersededMeansAborted
    BY DEF FenceInv, SupersededMeansAborted, Signalled, Generations, Registered, TypeOK
<1> QED BY FenceInvariance, <1>1, PTL

\* No reply work is out of reach of a handler timeout or of a newer turn.
THEOREM WorkIsReached == Spec => []LaneReachesWork
<1>1. FenceInv => LaneReachesWork
    BY DEF FenceInv, LaneReachesWork, Signalled, Indices, Registered
<1> QED BY FenceInvariance, <1>1, PTL
-----------------------------------------------------------------------------
(* What a step does to a running dispatch *)

\* As long as a dispatch runs, the generation of its fence only grows.
LEMMA GenerationsGrow ==
    ASSUME FenceInv, [Next]_vars, NEW d \in Dispatches, Running(d), Running(d)'
    PROVE  /\ dispatch'[d].key = dispatch[d].key
           /\ dispatch'[d].generation = dispatch[d].generation
           /\ byKey[dispatch[d].key].generation <= byKey'[dispatch[d].key].generation
<1> USE DEF FenceInv
<1>1. PICK k \in FenceKeys :
          /\ k = dispatch[d].key /\ byKey[k].active # 0
          /\ byKey[k].generation \in Nat /\ dispatch[d].generation \in Nat
    BY RunningKeepsFence DEF TypeOK, Fence
<1>2. CASE byKey' = byKey /\ dispatch'[d].key = k /\ dispatch'[d].generation = dispatch[d].generation
    BY <1>1, <1>2
<1>3. CASE \E e \in Dispatches, key \in FenceKeys, lane \in FenceLanes : Start(e, key, lane)
    <2> PICK e \in Dispatches, key \in FenceKeys, lane \in FenceLanes : Start(e, key, lane)
        BY <1>3
    <2>1. dispatch'[d] = dispatch[d]
        BY OthersUntouched DEF Start, Running
    <2>2. byKey[k].generation <= byKey'[k].generation
        BY <1>1, StartEffect
    <2> QED BY <1>1, <2>1, <2>2
<1>4. CASE \E e \in Dispatches : QueueFollowup(e)
    BY <1>1, <1>2, <1>4 DEF QueueFollowup, TypeOK
<1>5. CASE \E e \in Dispatches : End(e) \/ CompleteFollowup(e)
    <2> PICK e \in Dispatches : End(e) \/ CompleteFollowup(e)
        BY <1>5
    <2>1. dispatch'[d].key = k /\ dispatch'[d].generation = dispatch[d].generation
        BY <1>1 DEF End, CompleteFollowup, TypeOK
    <2>2. TypeOK' /\ Counted'
        BY FenceStep
    <2>3. byKey'[k].active # 0
        BY <2>1, <2>2, RunningKeepsFenceAfter
    <2>4. byKey'[k].generation = byKey[k].generation
        BY <2>3, EndEffect, CompleteEffect
    <2> QED BY <1>1, <2>1, <2>4
<1>6. CASE \E l \in FenceLanes : TimeOutLane(l)
    <2>1. dispatch' = dispatch
        BY <1>6 DEF TimeOutLane
    <2>2. byKey[k].generation <= byKey'[k].generation
        BY <1>1, <1>6, TimeOutEffect
    <2> QED BY <1>1, <2>1, <2>2
<1> QED BY <1>1, <1>2, <1>3, <1>4, <1>5, <1>6 DEF Next, vars

\* A superseded dispatch stays superseded, whatever is done with its fence.
THEOREM StaysSuperseded == Spec => SupersededForGood
<1>1. ASSUME FenceInv, [Next]_vars, NEW d \in Dispatches,
             Running(d), IsSuperseded(d), Running(d)'
      PROVE  IsSuperseded(d)'
    <2>1. dispatch[d].generation <= byKey[dispatch[d].key].generation
        BY <1>1 DEF FenceInv, Generations
    <2>2. /\ dispatch[d].key \in FenceKeys /\ dispatch[d].generation \in Nat
          /\ byKey[dispatch[d].key].generation \in Nat
        BY <1>1, RunningKeepsFence DEF FenceInv, TypeOK, Fence
    <2>3. byKey'[dispatch[d].key].generation \in Nat
        BY <1>1, <2>2, FenceStep DEF FenceInv, TypeOK, Fence
    <2> QED BY <1>1, <2>1, <2>2, <2>3, GenerationsGrow DEF IsSuperseded
<1>2. FenceInv /\ [Next]_vars =>
          [\A d \in Dispatches : Running(d) /\ IsSuperseded(d) /\ Running(d)' => IsSuperseded(d)']_vars
    BY <1>1
<1> QED BY FenceInvariance, <1>2, PTL DEF Spec, SupersededForGood

\* Whom a new turn interrupts.
LEMMA InterruptsItsSession ==
    ASSUME NEW key \in FenceKeys, IsRoot(key), NEW k \in FenceKeys,
           k = key \/ (~key.room /\ k.chat = key.chat)
    PROVE  k \in Interrupts(key)
<1> DEFINE room == RootKey(key.chat, TRUE)
<1>1. CASE k = key
    BY <1>1, InterruptsFenceKeys
<1>2. CASE ~key.room /\ k.chat = key.chat /\ ~k.room
    <2>1. k.lane = NoLane => k = key
        BY <1>2 DEF IsRoot, FenceKeys
    <2>2. k \in Family(key)
        BY <1>2, <2>1 DEF Family, IsRoot, FenceKeys
    <2> QED BY <2>2 DEF Interrupts
<1>3. CASE ~key.room /\ k.chat = key.chat /\ k.room
    <2>1. k \in Family(room)
        BY <1>3 DEF Family, IsRoot, RootKey, FenceKeys
    <2> QED BY <1>3, <2>1 DEF Interrupts
<1> QED BY <1>1, <1>2, <1>3 DEF FenceKeys

\* A new turn supersedes what runs under its fence, and in its session unless it is a room
\* event.
THEOREM NewTurnSupersedes == Spec => NewTurnInterrupts
<1>1. ASSUME FenceInv, [Next]_vars, NEW d \in Dispatches, NEW e \in Dispatches,
             ~Running(d), Running(d)', IsRoot(dispatch'[d].key), Running(e),
             \/ dispatch[e].key = dispatch'[d].key
             \/ ~dispatch'[d].key.room /\ dispatch[e].key.chat = dispatch'[d].key.chat
      PROVE  IsSuperseded(e)'
    <2>1. PICK key \in FenceKeys, lane \in FenceLanes : Start(d, key, lane)
        <3>1. CASE \E f \in Dispatches, key \in FenceKeys, lane \in FenceLanes : Start(f, key, lane)
            <4> PICK f \in Dispatches, key \in FenceKeys, lane \in FenceLanes : Start(f, key, lane)
                BY <3>1
            <4>1. f = d
                BY <1>1, OthersUntouched DEF FenceInv, Start, Running
            <4> QED BY <4>1
        <3>2. CASE \E f \in Dispatches : QueueFollowup(f) \/ End(f) \/ CompleteFollowup(f)
            BY <1>1, <3>2 DEF QueueFollowup, End, CompleteFollowup, Running, FenceInv, TypeOK
        <3>3. CASE UNCHANGED dispatch
            BY <1>1, <3>3 DEF Running
        <3> QED BY <1>1, <3>1, <3>2, <3>3 DEF Next, vars, TimeOutLane
    <2>2. dispatch'[d].key = key /\ dispatch'[e] = dispatch[e]
        BY <1>1, <2>1, OthersUntouched DEF FenceInv, Start, Running
    <2>3. PICK k \in FenceKeys :
              /\ k = dispatch[e].key /\ byKey[k].active # 0
              /\ byKey[k].generation \in Nat /\ dispatch[e].generation \in Nat
        BY <1>1, RunningKeepsFence DEF FenceInv, TypeOK, Fence
    <2>4. k \in Interrupts(key)
        BY <1>1, <2>2, <2>3, InterruptsItsSession
    <2>5. byKey'[k].generation = byKey[k].generation + 1
        BY <1>1, <2>1, <2>3, <2>4, StartEffect DEF FenceInv
    <2>6. dispatch[e].generation <= byKey[k].generation
        BY <1>1, <2>3 DEF FenceInv, Generations
    <2> QED BY <2>2, <2>3, <2>5, <2>6 DEF IsSuperseded
<1>2. FenceInv /\ [Next]_vars =>
          [\A d, e \in Dispatches :
              LET key == dispatch'[d].key IN
              (/\ ~Running(d) /\ Running(d)' /\ IsRoot(key) /\ Running(e)
               /\ dispatch[e].key = key \/ (~key.room /\ dispatch[e].key.chat = key.chat))
                  => IsSuperseded(e)']_vars
    BY <1>1
<1> QED BY FenceInvariance, <1>2, PTL DEF Spec, NewTurnInterrupts
=============================================================================
