-------------------------- MODULE Supervision_proofs --------------------------
(* What holds of the parts of Supervision, for every value of their        *)
(* constants.                                                              *)
EXTENDS Supervision, SumTheorems, TLAPS

-----------------------------------------------------------------------------
(* PressureController: its types, and that no climb and no recovery happens *)
(* before the same target has persisted.                                    *)

\* The count of the machine never runs ahead of the targets really seen.
CountIsSeen == ticks > 0 => pending = seen.target /\ ticks <= seen.len

\* At the state it has settled in, nothing is pending.
SettledIsIdle == pending = current => ticks = 0

\* A target is one of the five states.
LEMMA TargetInLevels ==
    ASSUME NEW r \in Readings, NEW dt \in Gaps
    PROVE  target_state_for(r, dt) \in Levels
BY DEF target_state_for, Levels, Calm, Warning, Evicting, Critical, Emergency

\* The timers stay within their caps.
LEMMA TimersInRange ==
    ASSUME NEW cap \in Nat, NEW start \in None..cap, NEW dt \in Nat
    PROVE  /\ Elapse(start, dt, cap) \in None..cap
           /\ Started(start, dt, cap) \in 0..cap
BY DEF Elapse, Started, Capped, None

\* What a cycle does, with its LETs taken apart.
LEMMA CycleStep ==
    ASSUME TypeOK, NEW r \in Readings, NEW dt \in Gaps, Cycle(r, dt)
    PROVE  \E target \in Levels, steep \in BOOLEAN :
               advance(target, steep) /\ Observe(r, target, steep, dt)
<1> DEFINE target == target_state_for(r, dt)
           steep  == Rises(r, dt, 8)
<1>1. target \in Levels
  BY TargetInLevels
<1>2. steep \in BOOLEAN
  BY DEF Rises
<1>3. advance(target, steep) /\ Observe(r, target, steep, dt)
  BY DEF Cycle
<1> QED BY <1>1, <1>2, <1>3

\* The state machine keeps its types.
LEMMA AdvanceType ==
    ASSUME TypeOK, NEW target \in Levels, NEW steep, advance(target, steep)
    PROVE  current' \in Levels /\ pending' \in Levels /\ ticks' \in 0..11
<1> USE DEF Levels, Calm, Warning, Evicting, Critical, Emergency
<1>1. RequiredTicks(target) \in 2..12
  BY DEF TypeOK, RequiredTicks
<1>2. CASE Persist(target)
  BY <1>1, <1>2 DEF TypeOK, Persist
<1>3. CASE ~Persist(target)
  BY <1>3 DEF TypeOK, advance
<1> QED BY <1>2, <1>3

\* The history keeps its type.
LEMMA ObserveType ==
    ASSUME TypeOK, NEW r \in Readings, NEW dt \in Gaps, NEW target \in Levels,
           NEW steep \in BOOLEAN, Observe(r, target, steep, dt)
    PROVE  seen' \in [target : Levels, len : 0..MaxStreak, steep : BOOLEAN,
                      beat : BOOLEAN]
<1> USE GapsAssumption, BoundsAssumption DEF SwapWindow
<1>0. Capped(seen.len + 1, MaxStreak) \in 0..MaxStreak
  BY DEF TypeOK, Capped
<1>1. (IF target # seen.target THEN 1 ELSE Capped(seen.len + 1, MaxStreak))
          \in 0..MaxStreak
  BY <1>0
<1>2. (~seen.beat) \in BOOLEAN
  OBVIOUS
<1> QED BY <1>1, <1>2 DEF Observe

\* The overrides keep the types of the level and of the timers.
LEMMA OverridesType ==
    ASSUME TypeOK, NEW r \in Readings, NEW dt \in Gaps, current' \in Levels,
           apply_swap_overrides(r, current', dt), Hibernate(dt)
    PROVE  /\ level' \in Levels /\ sustained' \in None..SwapWindow
           /\ emergency' \in None..HibernateAfter /\ hibernated' \in BOOLEAN
<1> USE GapsAssumption, BoundsAssumption
<1>1. /\ Started(sustained, dt, SwapWindow) \in 0..SwapWindow
      /\ Elapse(sustained, dt, SwapWindow) \in None..SwapWindow
  <2>1. sustained \in None..SwapWindow /\ SwapWindow \in Nat /\ dt \in Nat
    BY DEF TypeOK, SwapWindow
  <2> QED BY <2>1, TimersInRange
<1>2. Sustained(r, current', dt) \in None..SwapWindow
  BY <1>1 DEF Sustained, None, SwapWindow
<1>3. level' \in Levels
  BY DEF apply_swap_overrides, Forced, Levels, Calm, Critical, Emergency
<1>4. Started(emergency, dt, HibernateAfter) \in 0..HibernateAfter
  BY TimersInRange DEF TypeOK
<1>5. emergency' \in None..HibernateAfter /\ hibernated' \in BOOLEAN
  BY <1>4 DEF Hibernate, TypeOK, None
<1> QED BY <1>2, <1>3, <1>5 DEF apply_swap_overrides

\* Every variable keeps its type, for all readings, gaps and thresholds.
THEOREM TypeCorrect == Spec => []TypeOK
<1>1. Init => TypeOK
  <2> SUFFICES ASSUME Init PROVE TypeOK
    OBVIOUS
  <2>1. None \in None..SwapWindow /\ None \in None..HibernateAfter
    BY BoundsAssumption DEF None, SwapWindow
  <2>2. Calm \in Levels /\ 0 \in 0..MaxStreak
    BY BoundsAssumption DEF Levels, Calm, Emergency
  <2>3. seen \in [target : Levels, len : 0..MaxStreak, steep : BOOLEAN,
                  beat : BOOLEAN]
    BY <2>1, <2>2 DEF Init
  <2>4. 0 \in 0..11
    OBVIOUS
  <2> QED BY <2>1, <2>2, <2>3, <2>4 DEF Init, TypeOK
<1>2. TypeOK /\ [Next]_vars => TypeOK'
  <2> SUFFICES ASSUME TypeOK, [Next]_vars PROVE TypeOK'
    OBVIOUS
  <2>1. CASE Evictor
    <3>1. PICK r \in Readings, dt \in Gaps : Cycle(r, dt)
      BY <2>1 DEF Evictor
    <3>2. PICK target \in Levels, steep \in BOOLEAN :
              advance(target, steep) /\ Observe(r, target, steep, dt)
      BY <3>1, CycleStep
    <3>3. current' \in Levels /\ pending' \in Levels /\ ticks' \in 0..11
      BY <3>2, AdvanceType
    <3>4. seen' \in [target : Levels, len : 0..MaxStreak, steep : BOOLEAN,
                     beat : BOOLEAN]
      BY <3>2, ObserveType
    <3>5. /\ level' \in Levels /\ sustained' \in None..SwapWindow
          /\ emergency' \in None..HibernateAfter /\ hibernated' \in BOOLEAN
      BY <3>1, <3>3, OverridesType DEF Cycle
    <3> QED BY <3>1, <3>3, <3>4, <3>5 DEF Cycle, TypeOK
  <2>2. CASE Rest
    BY <2>2 DEF Rest, TypeOK, machine, timers
  <2>3. CASE UNCHANGED vars
    BY <2>3 DEF vars, machine, timers, TypeOK
  <2> QED BY <2>1, <2>2, <2>3 DEF Next
<1> QED BY <1>1, <1>2, PTL DEF Spec
-----------------------------------------------------------------------------

Counts == CountIsSeen /\ SettledIsIdle

\* One step of the machine, with the history of it: the counts stay honest,
\* and the state changes only as EscalationPersists and RecoveryPersists say.
LEMMA MachineStep ==
    ASSUME TypeOK, Counts, NEW r, NEW dt, NEW target \in Levels,
           NEW steep \in BOOLEAN,
           advance(target, steep), Observe(r, target, steep, dt)
    PROVE  /\ Counts'
           /\ current' # current => seen'.target = current'
           /\ current' > current =>
                seen'.len >= 2 \/ (seen'.steep /\ current' >= Critical)
           /\ current' < current =>
                /\ seen'.len >= 4
                /\ current' = Calm => seen'.len >= 12
                /\ current' = Warning => seen'.len >= 6
<1> USE BoundsAssumption DEF Counts, CountIsSeen, SettledIsIdle, TypeOK, Levels,
        Calm, Warning, Evicting, Critical, Emergency
<1>1. /\ seen'.target = target /\ seen'.steep = steep
      /\ seen'.len = IF target # seen.target THEN 1
                     ELSE Capped(seen.len + 1, MaxStreak)
  BY DEF Observe
<1>2. CASE target > current /\ target >= Critical /\ steep
  BY <1>1, <1>2 DEF advance
<1>3. CASE target = current
  BY <1>1, <1>3 DEF advance
<1>4. CASE Persist(target) /\ target # current
  <2>1. CASE target # pending
    BY <1>1, <1>4, <2>1 DEF Persist, Capped
  <2>2. CASE target = pending
    <3>1. seen'.len \in Nat /\ seen'.len >= ticks + 1
      BY <1>1, <2>2 DEF Capped
    <3>2. RequiredTicks(target) \in 2..12
      BY DEF RequiredTicks
    <3>3. CASE ticks + 1 >= RequiredTicks(target)
      <4>1. current' = target /\ ticks' = 0 /\ pending' = pending
        BY <1>4, <2>2, <3>3 DEF Persist
      <4>2. seen'.len >= RequiredTicks(target)
        BY <3>1, <3>2, <3>3, <1>1
      <4>3. target > current \/ target < current
        BY <1>4
      <4>4. CASE target > current
        BY <1>1, <3>1, <4>1, <4>2, <4>4 DEF RequiredTicks
      <4>5. CASE target < current
        BY <1>1, <3>1, <4>1, <4>2, <4>5 DEF RequiredTicks
      <4> QED BY <4>3, <4>4, <4>5
    <3>4. CASE ~(ticks + 1 >= RequiredTicks(target))
      BY <1>1, <1>4, <2>2, <3>1, <3>4 DEF Persist
    <3> QED BY <3>3, <3>4
  <2> QED BY <2>1, <2>2
<1> QED BY <1>2, <1>3, <1>4 DEF advance

\* The counts stay honest in every run.
LEMMA CountsHold == Spec => []Counts
<1>1. Init => Counts
  BY DEF Init, Counts, CountIsSeen, SettledIsIdle
<1>2. TypeOK /\ Counts /\ [Next]_vars => Counts'
  <2> SUFFICES ASSUME TypeOK, Counts, [Next]_vars PROVE Counts'
    OBVIOUS
  <2>1. CASE Evictor
    BY <2>1, CycleStep, MachineStep DEF Evictor
  <2>2. CASE UNCHANGED <<machine, seen>>
    BY <2>2 DEF Counts, CountIsSeen, SettledIsIdle, machine
  <2> QED BY <2>1, <2>2 DEF Next, Rest, vars
<1> QED BY <1>1, <1>2, TypeCorrect, PTL DEF Spec

\* The state machine climbs only after two cycles in a row asked for the
\* same state, or on a steep rise, whatever the readings are.
THEOREM EscalatesOnPersistence == Spec => EscalationPersists
<1> DEFINE A == current' > current =>
                  /\ seen'.target = current'
                  /\ seen'.len >= 2 \/ (seen'.steep /\ current' >= Critical)
<1>1. TypeOK /\ Counts /\ [Next]_vars => [A]_vars
  <2> SUFFICES ASSUME TypeOK, Counts, Next, current' > current PROVE A
    OBVIOUS
  <2>1. CASE Evictor
    <3>1. PICK r \in Readings, dt \in Gaps : Cycle(r, dt)
      BY <2>1 DEF Evictor
    <3>2. PICK target \in Levels, steep \in BOOLEAN :
              advance(target, steep) /\ Observe(r, target, steep, dt)
      BY <3>1, CycleStep
    <3>3. current' # current
      BY DEF TypeOK, Levels, Calm, Emergency
    <3> QED BY <3>2, <3>3, MachineStep
  <2>2. CASE UNCHANGED machine
    BY <2>2 DEF machine, TypeOK, Levels, Calm, Emergency
  <2> QED BY <2>1, <2>2 DEF Next, Rest
<1> QED BY <1>1, TypeCorrect, CountsHold, PTL DEF Spec, EscalationPersists

\* It climbs down only after the whole recovery cooldown asked for the lower
\* state: 12 cycles for Calm, 6 for Warning, 4 otherwise.
THEOREM RecoversOnPersistence == Spec => RecoveryPersists
<1> DEFINE A == current' < current =>
                  /\ seen'.target = current'
                  /\ seen'.len >= 4
                  /\ current' = Calm => seen'.len >= 12
                  /\ current' = Warning => seen'.len >= 6
<1>1. TypeOK /\ Counts /\ [Next]_vars => [A]_vars
  <2> SUFFICES ASSUME TypeOK, Counts, Next, current' < current PROVE A
    OBVIOUS
  <2>1. CASE Evictor
    <3>1. PICK r \in Readings, dt \in Gaps : Cycle(r, dt)
      BY <2>1 DEF Evictor
    <3>2. PICK target \in Levels, steep \in BOOLEAN :
              advance(target, steep) /\ Observe(r, target, steep, dt)
      BY <3>1, CycleStep
    <3>3. current' # current
      BY DEF TypeOK, Levels, Calm, Emergency
    <3> QED BY <3>2, <3>3, MachineStep
  <2>2. CASE UNCHANGED machine
    BY <2>2 DEF machine, TypeOK, Levels, Calm, Emergency
  <2> QED BY <2>1, <2>2 DEF Next, Rest
<1> QED BY <1>1, TypeCorrect, CountsHold, PTL DEF Spec, RecoveryPersists

-----------------------------------------------------------------------------
(* DaemonThreads: the order in which the daemon stops.                     *)

\* A plugin that runs is in PLUGIN_CHILDREN, from which maintenance starts it again and
\* main ends it.
Children == \A p \in Plugins : process[p] = "running" => p \in tracked

\* What each step of main has behind it.
Order ==
    /\ main = "init" => mnt = "none" /\ \A p \in Plugins : process[p] = "none"
    /\ srv # "accept" => ~socket
    /\ main \in {"plugins", "flush", "done"} =>
           ev = "done" /\ rec = "done" /\ srv = "done" /\ mnt = "done"
    /\ main \in {"flush", "done"} => tracked = {}
    /\ main = "done" => saved

\* A spawn keeps the types, whether it fails or not.
LEMMA SpawnType ==
    ASSUME Threads!TypeOK, NEW S \in SUBSET Plugins, Threads!Spawn(S)
    PROVE  /\ process' \in [Plugins -> {"none", "running", "dead"}]
           /\ tracked' \subseteq Plugins /\ fails' \in 0..MaxFails
<1>1. PICK lost \in SUBSET S :
        /\ lost # {} => fails < MaxFails
        /\ fails' = IF lost = {} THEN fails ELSE fails + 1
        /\ process' = [p \in Plugins |-> IF p \in S \ lost THEN "running" ELSE process[p]]
        /\ tracked' = (tracked \cup S) \ lost
  BY DEF Threads!Spawn
<1>2. process' \in [Plugins -> {"none", "running", "dead"}]
  BY <1>1 DEF Threads!TypeOK
<1>3. tracked' \subseteq Plugins
  BY <1>1 DEF Threads!TypeOK
<1>4. fails' \in 0..MaxFails
  BY <1>1, ThreadsAssumption DEF Threads!TypeOK, Threads!LimitsAssumption
<1>5. QED
  BY <1>2, <1>3, <1>4

\* Every variable has the type that the module gives it.
THEOREM ThreadsTyped ==
    Threads!Spec => []Threads!TypeOK
<1>1. Threads!Init => Threads!TypeOK
  <2> SUFFICES ASSUME Threads!Init
               PROVE  Threads!TypeOK
    OBVIOUS
  <2>1. /\ stop \in BOOLEAN /\ ring \in BOOLEAN /\ bell \in BOOLEAN
        /\ room \in BOOLEAN /\ socket \in BOOLEAN /\ saved \in BOOLEAN
    BY Zenon DEF Threads!Init
  <2>2. fails \in 0..MaxFails
    BY ThreadsAssumption DEF Threads!LimitsAssumption, Threads!Init
  <2>3. process \in [Plugins -> {"none", "running", "dead"}]
    BY DEF Threads!Init
  <2>4. QED
    BY <2>1, <2>2, <2>3 DEF Threads!Init, Threads!TypeOK, Threads!MainSteps,
                            Threads!EvSteps, Threads!RecSteps, Threads!MntSteps,
                            Threads!SrvSteps, Threads!Stalls, Threads!Coolings
<1>2. Threads!TypeOK /\ [Threads!Next]_(Threads!vars) => Threads!TypeOK'
  <2> SUFFICES ASSUME Threads!TypeOK, [Threads!Next]_(Threads!vars)
               PROVE  Threads!TypeOK'
    OBVIOUS
  <2> USE DEF Threads!MainSteps, Threads!EvSteps, Threads!RecSteps, Threads!MntSteps,
              Threads!SrvSteps, Threads!others, Threads!bells, Threads!plugins,
              Threads!Stalls, Threads!Coolings
  <2>1. CASE Threads!Evictor
    <3>1. CASE Threads!EvTop \/ Threads!EvStop \/ Threads!EvRing
      BY <3>1 DEF Threads!EvTop, Threads!EvStop, Threads!EvRing, Threads!TypeOK
    <3>2. CASE Threads!EvCalm
      BY <3>2, ThreadsAssumption DEF Threads!EvCalm, Threads!TypeOK,
                                     Threads!LimitsAssumption
    <3>3. CASE Threads!EvExecute
      <4>1. PICK kills \in BOOLEAN, new \in 0..1 :
              /\ entries + new <= MaxEntries /\ entries' = entries + new
              /\ room' = (room \/ kills)
              /\ ev' = IF kills THEN "rings" ELSE "ring"
        BY <3>3 DEF Threads!EvExecute
      <4>2. entries' \in 0..MaxEntries
        BY <4>1, ThreadsAssumption DEF Threads!TypeOK, Threads!LimitsAssumption
      <4>3. room' \in BOOLEAN /\ ev' \in Threads!EvSteps
        BY <4>1
      <4>4. QED
        BY <3>3, <4>2, <4>3 DEF Threads!EvExecute, Threads!TypeOK
    <3>4. QED
      BY <2>1, <3>1, <3>2, <3>3 DEF Threads!Evictor
  <2>2. CASE Threads!Recovery
    <3>1. CASE Threads!RecCount
      BY <3>1 DEF Threads!RecCount, Threads!TypeOK
    <3>2. CASE Threads!RecWake
      <4>1. ring' \in BOOLEAN
        BY <3>2, Zenon DEF Threads!RecWake
      <4>2. QED
        BY <3>2, <4>1 DEF Threads!RecWake, Threads!TypeOK
    <3>3. CASE Threads!RecPass
      <4>1. entries' \in 0..MaxEntries
        BY <3>3, ThreadsAssumption DEF Threads!RecPass, Threads!TypeOK,
                                       Threads!LimitsAssumption
      <4>2. QED
        BY <3>3, <4>1 DEF Threads!RecPass, Threads!TypeOK
    <3>4. QED
      BY <2>2, <3>1, <3>2, <3>3 DEF Threads!Recovery
  <2>3. CASE Threads!Maintenance
    <3>1. CASE Threads!MntTop
      <4>1. CASE stop
        BY <3>1, <4>1 DEF Threads!MntTop, Threads!TypeOK
      <4>2. CASE ~stop
        <5>1. Threads!Spawn({p \in tracked : process[p] = "dead"})
          BY <3>1, <4>2 DEF Threads!MntTop
        <5>2. {p \in tracked : process[p] = "dead"} \in SUBSET Plugins
          BY DEF Threads!TypeOK
        <5>3. /\ process' \in [Plugins -> {"none", "running", "dead"}]
              /\ tracked' \subseteq Plugins /\ fails' \in 0..MaxFails
          BY <5>1, <5>2, SpawnType, ThreadsAssumption
        <5>4. QED
          BY <3>1, <4>2, <5>3 DEF Threads!MntTop, Threads!TypeOK
      <4>3. QED
        BY <4>1, <4>2
    <3>2. CASE Threads!MntTake \/ Threads!MntReclaim \/ Threads!MntSleep \/ Threads!MntTimeout
      BY <3>2 DEF Threads!MntTake, Threads!MntReclaim, Threads!MntSleep, Threads!MntTimeout,
                  Threads!TypeOK
    <3>3. QED
      BY <2>3, <3>1, <3>2 DEF Threads!Maintenance
  <2>4. CASE Threads!SrvStop
    <3>1. socket' \in BOOLEAN
      BY <2>4, Zenon DEF Threads!SrvStop
    <3>2. QED
      BY <2>4, <3>1 DEF Threads!SrvStop, Threads!TypeOK
  <2>5. CASE Threads!Main
    <3>1. CASE Threads!MainInit
      <4>1. /\ process' \in [Plugins -> {"none", "running", "dead"}]
            /\ tracked' \subseteq Plugins /\ fails' \in 0..MaxFails
        BY <3>1, SpawnType, ThreadsAssumption DEF Threads!MainInit
      <4>2. QED
        BY <3>1, <4>1 DEF Threads!MainInit, Threads!TypeOK
    <3>2. CASE Threads!MainStart \/ Threads!MainJoin \/ Threads!MainPlugins \/ Threads!MainFlush
      BY <3>2 DEF Threads!MainStart, Threads!MainJoin, Threads!MainPlugins,
                  Threads!MainFlush, Threads!TypeOK
    <3>3. QED
      BY <2>5, <3>1, <3>2 DEF Threads!Main
  <2>6. CASE Threads!Terminate
    <3>1. stop' \in BOOLEAN /\ main' \in Threads!MainSteps
      <4>1. CASE main \in {"init", "ready"}
        BY <2>6, <4>1 DEF Threads!Terminate, Threads!TypeOK
      <4>2. CASE main \notin {"init", "ready"}
        BY <2>6, <4>2, Zenon DEF Threads!Terminate, Threads!TypeOK
      <4>3. QED
        BY <4>1, <4>2
    <3>2. QED
      BY <2>6, <3>1 DEF Threads!Terminate, Threads!TypeOK
  <2>7. ASSUME NEW p \in Plugins, Threads!Crash(p)
        PROVE  Threads!TypeOK'
    BY <2>7 DEF Threads!Crash, Threads!TypeOK
  <2>8. CASE UNCHANGED Threads!vars
    BY <2>8 DEF Threads!vars, Threads!TypeOK
  <2>9. QED
    BY <2>1, <2>2, <2>3, <2>4, <2>5, <2>6, <2>7, <2>8 DEF Threads!Next
<1>3. QED
  BY <1>1, <1>2, PTL DEF Threads!Spec

-----------------------------------------------------------------------------
(* What is left at the end.                                                *)

\* Neither a spawn that fails nor a restart makes a plugin that nobody tracks.
LEMMA SpawnTracks ==
    ASSUME Threads!TypeOK, Children, NEW S \in SUBSET Plugins, Threads!Spawn(S),
           \A p \in S : process[p] # "running"
    PROVE  Children'
<1>1. PICK lost \in SUBSET S :
        /\ process' = [p \in Plugins |-> IF p \in S \ lost THEN "running" ELSE process[p]]
        /\ tracked' = (tracked \cup S) \ lost
  BY DEF Threads!Spawn
<1>2. ASSUME NEW p \in Plugins, process'[p] = "running"
      PROVE  p \in tracked'
  BY <1>1, <1>2 DEF Children
<1>3. QED
  BY <1>2 DEF Children

\* Children and Order are invariants.
LEMMA EndsInOrder ==
    Threads!Spec => [](Children /\ Order)
<1>1. Threads!Init => Children /\ Order
  BY DEF Threads!Init, Children, Order
<1>2. Threads!TypeOK /\ Children /\ Order /\ [Threads!Next]_(Threads!vars) => (Children /\ Order)'
  <2> SUFFICES ASSUME Threads!TypeOK, Children, Order, [Threads!Next]_(Threads!vars)
               PROVE  Children' /\ Order'
    OBVIOUS
  <2> USE DEF Threads!others, Threads!bells, Threads!plugins
  <2>1. CASE Threads!Evictor \/ Threads!Recovery
    BY <2>1 DEF Threads!Evictor, Threads!EvTop, Threads!EvStop, Threads!EvCalm,
                Threads!EvExecute, Threads!EvRing,
                Threads!Recovery, Threads!RecCount, Threads!RecWake, Threads!RecPass, Children, Order
  <2>2. CASE Threads!Maintenance
    <3>1. CASE Threads!MntTop
      <4>1. main \notin {"init", "plugins", "flush", "done"}
        BY <3>1 DEF Threads!MntTop, Order
      <4>2. Order'
        BY <3>1, <4>1 DEF Threads!MntTop, Order
      <4>3. CASE stop
        BY <3>1, <4>2, <4>3 DEF Threads!MntTop, Children
      <4>4. CASE ~stop
        <5>1. /\ Threads!Spawn({p \in tracked : process[p] = "dead"})
              /\ {p \in tracked : process[p] = "dead"} \in SUBSET Plugins
          BY <3>1, <4>4 DEF Threads!MntTop, Threads!TypeOK
        <5>2. QED
          BY <4>2, <5>1, SpawnTracks
      <4>5. QED
        BY <4>3, <4>4
    <3>2. CASE Threads!MntTake \/ Threads!MntReclaim \/ Threads!MntSleep \/ Threads!MntTimeout
      BY <3>2 DEF Threads!MntTake, Threads!MntReclaim, Threads!MntSleep, Threads!MntTimeout,
                  Children, Order
    <3>3. QED
      BY <2>2, <3>1, <3>2 DEF Threads!Maintenance
  <2>3. CASE Threads!SrvStop
    BY <2>3 DEF Threads!SrvStop, Children, Order
  <2>4. CASE Threads!Main
    <3>1. CASE Threads!MainInit
      <4>1. \A p \in Plugins : process[p] # "running"
        BY <3>1 DEF Threads!MainInit, Order
      <4>2. Children'
        BY <3>1, <4>1, SpawnTracks DEF Threads!MainInit
      <4>3. QED
        BY <3>1, <4>2 DEF Threads!MainInit, Order
    <3>2. CASE Threads!MainStart
      BY <3>2 DEF Threads!MainStart, Children, Order
    <3>3. CASE Threads!MainJoin
      BY <3>3 DEF Threads!MainJoin, Children, Order
    <3>4. CASE Threads!MainPlugins
      <4>1. \A p \in Plugins : process'[p] # "running"
        BY <3>4 DEF Threads!MainPlugins, Children, Threads!TypeOK
      <4>2. QED
        BY <3>4, <4>1 DEF Threads!MainPlugins, Children, Order
    <3>5. CASE Threads!MainFlush
      BY <3>5 DEF Threads!MainFlush, Children, Order
    <3>6. QED
      BY <2>4, <3>1, <3>2, <3>3, <3>4, <3>5 DEF Threads!Main
  <2>5. CASE Threads!Terminate
    BY <2>5 DEF Threads!Terminate, Children, Order
  <2>6. ASSUME NEW p \in Plugins, Threads!Crash(p)
        PROVE  Children' /\ Order'
    BY <2>6 DEF Threads!Crash, Children, Order, Threads!TypeOK
  <2>7. CASE UNCHANGED Threads!vars
    BY <2>7 DEF Threads!vars, Children, Order
  <2>8. QED
    BY <2>1, <2>2, <2>3, <2>4, <2>5, <2>6, <2>7 DEF Threads!Next
<1>3. QED
  BY <1>1, <1>2, ThreadsTyped, PTL DEF Threads!Spec

\* When main has ended so have all threads, no plugin runs, the socket is gone and the
\* calibration is saved, however plugins die, fail to start and are restarted meanwhile.
THEOREM StopsClean ==
    Threads!Spec => []Threads!NothingLeft
<1>1. Children /\ Order => Threads!NothingLeft
  BY DEF Children, Order, Threads!NothingLeft
<1>2. QED
  BY <1>1, EndsInOrder, PTL

-----------------------------------------------------------------------------
(* SwapReclaim: every device that is off is about to come back or was      *)
(* refused, and what is still to be brought in fits.                       *)

\* The limits of the reclaim of swap, one by one.
LEMMA SwapLimits ==
    /\ MinUsed \in Nat /\ Headroom \in Nat /\ SwapCooldown \in Nat /\ KillCooldown \in Nat
    /\ MaxData \in Nat /\ MaxAvail \in Nat /\ MaxErrors \in Nat
    /\ IsFiniteSet(Devices) /\ NoDevice \notin Devices
BY SwapAssumption DEF Swap!DevicesAssumption, Swap!LimitsAssumption, Swap!IsFiniteSet, IsFiniteSet

\* Its types, without the two flags, and the flags.
SwapTyped ==
    /\ kind \in {"capped", "uncapped", "absent"}
    /\ on \in [Devices -> BOOLEAN] /\ data \in [Devices -> 0..MaxData] /\ avail \in 0..MaxAvail
    /\ swapAge \in 0..SwapCooldown
    /\ swapAt \in {"gone", "start", "next", "on"} /\ cur \in Devices \cup {NoDevice}
    /\ swapAt = "on" => cur # NoDevice
    /\ todo \subseteq Devices /\ tries \in 0..3 /\ bad \subseteq {"eperm", "transient"}
    /\ refused \subseteq Devices /\ errors \in 0..MaxErrors
SwapFlags == disabled \in BOOLEAN /\ signal \in BOOLEAN

\* The Boolean variables keep their type; apart, because the provers treat them apart.
LEMMA SwapFlagsStep ==
    ASSUME SwapFlags, Swap!Next
    PROVE  SwapFlags'
<1> USE DEF SwapFlags, Swap!memory, Swap!daemon, Swap!process
<1>1. ASSUME NEW code, Swap!Return(code)
      PROVE  SwapFlags'
  BY <1>1, Zenon DEF Swap!Return
<1>2. CASE \E d \in Devices, n \in 0..MaxData, m \in 0..MaxAvail : Swap!Use(d, n, m)
  BY <1>2, Zenon DEF Swap!Use
<1>3. CASE Swap!Interrupt
  BY <1>3, Zenon DEF Swap!Interrupt
<1>4. ASSUME NEW kill \in BOOLEAN, NEW calm \in BOOLEAN, Swap!Pass(kill, calm)
      PROVE  SwapFlags'
  <2>1. signal' = signal /\ (disabled' = disabled \/ disabled' = TRUE)
    BY <1>4 DEF Swap!Pass
  <2>2. QED
    BY <2>1, Zenon
<1>5. CASE Swap!List \/ Swap!Killed \/ Swap!Done
  <2>1. \/ \E code : Swap!Return(code)
        \/ UNCHANGED <<disabled, signal>>
    BY <1>5 DEF Swap!List, Swap!Killed, Swap!Done
  <2>2. QED
    BY <1>1, <2>1, Zenon
<1>6. CASE (\E d \in Devices : Swap!Off(d)) \/ Swap!On \/ Swap!OnFails
  <2>1. UNCHANGED <<disabled, signal>>
    BY <1>6 DEF Swap!Off, Swap!On, Swap!OnFails
  <2>2. QED
    BY <2>1, Zenon
<1>7. QED
  BY <1>2, <1>3, <1>4, <1>5, <1>6, Zenon DEF Swap!Next, Swap!Helper

\* So do the others.
LEMMA SwapTypedStep ==
    ASSUME SwapTyped, Swap!Next
    PROVE  SwapTyped'
<1> USE SwapLimits DEF SwapTyped, Swap!memory, Swap!daemon, Swap!process
<1>1. ASSUME NEW code, Swap!Return(code), UNCHANGED <<kind, on, data, avail, refused, errors>>
      PROVE  SwapTyped'
  <2>1. swapAge' \in 0..SwapCooldown
    BY <1>1 DEF Swap!Return
  <2>2. /\ swapAt' = "gone" /\ cur' = NoDevice /\ todo' = {} /\ tries' = 0 /\ bad' = {}
        /\ UNCHANGED <<kind, on, data, avail, refused, errors>>
    BY <1>1 DEF Swap!Return
  <2>3. QED
    BY <2>1, <2>2
<1>2. CASE \E d \in Devices, n \in 0..MaxData, m \in 0..MaxAvail : Swap!Use(d, n, m)
  BY <1>2 DEF Swap!Use
<1>3. CASE Swap!Interrupt
  <2>1. /\ errors' \in 0..MaxErrors
        /\ UNCHANGED <<kind, on, data, avail, swapAge, swapAt, cur, todo, tries, bad, refused>>
    BY <1>3 DEF Swap!Interrupt
  <2>2. QED
    BY <2>1
<1>4. ASSUME NEW kill \in BOOLEAN, NEW calm \in BOOLEAN, Swap!Pass(kill, calm)
      PROVE  SwapTyped'
  <2>1. UNCHANGED <<kind, on, data, avail, refused, errors, cur, todo, tries>>
    BY <1>4 DEF Swap!Pass
  <2>2. swapAge' \in 0..SwapCooldown
    BY <1>4 DEF Swap!Pass
  <2>3. (swapAt' = swapAt \/ swapAt' = "start") /\ (bad' = bad \/ bad' = {})
    BY <1>4 DEF Swap!Pass
  <2>4. QED
    BY <2>1, <2>2, <2>3
<1>5. CASE Swap!List
  <2>1. UNCHANGED <<kind, on, data, avail, refused, errors>>
    BY <1>5 DEF Swap!List
  <2>2. \/ \E code : Swap!Return(code)
        \/ swapAt' = "next" /\ todo' = Swap!Listed /\ UNCHANGED <<swapAge, cur, tries, bad>>
    BY <1>5 DEF Swap!List
  <2>3. Swap!Listed \subseteq Devices
    BY DEF Swap!Listed
  <2>4. QED
    BY <1>1, <2>1, <2>2, <2>3
<1>6. CASE Swap!Killed \/ Swap!Done
  <2>1. UNCHANGED <<kind, on, data, avail, refused, errors>> /\ \E code : Swap!Return(code)
    BY <1>6 DEF Swap!Killed, Swap!Done
  <2>2. QED
    BY <1>1, <2>1
<1>7. ASSUME NEW d \in Devices, Swap!Off(d)
      PROVE  SwapTyped'
  <2>1. todo' \subseteq Devices /\ UNCHANGED <<kind, swapAge, refused>>
    BY <1>7 DEF Swap!Off
  <2>2. on' \in [Devices -> BOOLEAN] /\ data' \in [Devices -> 0..MaxData] /\ avail' \in 0..MaxAvail
    <3>1. CASE UNCHANGED <<on, data, avail>>
      BY <3>1
    <3>2. CASE /\ on' = [on EXCEPT ![d] = FALSE] /\ data' = [data EXCEPT ![d] = 0]
               /\ avail' = avail - data[d] /\ data[d] <= avail
      BY <3>2
    <3>3. QED
      BY <1>7, <3>1, <3>2 DEF Swap!Off
  <2>3. \/ swapAt' = "next" /\ UNCHANGED <<cur, tries>>
        \/ swapAt' = "on" /\ cur' = d /\ tries' = 0
    BY <1>7 DEF Swap!Off
  <2>4. errors' \in 0..MaxErrors
    <3>1. errors' = errors \/ (errors < MaxErrors /\ errors' = errors + 1)
      BY <1>7 DEF Swap!Off
    <3>2. QED
      BY <3>1
  <2>5. bad' \subseteq {"eperm", "transient"}
    <3>1. bad' \in {bad, bad \cup {"transient"}, bad \cup {"eperm"}}
      BY <1>7 DEF Swap!Off
    <3>2. QED
      BY <3>1
  <2>6. QED
    BY <2>1, <2>2, <2>3, <2>4, <2>5
<1>8. CASE Swap!On
  <2>1. /\ UNCHANGED <<kind, data, avail, swapAge, todo, tries, bad, refused, errors>>
        /\ on' = [on EXCEPT ![cur] = TRUE] /\ swapAt' = "next" /\ cur' = NoDevice
    BY <1>8 DEF Swap!On
  <2>2. on' \in [Devices -> BOOLEAN]
    BY <2>1, Zenon
  <2>3. QED
    BY <2>1, <2>2
<1>9. CASE Swap!OnFails
  <2>1. /\ UNCHANGED <<kind, on, data, avail, swapAge, todo>>
        /\ errors < MaxErrors /\ errors' = errors + 1 /\ swapAt = "on"
    BY <1>9 DEF Swap!OnFails
  <2>2. \/ tries < 3 /\ tries' = tries + 1 /\ UNCHANGED <<swapAt, cur, bad, refused>>
        \/ /\ swapAt' = "next" /\ cur' = NoDevice /\ bad' = bad \cup {"transient"}
           /\ refused' = refused \cup {cur} /\ tries' = tries
    BY <1>9 DEF Swap!OnFails
  <2>3. errors' \in 0..MaxErrors
    BY <2>1
  <2>4. tries' \in 0..3
    BY <2>2
  <2>5. bad' \subseteq {"eperm", "transient"} /\ refused' \subseteq Devices
    BY <2>1, <2>2
  <2>6. QED
    BY <2>1, <2>2, <2>3, <2>4, <2>5
<1>10. QED
  BY <1>2, <1>3, <1>4, <1>5, <1>6, <1>7, <1>8, <1>9 DEF Swap!Next, Swap!Helper

\* TypeOK of SwapReclaim is an invariant.
LEMMA SwapTypes ==
    Swap!Spec => []Swap!TypeOK
<1>1. Swap!Init => SwapTyped
  BY SwapLimits DEF Swap!Init, SwapTyped
<1>2. Swap!Init => SwapFlags
  BY Zenon DEF Swap!Init, SwapFlags
<1>3. SwapTyped /\ SwapFlags /\ [Swap!Next]_(Swap!vars) => SwapTyped' /\ SwapFlags'
  <2>1. CASE UNCHANGED Swap!vars
    <3>1. SwapTyped => SwapTyped'
      BY <2>1 DEF SwapTyped, Swap!vars, Swap!memory, Swap!daemon, Swap!process
    <3>2. SwapFlags => SwapFlags'
      BY <2>1, Zenon DEF SwapFlags, Swap!vars, Swap!memory, Swap!daemon, Swap!process
    <3>3. QED
      BY <3>1, <3>2
  <2>2. QED
    BY <2>1, SwapTypedStep, SwapFlagsStep
<1>4. SwapTyped /\ SwapFlags => Swap!TypeOK
  BY Zenon DEF SwapTyped, SwapFlags, Swap!TypeOK
<1>5. QED
  BY <1>1, <1>2, <1>3, <1>4, PTL DEF Swap!Spec

\* What a step of reclaim does to the devices: the shapes of its actions.
LEMMA SwapKeptStep ==
    ASSUME Swap!TypeOK, Swap!SwapKept, [Swap!Next]_(Swap!vars)
    PROVE  Swap!SwapKept'
<1> USE SwapLimits DEF Swap!TypeOK, Swap!SwapKept,
        Swap!memory, Swap!daemon, Swap!process
<1>1. CASE \E d \in Devices, n \in 0..MaxData, m \in 0..MaxAvail : Swap!Use(d, n, m)
  BY <1>1 DEF Swap!Use
<1>2. CASE Swap!Interrupt \/ UNCHANGED Swap!vars
  BY <1>2 DEF Swap!Interrupt, Swap!vars
<1>3. CASE \E kill, calm \in BOOLEAN : Swap!Pass(kill, calm)
  <2>1. UNCHANGED <<on, refused>> /\ swapAt = "gone"
    BY <1>3 DEF Swap!Pass
  <2>2. QED
    BY <2>1
<1>4. CASE Swap!List \/ Swap!Killed \/ Swap!Done
  <2>1. UNCHANGED <<on, refused>> /\ swapAt # "on"
    BY <1>4 DEF Swap!List, Swap!Killed, Swap!Done
  <2>2. QED
    BY <2>1
<1>5. ASSUME NEW d \in Devices, Swap!Off(d)
      PROVE  Swap!SwapKept'
  BY <1>5 DEF Swap!Off
<1>6. CASE Swap!On
  BY <1>6 DEF Swap!On
<1>7. CASE Swap!OnFails
  BY <1>7 DEF Swap!OnFails
<1>8. QED
  BY <1>1, <1>2, <1>3, <1>4, <1>5, <1>6, <1>7 DEF Swap!Next, Swap!Helper

\* What the devices in S hold is the sum of what each holds.
LEMMA HeldIsSum ==
    ASSUME Swap!TypeOK, Swap!TypeOK'
    PROVE  /\ \A S \in SUBSET Devices : Swap!Held(S) = Sum(data, S)
           /\ \A S \in SUBSET Devices : Swap!Held(S)' = Sum(data', S)
           /\ \A S \in SUBSET Devices : IsFiniteSet(S) /\ Sum(data, S) \in Nat
           /\ \A S \in SUBSET Devices : \A d \in S : Sum(data, S) = data[d] + Sum(data, S \ {d})
<1>1. \A S : Swap!Held(S) = Sum(data, S)
  BY DEF Swap!Held, Sum, Swap!MapThenSumSet, Swap!MapThenFoldSet, MapThenSumSet, MapThenFoldSet
<1>2. \A S \in SUBSET Devices : Swap!Held(S)' = Sum(data', S)
  BY DEF Swap!Held, Sum, Swap!MapThenSumSet, Swap!MapThenFoldSet, MapThenSumSet, MapThenFoldSet
<1>3. \A d \in Devices : data[d] \in Nat
  BY DEF Swap!TypeOK
<1>4. \A S \in SUBSET Devices : IsFiniteSet(S) /\ Sum(data, S) \in Nat
  <2>1. IsFiniteSet(Devices)
    BY SwapLimits
  <2>2. \A S \in SUBSET Devices : Sum(data, S) \in Nat
    BY <1>3, <2>1, SumIsNat
  <2>3. QED
    BY <2>1, <2>2, FS_Subset
<1>5. ASSUME NEW S \in SUBSET Devices
      PROVE  \A d \in S : Sum(data, S) = data[d] + Sum(data, S \ {d})
  <2>1. \A d \in S : data[d] \in Int
    BY <1>3
  <2>2. QED
    BY <1>4, <2>1, SumTakeOut
<1>6. QED
  BY <1>1, <1>2, <1>4, <1>5

\* Also while a device is being switched on again the rest fits.
Room == swapAt \in {"next", "on"} => Swap!Held(todo) < avail

\* Room is kept while nobody else takes memory: a device is taken off the list before its
\* pages are brought in.
LEMMA RoomStep ==
    ASSUME Swap!TypeOK, Swap!TypeOK', Room, ~Drift, [Swap!Next]_(Swap!vars)
    PROVE  Room'
<1> USE DEF Swap!memory, Swap!daemon, Swap!process
<1>0. todo \in SUBSET Devices /\ todo' \in SUBSET Devices /\ avail \in Nat /\ data \in [Devices -> 0..MaxData]
  BY SwapLimits DEF Swap!TypeOK
<1>1. ASSUME UNCHANGED <<data, avail>>, swapAt' \in {"next", "on"} => swapAt \in {"next", "on"},
             swapAt' \in {"next", "on"} => todo' \subseteq todo
      PROVE  Room'
  <2>1. CASE swapAt' \notin {"next", "on"}
    BY <2>1 DEF Room
  <2>2. CASE swapAt' \in {"next", "on"}
    <3>1. Sum(data, todo) < avail
      BY <1>0, <1>1, <2>2, HeldIsSum DEF Room
    <3>2. Sum(data, todo') <= Sum(data, todo)
      BY <1>0, <1>1, <2>2, HeldIsSum, SumMonotone DEF Swap!TypeOK
    <3>3. Swap!Held(todo)' = Sum(data, todo')
      BY <1>0, <1>1, HeldIsSum
    <3>4. QED
      BY <1>0, <1>1, <3>1, <3>2, <3>3, HeldIsSum DEF Room
  <2>3. QED
    BY <2>1, <2>2
<1>2. CASE \E d \in Devices, n \in 0..MaxData, m \in 0..MaxAvail : Swap!Use(d, n, m)
  BY <1>2 DEF Swap!Use, Room
<1>3. CASE Swap!Interrupt \/ UNCHANGED Swap!vars
  BY <1>1, <1>3 DEF Swap!Interrupt, Swap!vars
<1>4. CASE \E kill, calm \in BOOLEAN : Swap!Pass(kill, calm)
  <2>1. swapAt' \in {"gone", "start"}
    BY <1>4 DEF Swap!Pass
  <2>2. QED
    BY <2>1 DEF Room
<1>5. CASE Swap!List
  <2>1. CASE swapAt' = "gone"
    BY <2>1 DEF Room
  <2>2. CASE swapAt' # "gone"
    <3>1. Swap!Safe /\ todo' = Swap!Listed /\ UNCHANGED <<data, avail>>
      BY <1>5, <2>2 DEF Swap!List, Swap!Return
    <3>2. QED
      BY <1>0, <3>1, HeldIsSum DEF Swap!Safe, Room
  <2>3. QED
    BY <2>1, <2>2
<1>6. CASE Swap!Killed \/ Swap!Done
  BY <1>6 DEF Swap!Killed, Swap!Done, Swap!Return, Room
<1>7. ASSUME NEW d \in Devices, Swap!Off(d)
      PROVE  Room'
  <2>1. swapAt = "next" /\ d \in todo /\ todo' = todo \ {d}
    BY <1>7 DEF Swap!Off
  <2>2. CASE UNCHANGED <<data, avail>>
    BY <1>1, <2>1, <2>2
  <2>3. CASE data' = [data EXCEPT ![d] = 0] /\ avail' = avail - data[d]
    <3>1. Sum(data, todo) = data[d] + Sum(data, todo') /\ Sum(data, todo) < avail
      BY <1>0, <2>1, HeldIsSum DEF Room
    <3>2. \A x \in todo' : data'[x] = data[x]
      BY <1>0, <2>1, <2>3
    <3>3. Sum(data', todo') = Sum(data, todo')
      <4>1. IsFiniteSet(todo')
        BY <1>0, HeldIsSum
      <4>2. QED
        BY <3>2, <4>1, SumSame
    <3>4. Swap!Held(todo)' = Sum(data', todo')
      BY <1>0, HeldIsSum DEF Swap!Held
    <3>5. data[d] \in Nat /\ Sum(data, todo') \in Nat
      BY <1>0, HeldIsSum
    <3>6. QED
      BY <1>0, <2>3, <3>1, <3>3, <3>4, <3>5 DEF Room
  <2>4. QED
    BY <1>7, <2>2, <2>3 DEF Swap!Off
<1>8. CASE Swap!On \/ Swap!OnFails
  <2>1. UNCHANGED <<data, avail, todo>> /\ swapAt = "on"
    BY <1>8 DEF Swap!On, Swap!OnFails
  <2>2. QED
    BY <1>1, <2>1
<1>9. QED
  BY <1>2, <1>3, <1>4, <1>5, <1>6, <1>7, <1>8 DEF Swap!Next, Swap!Helper

\* Reclaim of swap, for any devices: none is lost, and while nobody else takes the memory that
\* the helper has measured, each fits when its turn comes.
LEMMA SwapSafe ==
    ASSUME ~Drift
    PROVE  Swap!Spec => [](Swap!SwapKept /\ Swap!Fits)
<1>1. Swap!Init => Swap!SwapKept /\ Room
  BY DEF Swap!Init, Swap!SwapKept, Room
<1>2. Room => Swap!Fits
  BY DEF Room, Swap!Fits
<1>3. Swap!TypeOK /\ Swap!TypeOK' /\ Swap!SwapKept /\ Room /\ [Swap!Next]_(Swap!vars)
        => Swap!SwapKept' /\ Room'
  BY SwapKeptStep, RoomStep
<1>4. QED
  BY <1>1, <1>2, <1>3, SwapTypes, PTL DEF Swap!Spec

-----------------------------------------------------------------------------
(* PlasmaShell: there is one request at most, from the round in which it    *)
(* is decided upon until its approval has come back.                       *)

ShellTyped ==
    /\ shell \in Shell!Shells /\ used \in Sizes /\ shellSeen \in [Shell!Shells -> Sizes]
    /\ gpu \in Sizes /\ shellAge \in 0..ShellCooldown /\ since = shellAge
    /\ toCore \in Seq(Shell!Messages) /\ toKde \in Seq(Shell!Messages)

Asks(i)      == i \in 1..Len(toCore) /\ toCore[i].type = "restart"
Approval(i)  == i \in 1..Len(toKde) /\ toKde[i].type = "approved"

OneRequest ==
    /\ \A i \in 1..Len(toCore) : toCore[i].type \in {"query", "restart"}
    /\ \A i \in 1..Len(toKde) : toKde[i].type \in {"gpu", "approved"}
    /\ \A i, j \in Nat : Asks(i) /\ Asks(j) => i = j
    /\ \A i, j \in Nat : Approval(i) /\ Approval(j) => i = j
    /\ \A i, j \in Nat : ~(Asks(i) /\ Approval(j))
    /\ \A i \in Nat : Asks(i) \/ Approval(i) => ~shellAsked
    /\ \A i \in Nat : Asks(i) \/ Approval(i) => since >= ShellCooldown
    /\ shellAsked => since >= ShellCooldown

\* The messages of the protocol.
LEMMA ShellMessages ==
    /\ 0 \in Sizes /\ ShellCooldown \in Nat
    /\ \A p \in Shell!Shells : Shell!Query(p) \in Shell!Messages /\ Shell!Query(p).type = "query"
    /\ Shell!Ask \in Shell!Messages /\ Shell!Ask.type = "restart"
    /\ \A n \in Sizes : Shell!Answer(n) \in Shell!Messages /\ Shell!Answer(n).type = "gpu"
    /\ Shell!Approved \in Shell!Messages /\ Shell!Approved.type = "approved"
    /\ \A m \in Shell!Messages : m.pid \in Shell!Shells /\ m.kb \in Sizes
BY ShellAssumption DEF Shell!SizesAssumption, Shell!ShellAssumption, Shell!Messages,
   Shell!Shells, Shell!Query, Shell!Ask, Shell!Answer, Shell!Approved

\* A queue at its two ends.
LEMMA Appended ==
    ASSUME NEW T, NEW q \in Seq(T), NEW m \in T
    PROVE  /\ Append(q, m) \in Seq(T) /\ Len(Append(q, m)) = Len(q) + 1 /\ Len(q) \in Nat
           /\ \A i \in 1..Len(q) : Append(q, m)[i] = q[i]
           /\ Append(q, m)[Len(q) + 1] = m
OBVIOUS

\* What taking the head off a queue leaves.
LEMMA TakenOff ==
    ASSUME NEW T, NEW q \in Seq(T), q # <<>>
    PROVE  /\ Head(q) \in T /\ Head(q) = q[1] /\ Len(q) \in Nat \ {0}
           /\ Tail(q) \in Seq(T) /\ Len(Tail(q)) = Len(q) - 1
           /\ \A i \in 1..(Len(q) - 1) : Tail(q)[i] = q[i + 1]
<1>1. Len(q) \in Nat \ {0}
  OBVIOUS
<1>2. QED
  BY <1>1

\* Queues and clocks of PlasmaShell keep their types.
LEMMA ShellTypedStep ==
    ASSUME ShellTyped, Shell!Next
    PROVE  ShellTyped'
<1> USE ShellMessages DEF ShellTyped
<1>1. CASE (\E n \in Sizes : Shell!Use(n)) \/ Shell!Observe
  BY <1>1 DEF Shell!Use, Shell!Observe
<1>2. CASE Shell!Round
  <2>1. shellAge' \in 0..ShellCooldown /\ since' = shellAge'
    BY <1>2 DEF Shell!Round, Shell!Capped
  <2>2. toCore' \in Seq(Shell!Messages)
    BY <1>2, Appended DEF Shell!Round
  <2>3. QED
    BY <1>2, <2>1, <2>2 DEF Shell!Round
<1>3. CASE Shell!Decide
  <2>1. toCore' \in Seq(Shell!Messages) /\ gpu' \in Sizes
    BY <1>3, Appended DEF Shell!Decide
  <2>2. QED
    BY <1>3, <2>1 DEF Shell!Decide
<1>4. CASE Shell!Core
  <2>1. toCore' \in Seq(Shell!Messages) /\ Head(toCore) \in Shell!Messages
    BY <1>4, TakenOff DEF Shell!Core
  <2>2. toKde' \in Seq(Shell!Messages)
    BY <1>4, <2>1, Appended DEF Shell!Core
  <2>3. QED
    BY <1>4, <2>1, <2>2 DEF Shell!Core
<1>5. CASE Shell!Receive
  <2>1. toKde' \in Seq(Shell!Messages) /\ Head(toKde) \in Shell!Messages
    BY <1>5, TakenOff DEF Shell!Receive
  <2>2. gpu' \in Sizes /\ shellAge' \in 0..ShellCooldown /\ since' = shellAge'
    BY <1>5, <2>1 DEF Shell!Receive
  <2>3. QED
    BY <1>5, <2>1, <2>2 DEF Shell!Receive
<1>6. CASE Shell!Systemd
  BY <1>6 DEF Shell!Systemd, Shell!Shells
<1>7. QED
  BY <1>1, <1>2, <1>3, <1>4, <1>5, <1>6 DEF Shell!Next

\* With an answer within a round there is one request under way at most.
LEMMA OneRequestStep ==
    ASSUME ShellTyped, ShellTyped', OneRequest, ~Slow, Shell!Next
    PROVE  OneRequest'
<1> USE ShellMessages DEF ShellTyped
<1>1. ASSUME UNCHANGED <<toCore, toKde, shellAsked, since>>
      PROVE  OneRequest'
  BY <1>1 DEF OneRequest, Asks, Approval
<1>2. CASE (\E n \in Sizes : Shell!Use(n)) \/ Shell!Observe \/ Shell!Systemd
  BY <1>1, <1>2 DEF Shell!Use, Shell!Observe, Shell!Systemd
<1>3. CASE Shell!Round
  <2>1. toCore = <<>> /\ toKde = <<>> /\ toKde' = toKde
    <3>1. Len(toCore \o toKde) = Len(toCore) + Len(toKde) /\ toCore \o toKde = <<>>
      BY <1>3 DEF Shell!Round
    <3>2. Len(toCore) \in Nat /\ Len(toKde) \in Nat /\ Len(toCore) + Len(toKde) = 0
      BY <3>1
    <3>3. Len(toCore) = 0 /\ Len(toKde) = 0
      BY <3>2
    <3>4. QED
      BY <1>3, <3>3 DEF Shell!Round
  <2>2. CASE shellAge < ShellCooldown
    <3>1. UNCHANGED <<shellAsked, toCore>> /\ ~shellAsked
      BY <1>3, <2>2 DEF Shell!Round
    <3>2. QED
      BY <2>1, <3>1 DEF OneRequest, Asks, Approval
  <2>3. CASE ~(shellAge < ShellCooldown)
    <3>1. toCore' = <<Shell!Query(shell)>> /\ since' >= ShellCooldown
      BY <1>3, <2>1, <2>3 DEF Shell!Round, Shell!Capped
    <3>2. Len(toCore') = 1 /\ toCore'[1].type = "query" /\ Len(toKde') = 0
      BY <2>1, <3>1
    <3>3. \A i \in Nat : ~Asks(i)' /\ ~Approval(i)'
      BY <3>2 DEF Asks, Approval
    <3>4. QED
      BY <3>1, <3>2, <3>3 DEF OneRequest
  <2>4. QED
    BY <2>2, <2>3
<1>4. CASE Shell!Decide
  <2>1. shellAsked /\ ~shellAsked' /\ UNCHANGED <<toKde, since>> /\ since >= ShellCooldown
    BY <1>4 DEF Shell!Decide, OneRequest
  <2>2. CASE UNCHANGED toCore
    BY <2>1, <2>2 DEF OneRequest, Asks, Approval
  <2>3. CASE toCore' = Append(toCore, Shell!Ask)
    <3>1. /\ Len(toCore') = Len(toCore) + 1 /\ Len(toCore) \in Nat
          /\ \A i \in 1..Len(toCore) : toCore'[i] = toCore[i]
          /\ toCore'[Len(toCore) + 1].type = "restart"
      BY <2>3, Appended
    <3>2. \A i \in Nat : ~Asks(i) /\ ~Approval(i)
      BY <2>1 DEF OneRequest
    <3>3. \A i \in Nat : (Asks(i)' => i = Len(toCore) + 1) /\ ~Approval(i)'
      BY <2>1, <3>1, <3>2 DEF Asks, Approval
    <3>4. ASSUME NEW i \in 1..Len(toCore') PROVE toCore'[i].type \in {"query", "restart"}
      <4>1. i \in 1..Len(toCore) \/ i = Len(toCore) + 1
        BY <3>1
      <4>2. QED
        BY <3>1, <4>1 DEF OneRequest
    <3>5. QED
      BY <2>1, <3>3, <3>4 DEF OneRequest
  <2>4. QED
    BY <1>4, <2>2, <2>3 DEF Shell!Decide
<1>5. CASE Shell!Core
  <2> DEFINE m == IF Head(toCore).type = "query" THEN Shell!Answer(shellSeen[Head(toCore).pid])
                  ELSE Shell!Approved
  <2>1. toCore # <<>> /\ toCore' = Tail(toCore) /\ toKde' = Append(toKde, m)
        /\ UNCHANGED <<shellAsked, since>>
    BY <1>5 DEF Shell!Core
  <2>2. /\ Head(toCore) = toCore[1] /\ Len(toCore) \in Nat \ {0} /\ Len(toCore') = Len(toCore) - 1
        /\ \A i \in 1..(Len(toCore) - 1) : toCore'[i] = toCore[i + 1]
        /\ Head(toCore) \in Shell!Messages
    BY <2>1, TakenOff
  <2>3. m \in Shell!Messages /\ (m.type = "gpu" \/ (m.type = "approved" /\ Asks(1)))
    BY <2>2 DEF OneRequest, Asks
  <2> HIDE DEF m
  <2>4. /\ Len(toKde') = Len(toKde) + 1 /\ Len(toKde) \in Nat
        /\ \A i \in 1..Len(toKde) : toKde'[i] = toKde[i]
        /\ toKde'[Len(toKde) + 1] = m
    BY <2>1, <2>3, Appended
  <2>5. \A i \in Nat : Asks(i)' => Asks(i + 1)
    BY <2>2 DEF Asks
  <2>6. \A i \in Nat : Approval(i)' => Approval(i) \/ (i = Len(toKde) + 1 /\ Asks(1))
    BY <2>3, <2>4 DEF Approval
  <2>7. /\ \A i \in 1..Len(toCore') : toCore'[i].type \in {"query", "restart"}
        /\ \A i \in 1..Len(toKde') : toKde'[i].type \in {"gpu", "approved"}
    <3>1. ASSUME NEW i \in 1..Len(toCore') PROVE toCore'[i].type \in {"query", "restart"}
      <4>1. i + 1 \in 1..Len(toCore) /\ toCore'[i] = toCore[i + 1]
        BY <2>2
      <4>2. QED
        BY <4>1 DEF OneRequest
    <3>2. ASSUME NEW i \in 1..Len(toKde') PROVE toKde'[i].type \in {"gpu", "approved"}
      <4>1. i \in 1..Len(toKde) \/ i = Len(toKde) + 1
        BY <2>4
      <4>2. QED
        BY <2>3, <2>4, <4>1 DEF OneRequest
    <3>3. QED
      BY <3>1, <3>2
  <2>8. \A i \in Nat : ~(Asks(i)' /\ Asks(1))
    <3>1. \A i \in Nat : i + 1 # 1 => ~(Asks(i + 1) /\ Asks(1))
      BY DEF OneRequest
    <3>2. \A i \in Nat : Asks(i)' => i # 0
      BY DEF Asks
    <3>3. QED
      BY <2>5, <3>1, <3>2
  <2>9. ASSUME NEW i \in Nat, NEW j \in Nat, Asks(i)', Asks(j)' PROVE i = j
    <3>1. Asks(i + 1) /\ Asks(j + 1)
      BY <2>9, <2>5
    <3>2. i + 1 = j + 1
      BY <3>1 DEF OneRequest
    <3>3. QED
      BY <3>2
  <2>10. \A i, j \in Nat : Approval(i)' /\ Approval(j)' => i = j
    BY <2>6 DEF OneRequest
  <2>11. \A i, j \in Nat : ~(Asks(i)' /\ Approval(j)')
    <3>1. \A i, j \in Nat : ~(Asks(i + 1) /\ Approval(j))
      BY DEF OneRequest
    <3>2. QED
      BY <2>5, <2>6, <2>8, <3>1
  <2>12. \A i \in Nat : Asks(i)' \/ Approval(i)' => ~shellAsked /\ since >= ShellCooldown
    <3>1. \A i \in Nat : Asks(i) \/ Approval(i) => ~shellAsked /\ since >= ShellCooldown
      BY DEF OneRequest
    <3>2. \A i \in Nat : i + 1 \in Nat
      OBVIOUS
    <3>3. QED
      BY <2>5, <2>6, <3>1, <3>2
  <2>13. shellAsked => since >= ShellCooldown
    BY DEF OneRequest
  <2>14. QED
    BY <2>1, <2>7, <2>9, <2>10, <2>11, <2>12, <2>13 DEF OneRequest
<1>6. CASE Shell!Receive
  <2>1. toKde # <<>> /\ toKde' = Tail(toKde) /\ UNCHANGED <<toCore, shellAsked>>
    BY <1>6 DEF Shell!Receive
  <2>2. /\ Head(toKde) = toKde[1] /\ Len(toKde) \in Nat \ {0} /\ Len(toKde') = Len(toKde) - 1
        /\ \A i \in 1..(Len(toKde) - 1) : toKde'[i] = toKde[i + 1]
    BY <2>1, TakenOff
  <2>3. \A i \in Nat : (Asks(i)' <=> Asks(i)) /\ (Approval(i)' => Approval(i + 1) /\ i # 0)
    BY <2>1, <2>2 DEF Asks, Approval
  <2>4. /\ \A i \in 1..Len(toCore') : toCore'[i].type \in {"query", "restart"}
        /\ \A i \in 1..Len(toKde') : toKde'[i].type \in {"gpu", "approved"}
    BY <2>1, <2>2 DEF OneRequest
  <2>5. ASSUME NEW i \in Nat, NEW j \in Nat, Approval(i)', Approval(j)' PROVE i = j
    <3>1. Approval(i + 1) /\ Approval(j + 1)
      BY <2>5, <2>3
    <3>2. i + 1 = j + 1
      BY <3>1 DEF OneRequest
    <3>3. QED
      BY <3>2
  <2>6. \A i, j \in Nat : ~(Asks(i)' /\ Approval(j)')
    <3>1. \A i, j \in Nat : ~(Asks(i) /\ Approval(j + 1))
      BY DEF OneRequest
    <3>2. QED
      BY <2>3, <3>1
  <2>7. \A i \in Nat : Asks(i)' \/ Approval(i)' => ~shellAsked /\ since >= ShellCooldown
    <3>1. \A i \in Nat : Asks(i) \/ Approval(i) => ~shellAsked /\ since >= ShellCooldown
      BY DEF OneRequest
    <3>2. \A i \in Nat : i + 1 \in Nat
      OBVIOUS
    <3>3. QED
      BY <2>3, <3>1, <3>2
  <2>8. CASE since' = since
    BY <2>1, <2>3, <2>4, <2>5, <2>6, <2>7, <2>8 DEF OneRequest
  <2>9. CASE since' # since
    <3>1. Approval(1)
      BY <1>6, <2>2, <2>9 DEF Shell!Receive, Approval, OneRequest
    <3>2. ~shellAsked
      BY <3>1 DEF OneRequest
    <3>3. \A i \in Nat : ~Asks(i)' /\ ~Approval(i)'
      <4>1. \A i \in Nat : ~Asks(i) /\ (i + 1 # 1 => ~Approval(i + 1))
        BY <3>1 DEF OneRequest
      <4>2. QED
        BY <2>3, <4>1
    <3>4. QED
      BY <2>1, <2>4, <3>2, <3>3 DEF OneRequest
  <2>10. QED
    BY <2>8, <2>9
<1>7. QED
  BY <1>2, <1>3, <1>4, <1>5, <1>6 DEF Shell!Next

\* Restarts are spaced, as long as the daemon answers within a round.
LEMMA ShellSpaced ==
    ASSUME ~Slow
    PROVE  Shell!Spec => Shell!RestartsSpaced
<1>1. Shell!Init => ShellTyped /\ OneRequest
  <2>1. Shell!Init => ShellTyped
    BY ShellMessages DEF Shell!Init, ShellTyped, Shell!Shells
  <2>2. Shell!Init => OneRequest
    BY ShellMessages DEF Shell!Init, OneRequest, Asks, Approval
  <2>3. QED
    BY <2>1, <2>2
<1>2. ShellTyped /\ OneRequest /\ [Shell!Next]_(Shell!vars) => ShellTyped' /\ OneRequest'
  <2>1. CASE UNCHANGED Shell!vars
    BY <2>1 DEF Shell!vars, ShellTyped, OneRequest, Asks, Approval
  <2>2. QED
    BY <2>1, ShellTypedStep, OneRequestStep
<1>3. ShellTyped /\ ShellTyped' /\ OneRequest /\ [Shell!Next]_(Shell!vars)
        => [since' < since => since >= ShellCooldown]_(Shell!vars)
  <2> SUFFICES ASSUME ShellTyped, ShellTyped', OneRequest, Shell!Next, since' < since
               PROVE  since >= ShellCooldown
    BY DEF Shell!vars
  <2>1. since \in 0..ShellCooldown /\ ShellCooldown \in Nat
    BY ShellMessages DEF ShellTyped
  <2>2. CASE Shell!Receive
    <3>1. toKde # <<>> /\ Head(toKde).type # "gpu"
      BY <2>1, <2>2 DEF Shell!Receive
    <3>2. Approval(1)
      BY <3>1, TakenOff DEF Approval, OneRequest, ShellTyped
    <3>3. QED
      BY <3>2 DEF OneRequest
  <2>3. CASE Shell!Round
    BY <2>1, <2>3 DEF Shell!Round, Shell!Capped
  <2>4. QED
    BY <2>1, <2>2, <2>3 DEF Shell!Next, Shell!Use, Shell!Observe, Shell!Decide, Shell!Core,
       Shell!Systemd
<1>4. QED
  BY <1>1, <1>2, <1>3, PTL DEF Shell!Spec, Shell!RestartsSpaced

-----------------------------------------------------------------------------
(* PlasmaDiscover: the tracker never counts more idle rounds of a process   *)
(* than there were.                                                        *)

IdleSeen ==
    /\ discover \in Discover!Pids \cup {0}
    /\ tracker.idle \in 0..IdleCheck /\ quiet \in 0..IdleCheck
    /\ tracker = [pid |-> tracker.pid, idle |-> tracker.idle]
    /\ discover # 0 /\ tracker.pid = discover /\ ~worked => quiet >= tracker.idle

\* What a round makes of the tracker.
LEMMA RoundSeen ==
    ASSUME IdleSeen, IdleCheck \in Nat \ {0}, Discover!Round
    PROVE  IdleSeen' /\ (asked' \subseteq asked \/ quiet' >= IdleCheck)
<1> DEFINE idle  == Discover!Capped(tracker.idle + 1, IdleCheck)
           looks == told /\ Discover!Capped(reaped + 1, ReapCooldown) >= ReapCooldown
           now   == Discover!Checked(idle)
<1>1. /\ idle \in 0..IdleCheck /\ quiet' \in 0..IdleCheck /\ discover' = discover
      /\ quiet >= tracker.idle => quiet' >= idle
      /\ quiet' = Discover!Capped(quiet + 1, IdleCheck)
  BY DEF IdleSeen, Discover!Round, Discover!Capped
<1>2. /\ tracker' = IF looks THEN now ELSE [tracker EXCEPT !.idle = idle]
      /\ worked' = (worked /\ ~(looks /\ discover # 0))
      /\ asked' # asked =>
            looks /\ discover # 0 /\ now.pid = tracker.pid /\ now.idle >= IdleCheck
  BY DEF Discover!Round, Discover!NoPid
<1> HIDE DEF idle, looks
<1>3. /\ now = [pid |-> now.pid, idle |-> now.idle] /\ now.idle \in 0..IdleCheck
      /\ discover # 0 => now.pid = discover
      /\ discover # 0 /\ tracker.pid # discover => now.idle = 0
      /\ discover # 0 /\ worked => now.idle = 0
      /\ now.idle \in {0, idle}
  BY <1>1 DEF Discover!Checked, Discover!NoPid, IdleSeen
<1>4. discover # 0 /\ now.idle # 0 => tracker.pid = discover /\ ~worked
  BY <1>3
<1>5. discover # 0 => quiet' >= now.idle
  BY <1>1, <1>3, <1>4 DEF IdleSeen
<1> HIDE DEF now
<1>6. CASE looks
  <2>1. tracker' = now
    BY <1>2, <1>6
  <2>2. QED
    BY <1>1, <1>2, <1>3, <1>5, <2>1 DEF IdleSeen
<1>7. CASE ~looks
  <2>1. /\ tracker'.idle = idle /\ tracker'.pid = tracker.pid /\ (worked' <=> worked)
        /\ tracker' = [pid |-> tracker'.pid, idle |-> tracker'.idle]
    BY <1>2, <1>7 DEF IdleSeen
  <2>2. asked' = asked
    BY <1>2, <1>7
  <2>3. QED
    BY <1>1, <2>1, <2>2 DEF IdleSeen
<1>8. QED
  BY <1>6, <1>7

\* Only a plasma-discover that was idle round by round is reaped, unless its pid is taken
\* again within one (mgd-kde/src/main.rs:237-289).
LEMMA DiscoverReapedIdle ==
    ASSUME ~QuickReuse
    PROVE  Discover!Spec => Discover!ReapedIdle
<1>0. IdleCheck \in Nat \ {0}
  BY DiscoverAssumption DEF Discover!DiscoverAssumption
<1>1. Discover!Init => IdleSeen
  BY <1>0 DEF Discover!Init, IdleSeen, Discover!NoPid
<1>2. ASSUME IdleSeen, Discover!Next
      PROVE  IdleSeen' /\ (asked' \subseteq asked \/ quiet' >= IdleCheck)
  <2>1. CASE \E i \in Discover!Pids : Discover!Start(i)
    BY <1>0, <1>2, <2>1 DEF Discover!Start, IdleSeen
  <2>2. CASE Discover!Work
    BY <1>0, <1>2, <2>2 DEF Discover!Work, IdleSeen
  <2>3. CASE Discover!Exit
    BY <1>2, <2>3 DEF Discover!Exit, IdleSeen, Discover!NoPid
  <2>4. CASE Discover!Pressure
    BY <1>2, <2>4 DEF Discover!Pressure, IdleSeen
  <2>5. CASE Discover!Terminated
    BY <1>2, <2>5 DEF Discover!Terminated, IdleSeen, Discover!NoPid
  <2>6. QED
    BY <1>0, <1>2, <2>1, <2>2, <2>3, <2>4, <2>5, RoundSeen DEF Discover!Next
<1>3. IdleSeen /\ UNCHANGED Discover!vars => IdleSeen'
  BY DEF Discover!vars, IdleSeen
<1>4. QED
  BY <1>1, <1>2, <1>3, PTL DEF Discover!Spec, Discover!ReapedIdle

-----------------------------------------------------------------------------
\* What is destructive does no harm: when the daemon answers mgd-kde within a round, a pid is
\* not reused within one, and nobody else takes the memory that the helper has measured,
\* restarts of plasmashell are spaced, only an idle plasma-discover is reaped, and no swap
\* device is lost or brought in without room, for any sizes, limits and devices
\* (mgd-kde/src/main.rs:206-209, 237-289, reclaim.rs:83-151).
THEOREM HarmlessOnTheWhole ==
    ASSUME ~Slow, ~QuickReuse, ~Drift
    PROVE  Shell!Spec /\ Discover!Spec /\ Swap!Spec => DoesNoHarm
BY ShellSpaced, DiscoverReapedIdle, SwapSafe DEF DoesNoHarm
===============================================================================
