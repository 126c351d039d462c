------------------------- MODULE PressureController -------------------------
(***************************************************************************)
(* How the evictor turns readings into the effective pressure level that   *)
(* gates everything it does: the composite score and its trend, the damped *)
(* state machine, the swap overrides with their 45 s timer, and the        *)
(* hibernation of last resort.                                             *)
(*                                                                         *)
(* Grain: one full cycle of evictor::run up to `last_level =`, which runs  *)
(* in one thread on local state, is one step.  Scores are kept in 1/10000, *)
(* times in tenths of a second.                                            *)
(***************************************************************************)
EXTENDS Integers

CONSTANTS
    Readings,       \* what one cycle may read, sub-scores in percent
    Gaps,           \* time between two full cycles, in tenths of a second
    HasTrigger,     \* a PSI trigger wakes the evictor at Normal; else 5 s polls
    HibernateAfter, \* emergency_hibernate_after_sec, in tenths; 0 = disabled
    MaxStreak       \* bound: equal readings are counted up to here

ASSUME ReadingsAssumption ==
    Readings \subseteq [psi : 0..100, swap : 0..100, gpu : 0..100, io : 0..100]
ASSUME GapsAssumption == Gaps \subseteq Nat
ASSUME BoundsAssumption ==
    MaxStreak \in Nat /\ MaxStreak >= 12 /\ HibernateAfter \in Nat

VARIABLES
    current, pending, ticks, \* StateMachine
    last,       \* the reading of the last full cycle
    level,      \* last_level: the effective PressureLevel of that cycle
    sustained,  \* sustained_critical_swap_start: time since then, or None
    emergency,  \* sustained_emergency_start, likewise
    hibernated, \* hibernate_triggered
    rested,     \* a PSI wait has timed out since the last full cycle
    seen        \* history: the latest run of equal targets, see Observe

machine == <<current, pending, ticks>>
timers  == <<sustained, emergency, hibernated>>
vars    == <<machine, last, level, timers, rested, seen>>

\* ControlState and, 1-to-1, PressureLevel.
Calm      == 0
Warning   == 1
Evicting  == 2
Critical  == 3
Emergency == 4
Levels == Calm..Emergency

None == -1
SwapWindow == 450

Zero == [psi |-> 0, swap |-> 0, gpu |-> 0, io |-> 0]

TypeOK ==
    /\ current \in Levels /\ pending \in Levels /\ ticks \in 0..11
    /\ last \in Readings \cup {Zero}
    /\ level \in Levels
    /\ sustained \in None..SwapWindow
    /\ emergency \in None..HibernateAfter
    /\ hibernated \in BOOLEAN /\ rested \in BOOLEAN
    /\ seen \in [target : Levels, len : 0..MaxStreak, steep : BOOLEAN,
                 beat : BOOLEAN]

Init ==
    /\ current = Calm /\ pending = Calm /\ ticks = 0
    /\ last = Zero
    /\ level = Calm
    /\ sustained = None /\ emergency = None /\ hibernated = FALSE
    /\ rested = FALSE
    /\ seen = [target |-> Calm, len |-> 0, steep |-> FALSE, beat |-> FALSE]

-----------------------------------------------------------------------------
(* Score, trend and target.                                                *)

Score(r) == 55 * r.psi + 20 * r.swap + 15 * r.gpu + 10 * r.io

\* trend > k/100 per second; below 0.1 s there is no trend.
Rises(r, dt, k) == dt > 1 /\ (Score(r) - Score(last)) * 10 > 100 * k * dt

\* Some stall (PSI > 0.5 %) or swap churn (> 1000 of 51200 KB/s).
Live(r) == r.psi >= 1 \/ r.io >= 2

target_state_for(r, dt) ==
    LET p == Score(r) IN
    IF p >= 7000 \/ (p >= 5500 /\ Rises(r, dt, 5)) THEN Emergency
    ELSE IF p >= 5000 \/ (p >= 3500 /\ Rises(r, dt, 3)) THEN Critical
    ELSE IF p >= 3000 \/ (p >= 2000 /\ Rises(r, dt, 2)) THEN Evicting
    ELSE IF p >= 1500 /\ Live(r) THEN Warning
    ELSE Calm

-----------------------------------------------------------------------------
(* The state machine.                                                      *)

\* Mutated form of RequiredTicks: every way down is as short as the way up.
RequiredTicksUp(target) == 2

\* Consecutive cycles that must ask for target before it is taken.
RequiredTicks(target) ==
    IF target > current THEN 2
    ELSE IF target = Calm THEN 12 ELSE IF target = Warning THEN 6 ELSE 4

\* Mutated form of Persist: the pending target is not remembered.
PersistForgets(target) ==
    IF target # pending
    THEN ticks' = 1 /\ UNCHANGED <<current, pending>>
    ELSE IF ticks + 1 >= RequiredTicks(target)
         THEN current' = target /\ ticks' = 0 /\ UNCHANGED pending
         ELSE ticks' = ticks + 1 /\ UNCHANGED <<current, pending>>

\* A target other than the pending one starts the count again.
Persist(target) ==
    IF target # pending
    THEN pending' = target /\ ticks' = 1 /\ UNCHANGED current
    ELSE IF ticks + 1 >= RequiredTicks(target)
         THEN current' = target /\ ticks' = 0 /\ UNCHANGED pending
         ELSE ticks' = ticks + 1 /\ UNCHANGED <<current, pending>>

\* Mutated form of advance: a matching target leaves the count alone.
AdvanceNoReset(target, steep) ==
    CASE target > current /\ target >= Critical /\ steep ->
            current' = target /\ pending' = target /\ ticks' = 0
      [] target = current -> UNCHANGED machine
      [] OTHER -> Persist(target)

advance(target, steep) ==
    CASE target > current /\ target >= Critical /\ steep ->
            current' = target /\ pending' = target /\ ticks' = 0
      [] target = current ->
            pending' = current /\ ticks' = 0 /\ UNCHANGED current
      [] OTHER -> Persist(target)

-----------------------------------------------------------------------------
(* Swap overrides and hibernation.                                         *)

Capped(x, cap) == IF x > cap THEN cap ELSE x
Elapse(start, dt, cap) == IF start = None THEN None ELSE Capped(start + dt, cap)
Started(start, dt, cap) == IF start = None THEN 0 ELSE Elapse(start, dt, cap)

Exhausted(r) == r.swap >= 95
NearFull(r) == r.swap >= 98

Forced(r, base) == IF Exhausted(r) /\ base < Critical THEN Critical ELSE base

\* The timer after this cycle: it runs while swap is near full, and at
\* Emergency an already running one is kept.
Sustained(r, base, dt) ==
    IF NearFull(r) /\ Forced(r, base) >= Critical
    THEN Started(sustained, dt, SwapWindow)
    ELSE IF Forced(r, base) >= Emergency
         THEN Elapse(sustained, dt, SwapWindow)
         ELSE None

apply_swap_overrides(r, base, dt) ==
    /\ sustained' = Sustained(r, base, dt)
    /\ level' = IF sustained' = SwapWindow /\ Forced(r, base) < Emergency
                THEN Emergency ELSE Forced(r, base)

Hibernate(dt) ==
    /\ emergency' = IF level' = Emergency
                    THEN Started(emergency, dt, HibernateAfter) ELSE None
    /\ hibernated' = (hibernated \/ (HibernateAfter > 0 /\ emergency' = HibernateAfter))

-----------------------------------------------------------------------------
(* The threads.                                                            *)

\* History: the target of this cycle, how many cycles in a row had it, whether
\* the trend was above 0.08, and a beat that tells a cycle with nothing new
\* from no cycle at all.
Observe(r, target, steep, dt) ==
    seen' = [target |-> target,
             len    |-> IF target # seen.target THEN 1
                        ELSE Capped(seen.len + 1, MaxStreak),
             steep  |-> steep,
             beat   |-> ~seen.beat]

\* Above Normal, after a timed-out wait and without a trigger the evictor
\* has slept for 5 s; a PSI event ends the wait earlier.
MayFollow(dt) == dt >= 50 \/ (HasTrigger /\ level = Calm /\ ~rested)

Cycle(r, dt) ==
    /\ MayFollow(dt)
    /\ LET target == target_state_for(r, dt)
           steep  == Rises(r, dt, 8)
       IN  /\ advance(target, steep)
           /\ Observe(r, target, steep, dt)
    /\ apply_swap_overrides(r, current', dt)
    /\ Hibernate(dt)
    /\ last' = r
    /\ rested' = FALSE

\* The wait for a PSI event times out: no reading, the loop starts over.
Rest ==
    /\ HasTrigger /\ level = Calm /\ ~rested
    /\ rested' = TRUE
    /\ UNCHANGED <<machine, last, level, timers, seen>>

Evictor == \E r \in Readings, dt \in Gaps : Cycle(r, dt)
Next == Evictor \/ Rest

Spec == Init /\ [][Next]_vars

\* The evictor thread keeps polling, and time passes as in Gaps; but nobody
\* promises that an event ends its wait.
FairSpec == Spec /\ WF_vars(Evictor /\ ~rested)
-----------------------------------------------------------------------------
(* Properties.                                                             *)

\* The state machine climbs only to a state that the last two full cycles
\* asked for, or at once on a steep rise to Critical or Emergency; however
\* the targets change in between.
EscalationPersists ==
    [][current' > current =>
         /\ seen'.target = current'
         /\ seen'.len >= 2 \/ (seen'.steep /\ current' >= Critical)]_vars

\* It climbs down only to a state that all cycles of the recovery cooldown
\* asked for: no count is carried over from another target or from before
\* the target was met.
RecoveryPersists ==
    [][current' < current =>
         /\ seen'.target = current'
         /\ seen'.len >= 4
         /\ current' = Calm => seen'.len >= 12
         /\ current' = Warning => seen'.len >= 6]_vars

\* When the same state is asked for from some time on, and no wait for an
\* event goes on for ever, the state machine takes it and stays.
Settles ==
    \A s \in Levels : <>[](seen.target = s) /\ []<>~rested => <>[](current = s)

\* When readings stay harmless (nothing asked for, swap not exhausted), the
\* effective level returns to Normal: no override or timer outlives its cause.
ReturnsToNormal ==
    <>[](seen.target = Calm /\ ~Exhausted(last)) => <>[](level = Calm)

\* One reading between 95 % and 98 % of swap at Emergency leaves the 45 s
\* window running.
DipKeepsTimer ==
    [][level = Emergency /\ sustained # None /\ Exhausted(last') => sustained' # None]_vars
=============================================================================
