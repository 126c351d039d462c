---------------------------- MODULE ReclaimGates ----------------------------
(***************************************************************************)
(* The two measures of a full cycle that come at most once in a cooldown:  *)
(* early reclaim, at Elevated, and the dropping of page cache, from a      *)
(* level that is set.  Both remember the wall-clock second at which they   *)
(* last began, and the wall clock may be put back.                         *)
(*                                                                         *)
(* Time is counted in units of any size.                                   *)
(***************************************************************************)
EXTENDS Integers

CONSTANTS
    Gaps,        \* time from one full cycle to the next
    Jumps,       \* what the wall clock may be moved by
    MaxJumps,    \* bound on how often it is
    Cooldown,    \* of each measure
    DropTrigger, \* cache_drop_trigger
    MaxAge       \* bound on the ages that are told apart

Measures == {"early", "drop"}
Levels   == 0..4          \* Normal, Elevated, High, Critical, Emergency
Elevated == 1

LimitsAssumption ==
    /\ Gaps \subseteq Nat \ {0} /\ Jumps \subseteq Int /\ MaxJumps \in Nat
    /\ MaxAge \in Nat /\ Cooldown \in [Measures -> 1..MaxAge] /\ DropTrigger \in Levels

VARIABLES
    level,   \* last_level
    age,     \* wall clock less LAST_EARLY_RECLAIM or LAST_CACHE_DROP, or Never
    jumps,   \* how often the wall clock was moved
    since    \* history: time since each measure was taken, as it really passed

vars == <<level, age, jumps, since>>

\* No age can be this low: see Jumped.
Never  == 0 - MaxAge - 1
Capped(a) == IF a > MaxAge THEN MaxAge ELSE IF a < 0 - MaxAge THEN 0 - MaxAge ELSE a

-----------------------------------------------------------------------------
\* now.saturating_sub(last) against the cooldown
Cooled(m, a) == a = Never \/ (IF a < 0 THEN 0 ELSE a) >= Cooldown[m]

Wanted(m, l) == IF m = "early" THEN l = Elevated ELSE l >= DropTrigger /\ l > 0

Aged(m, gap) == IF age[m] = Never THEN Never ELSE Capped(age[m] + gap)

Init ==
    /\ level = 0 /\ jumps = 0
    /\ age = [m \in Measures |-> Never] /\ since = [m \in Measures |-> MaxAge]

\* A full cycle that found the level l.  A measure is marked before it is tried, and
\* what it reaches does not matter.
Cycle(l, gap) ==
    LET taken == {m \in Measures : Wanted(m, l) /\ Cooled(m, Aged(m, gap))}
    IN /\ level' = l
       /\ age' = [m \in Measures |-> IF m \in taken THEN 0 ELSE Aged(m, gap)]
       /\ since' = [m \in Measures |-> IF m \in taken THEN 0 ELSE Capped(since[m] + gap)]
       /\ UNCHANGED jumps

\* The wall clock is put back or forth.
Jump(d) ==
    /\ jumps < MaxJumps
    /\ jumps' = jumps + 1
    /\ age' = [m \in Measures |-> IF age[m] = Never THEN Never ELSE Capped(age[m] + d)]
    /\ UNCHANGED <<level, since>>

Next ==
    \/ \E l \in Levels, gap \in Gaps : Cycle(l, gap)
    \/ \E d \in Jumps : Jump(d)

Spec == Init /\ [][Next]_vars

\* Cycles come whatever they find; none of them need bring another level.
Fairness == WF_vars(\E gap \in Gaps : Cycle(level, gap))

-----------------------------------------------------------------------------
\* Types of the variables.
TypeOK ==
    /\ level \in Levels /\ jumps \in 0..MaxJumps
    /\ age \in [Measures -> {Never} \cup (0 - MaxAge)..MaxAge]
    /\ since \in [Measures -> 0..MaxAge]

\* A measure is not taken twice within its cooldown, although the clock that it is
\* measured with may be put back (early_reclaim.rs:31-36, cache_drop.rs:23-29).
TakenSparingly ==
    [][\A m \in Measures :
          jumps' = jumps /\ since'[m] = 0 =>
              \E gap \in Gaps : since[m] + gap >= Cooldown[m]]_vars

\* A clock that was put back delays a measure but does not end it.
TakenAgain ==
    \A m \in Measures : <>[](Wanted(m, level)) => []<>(since[m] = 0)
=============================================================================
