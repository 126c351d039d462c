------------------------------ MODULE LeakGuard ------------------------------
(***************************************************************************)
(* The leak guard: a family of processes with one command line that only   *)
(* ever grows is taken for a leak, and all of it but the newest members    *)
(* are terminated.  It looks once per full cycle of the evictor, and knows *)
(* of a family the counts of the last cycles.                              *)
(*                                                                         *)
(* Pids are numbers; the guard takes the highest for the newest.  Time is  *)
(* counted in units of any size: a sample has an age, and a cooldown is    *)
(* what remains of it.                                                     *)
(***************************************************************************)
EXTENDS Integers, Sequences, SequencesExt, FiniteSetsExt

CONSTANTS
    Pids,           \* pids of the processes that the guard may see
    Families, FamilyOf, Exclude,
    RssOf,          \* memory of a process
    Gaps,           \* time from one look to the next
    WindowSec, MinGroupCount, MinGroupRss, GrowthOverWindow, MinSamples, KeepNewest,
    CooldownSec,
    MaxAge,         \* bound on the ages that are told apart
    Wraps           \* a new process may get a pid below those in use

PidsAssumption ==
    /\ Pids \subseteq Nat /\ IsFiniteSet(Pids)
    /\ FamilyOf \in [Pids -> Families] /\ Exclude \subseteq Families
    /\ RssOf \in [Pids -> Nat]
LimitsAssumption ==
    /\ Gaps \subseteq Nat \ {0} /\ MaxAge \in Nat /\ WindowSec \in 0..MaxAge
    /\ MinGroupCount \in Nat \ {0} /\ MinGroupRss \in Nat /\ GrowthOverWindow \in Nat
    /\ MinSamples \in Nat \ {0} /\ KeepNewest \in Nat /\ CooldownSec \in 0..MaxAge
    /\ Wraps \in BOOLEAN

VARIABLES
    live,     \* pids in use
    groups,   \* LeakTracker: a state per family, or NoGroup
    termed,   \* processes that got the SIGTERM
    age,      \* history: per live pid, time since it came
    elders,   \* history: per live pid, those that came before it
    struck,   \* history: the families reaped in the last step
    rested    \* history: per family, time since it was reaped, if it stayed above the floor

vars == <<live, groups, termed, age, elders, struck, rested>>

Capped(a) == IF a < MaxAge THEN a ELSE MaxAge
Less(a, b) == IF a > b THEN a - b ELSE 0       \* saturating_sub

Members(f) == {i \in live : FamilyOf[i] = f}
TotalRss(f) == LET Rss(i) == RssOf[i] IN MapThenSumSet(Rss, Members(f))

-----------------------------------------------------------------------------
(* The state of a family: its samples, oldest first, and its cooldown.     *)

NoGroup  == [samples |-> <<>>, cool |-> 0]
Samples  == [count : Nat, age : 0..MaxAge]
Absent(g) == g.samples = <<>>

Dropped(f, g) == IF Cardinality(Members(f)) < MinGroupCount THEN NoGroup ELSE g

\* What is left when the front is taken off until it lies in the window.
InWindow(samples) ==
    LET n == CHOOSE n \in DOMAIN samples :
                 samples[n].age <= WindowSec /\ \A m \in 1..(n - 1) : samples[m].age > WindowSec
    IN SubSeq(samples, n, Len(samples))

Aged(g, gap) ==
    [samples |-> [n \in DOMAIN g.samples |->
                     [g.samples[n] EXCEPT !.age = Capped(@ + gap)]],
     cool    |-> Less(g.cool, gap)]

Counted(f, g) ==
    [g EXCEPT !.samples = InWindow(Append(@, [count |-> Cardinality(Members(f)), age |-> 0]))]

NeverShrunk(samples) ==
    \A n \in 1..(Len(samples) - 1) : samples[n].count <= samples[n + 1].count

Leaking(f, g) ==
    /\ Len(g.samples) >= MinSamples
    /\ NeverShrunk(g.samples)
    /\ Less(Last(g.samples).count, Head(g.samples).count) >= GrowthOverWindow
    /\ TotalRss(f) >= MinGroupRss

\* All members but the KeepNewest with the highest pids.
Stale(f) == {i \in Members(f) : Cardinality({j \in Members(f) : j > i}) >= KeepNewest}

Cooling(g) == [g EXCEPT !.cool = CooldownSec]

Watched(f) == f \notin Exclude /\ Cardinality(Members(f)) >= MinGroupCount

-----------------------------------------------------------------------------
Init ==
    /\ live = {} /\ termed = {}
    /\ age = [i \in Pids |-> 0] /\ elders = [i \in Pids |-> {}]
    /\ groups = [f \in Families |-> NoGroup] /\ struck = {}
    /\ rested = [f \in Families |-> MaxAge]

\* LeakTracker::update, and the SIGTERM threads of its decisions.
Update ==
    \E gap \in Gaps :
        LET before == [f \in Families |-> Dropped(f, Aged(groups[f], gap))]
            now    == [f \in Families |->
                          IF Watched(f) THEN Counted(f, before[f]) ELSE before[f]]
            reaped == {f \in Families :
                          Watched(f) /\ Leaking(f, now[f]) /\ now[f].cool = 0}
        IN /\ groups' = [f \in Families |->
                  IF f \in reaped THEN Cooling(now[f]) ELSE now[f]]
           /\ termed' = termed \cup UNION {Stale(f) : f \in reaped}
           /\ age' = [i \in Pids |-> IF i \in live THEN Capped(age[i] + gap) ELSE 0]
           /\ struck' = reaped
           /\ rested' = [f \in Families |->
                  IF f \in reaped THEN 0
                  ELSE IF Cardinality(Members(f)) < MinGroupCount THEN MaxAge
                  ELSE Capped(rested[f] + gap)]
           /\ UNCHANGED <<live, elders>>

Start(i) ==
    /\ i \notin live
    /\ Wraps \/ \A j \in live : j < i
    /\ live' = live \cup {i} /\ elders' = [elders EXCEPT ![i] = live]
    /\ struck' = {}
    /\ UNCHANGED <<groups, termed, age, rested>>

Exit(i) ==
    /\ i \in live
    /\ live' = live \ {i} /\ termed' = termed \ {i}
    /\ age' = [age EXCEPT ![i] = 0]
    /\ elders' = [j \in Pids |-> IF j = i THEN {} ELSE elders[j] \ {i}]
    /\ struck' = {}
    /\ UNCHANGED <<groups, rested>>

Next == Update \/ \E i \in Pids : Start(i) \/ Exit(i)

Spec == Init /\ [][Next]_vars

-----------------------------------------------------------------------------
\* Types of the variables.
TypeOK ==
    /\ live \subseteq Pids /\ termed \subseteq live
    /\ \A f \in Families :
           /\ \A n \in DOMAIN groups[f].samples : groups[f].samples[n] \in Samples
           /\ groups[f].cool \in 0..CooldownSec
    /\ struck \subseteq Families
    /\ age \in [Pids -> 0..MaxAge] /\ elders \in [Pids -> SUBSET live]
    /\ rested \in [Families -> 0..MaxAge]

\* Only a family that grew in the window is reaped: GrowthOverWindow of its members have
\* come since the oldest sample that counts (leak_guard.rs:165-189).
ReapedHasGrown ==
    [][\A f \in struck' :
          Cardinality({i \in Members(f) : age'[i] <= WindowSec}) >= GrowthOverWindow]_vars

\* The newest members survive, as long as pids do not wrap (leak_guard.rs:199-212).
NewestSpared ==
    [][\A f \in struck' : \A i \in Members(f) \cap (termed' \ termed) :
          Cardinality({j \in Members(f) : i \in elders[j]}) >= KeepNewest]_vars

\* Two reaps of a family that stays above the floor are a cooldown apart: those that got
\* a SIGTERM have time to go before they are counted again (leak_guard.rs:198).
ReapsAreSpaced ==
    [][\A f \in struck' :
          \E gap \in Gaps : rested[f] + gap >= CooldownSec]_vars
=============================================================================
